------------------------- MODULE CollectingProofs -------------------------
(***************************************************************************)
(* What the collectors guarantee beside the watermark of Collector: those  *)
(* that go by the day (DailyTasks) whatever the number of sources and      *)
(* days, the windows of the backfills and the time a source stands still,  *)
(* those that wait for a report (AdReports) whatever the number of runs,   *)
(* however long a token and a request last, and those that read a list     *)
(* page by page (Feeds) whatever the length of the list, of a page and of  *)
(* a window.                                                               *)
(*                                                                         *)
(* The days final at the mark of a source are in its table as the          *)
(* marketplace has them, but for those it has left out; a run that starts  *)
(* from the mark goes past final days only, and every run has what it has  *)
(* read.                                                                   *)
(*                                                                         *)
(* A token that the client holds to be good is taken by the marketplace    *)
(* for the skew at least; and what a run has read, or waits for, is not    *)
(* older than what was stored when it began, as long as it is alone.       *)
(*                                                                         *)
(* A reader by cursor has what is before the last place it has been at,    *)
(* one by offset what has fewer items before it than it has passed over.   *)
(***************************************************************************)
EXTENDS DailyTasks, AdReports, Feeds, FiniteSetTheorems, WellFoundedInduction, TLAPS

-----------------------------------------------------------------------------
(* The collectors by the day *)

\* A run under way is of a window that ends after the mark.  If it starts from the mark, it goes
\* past final days only; and of the days it has read those that were final when it began are as
\* the marketplace has them.
WtRunsKeepUp ==
  \A s \in WtSources : WtRunning(s) =>
    /\ wtMark[s] <= wtRun[s].to /\ wtRun[s].to <= wtToday
    /\ wtRun[s].since => \A d \in WtDays : d < wtRun[s].from => d + WtCorrected < wtMark[s]
    /\ \A d \in WtDays :
         wtRun[s].from <= d /\ d < wtRun[s].next /\ d + WtCorrected < wtRun[s].to
           => wtKept[s][d] = wtVersion[d]

WtMarksPast == \A s \in WtSources : wtMark[s] <= wtToday
WtInv == WtTypeOK /\ WtMarksPast /\ WtRunsKeepUp /\ FinalDaysKept

\* Days are integers from 1, and the lookback covers the corrections.
LEMMA WtNumbers ==
  ASSUME WtTypeOK
  PROVE  /\ \A d \in WtDays : d \in Int /\ 1 <= d /\ d <= WtLastDay
         /\ WtLastDay \in Int /\ WtLastDay \in WtDays
         /\ WtLookback \in Int /\ WtCorrected \in Int
         /\ 0 <= WtCorrected /\ WtCorrected <= WtLookback
         /\ wtToday \in WtDays
         /\ \A s \in WtSources : wtMark[s] \in WtDays
         /\ \A s \in WtSources : /\ wtRun[s].next \in Int /\ 1 <= wtRun[s].next
                                 /\ wtRun[s].from \in WtDays
                                 /\ wtRun[s].to = 0 \/ wtRun[s].to \in WtDays
<1>1. WtLastDay \in Nat /\ WtLastDay # 0
  BY WtAssumption
<1>2. \A d \in WtDays : d \in Int /\ 1 <= d /\ d <= WtLastDay
  BY <1>1 DEF WtDays
<1>3. WtLastDay \in Int /\ WtLastDay \in WtDays
  BY <1>1 DEF WtDays
<1>4. WtLookback \in Int /\ WtCorrected \in Int /\ 0 <= WtCorrected /\ WtCorrected <= WtLookback
  BY WtAssumption
<1>5. wtToday \in WtDays /\ \A s \in WtSources : wtMark[s] \in WtDays
  BY DEF WtTypeOK
<1>6. \A s \in WtSources : /\ wtRun[s].next \in 1..(WtLastDay + 1)
                           /\ wtRun[s].from \in WtDays /\ wtRun[s].to \in 0..WtLastDay
  BY DEF WtTypeOK
<1>7. \A s \in WtSources : /\ wtRun[s].next \in Int /\ 1 <= wtRun[s].next
                           /\ wtRun[s].from \in WtDays
                           /\ wtRun[s].to = 0 \/ wtRun[s].to \in WtDays
  BY <1>1, <1>6 DEF WtDays
<1>. QED BY <1>2, <1>3, <1>4, <1>5, <1>7

\* A run has read nothing when it begins; one that starts from the mark must begin no more than
\* WtCorrected days before it.
LEMMA WtBeginKeeps ==
  ASSUME WtInv, NEW s \in WtSources, NEW from \in Int, from <= WtLastDay,
         NEW since \in BOOLEAN, NEW marks \in BOOLEAN, WtBegin(s, from, since, marks),
         since => \A d \in WtDays : d < from => d + WtCorrected < wtMark[s]
  PROVE  WtInv'
<1> DEFINE first == WtFrom(from)
           run == [from |-> first, next |-> first, to |-> wtToday, since |-> since,
                   marks |-> marks]
<1>0. WtTypeOK /\ WtMarksPast /\ WtRunsKeepUp /\ FinalDaysKept
  BY DEF WtInv
<1>1. /\ \A d \in WtDays : d \in Int /\ 1 <= d /\ d <= WtLastDay
      /\ WtLastDay \in Int /\ WtLastDay \in WtDays /\ WtCorrected \in Int
      /\ wtToday \in WtDays /\ wtMark[s] \in WtDays
  BY <1>0, WtNumbers
<1>3. /\ first \in WtDays /\ first \in 1..(WtLastDay + 1) /\ first \in Int
      /\ \A d \in WtDays : d < first => d < from
  BY <1>1 DEF WtFrom, WtDays
<1>4. /\ wtRun' = [wtRun EXCEPT ![s] = run]
      /\ UNCHANGED <<wtToday, wtVersion, wtKept, wtMark, wtPassed, wtFaults>>
  BY DEF WtBegin
<1>5. WtTypeOK'
  <2>1. wtToday \in 0..WtLastDay
    BY <1>1
  <2>2. run \in [from : WtDays, next : 1..(WtLastDay + 1), to : 0..WtLastDay,
                 since : BOOLEAN, marks : BOOLEAN]
    BY <1>3, <2>1
  <2> HIDE DEF run
  <2>. QED BY <1>0, <1>4, <2>2 DEF WtTypeOK
<1>6. WtMarksPast' /\ FinalDaysKept'
  BY <1>0, <1>4 DEF WtMarksPast, FinalDaysKept
<1>7. WtRunsKeepUp'
  <2>1. wtRun'[s] = run /\ \A r \in WtSources \ {s} : wtRun'[r] = wtRun[r]
    BY <1>0, <1>4 DEF WtTypeOK
  <2>2. /\ wtRun'[s].from = first /\ wtRun'[s].next = first /\ wtRun'[s].to = wtToday
        /\ wtRun'[s].since = since
    BY <2>1
  <2>3. wtMark[s] <= wtToday /\ wtToday <= wtToday
    BY <1>0, <1>1 DEF WtMarksPast
  <2>4. \A d \in WtDays : ~(first <= d /\ d < first)
    BY <1>1, <1>3
  <2>5. since => \A d \in WtDays : d < first => d + WtCorrected < wtMark[s]
    BY <1>3
  <2> HIDE DEF first, run
  <2>. QED BY <1>0, <1>4, <2>1, <2>2, <2>3, <2>4, <2>5 DEF WtRunsKeepUp, WtRunning
<1>. QED BY <1>5, <1>6, <1>7 DEF WtInv

\* The window from the mark reaches back by at least the days still corrected; of the others
\* nothing is asked.
LEMMA WtStartKeeps ==
  ASSUME WtInv, NEW s \in WtSources,
         WtScheduled(s) \/ \E n \in WtBackfills : BackfillStart(s, n)
  PROVE  WtInv'
<1>1. /\ \A d \in WtDays : d \in Int /\ 1 <= d /\ d <= WtLastDay
      /\ WtLookback \in Int /\ WtCorrected \in Int /\ WtLastDay \in Int
      /\ 0 <= WtCorrected /\ WtCorrected <= WtLookback
      /\ wtToday \in WtDays /\ wtMark[s] \in WtDays
  BY WtNumbers DEF WtInv
<1>2. wtToday \in Int /\ wtMark[s] \in Int /\ wtToday <= WtLastDay /\ wtMark[s] <= WtLastDay
  BY <1>1
<1>3. CASE MarkedStart(s)
  <2>1. WtSince(s) \in Int /\ WtSince(s) <= WtLastDay
    BY <1>1, <1>2 DEF WtSince
  <2>2. \A d \in WtDays : d < WtSince(s) => d + WtCorrected < wtMark[s]
    BY <1>1, <1>2 DEF WtSince
  <2>3. WtBegin(s, WtSince(s), TRUE, TRUE)
    BY <1>3 DEF MarkedStart
  <2>. QED BY <2>1, <2>2, <2>3, WtBeginKeeps
<1>4. CASE FixedStart(s)
  <2>1. wtToday - WtLookback \in Int /\ wtToday - WtLookback <= WtLastDay
    BY <1>1, <1>2
  <2>2. WtBegin(s, wtToday - WtLookback, FALSE, TRUE)
    BY <1>4 DEF FixedStart
  <2>. QED BY <2>1, <2>2, WtBeginKeeps
<1>5. ASSUME NEW n \in WtBackfills, BackfillStart(s, n)  PROVE WtInv'
  <2>1. n \in Nat
    BY WtAssumption
  <2>2. wtToday - n \in Int /\ wtToday - n <= WtLastDay
    BY <1>1, <1>2, <2>1
  <2>3. WtBegin(s, wtToday - n, FALSE, s \in WtMarkedBy)
    BY <1>5 DEF BackfillStart
  <2>4. (s \in WtMarkedBy) \in BOOLEAN
    OBVIOUS
  <2>. QED BY <2>2, <2>3, <2>4, WtBeginKeeps
<1>. QED BY <1>3, <1>4, <1>5 DEF WtScheduled

\* A day read is kept as it is, and it is of those behind the run from then on.
LEMMA WtReadKeeps ==
  ASSUME WtInv, NEW s \in WtSources, WtReadDay(s)
  PROVE  WtInv'
<1> DEFINE day == wtRun[s].next
<1>0. WtTypeOK /\ WtMarksPast /\ WtRunsKeepUp /\ FinalDaysKept
  BY DEF WtInv
<1>1. day \in WtDays /\ WtRunning(s)
  BY <1>0, WtNumbers, WtAssumption DEF WtReadDay, WtRunning, WtDays
<1>2. /\ wtKept' = [wtKept EXCEPT ![s] = [wtKept[s] EXCEPT ![day] = wtVersion[day]]]
      /\ wtRun' = [wtRun EXCEPT ![s] = [wtRun[s] EXCEPT !.next = day + 1]]
      /\ UNCHANGED <<wtToday, wtVersion, wtMark, wtPassed, wtFaults>>
  BY DEF WtReadDay
<1>3. wtVersion[day] \in 0..WtVersions
  <2>1. wtVersion[day] \in 1..WtVersions
    BY <1>0, <1>1 DEF WtTypeOK
  <2>. QED BY <2>1, WtAssumption
<1>4. /\ wtKept' \in [WtSources -> [WtDays -> 0..WtVersions]]
      /\ wtKept'[s][day] = wtVersion[day]
      /\ \A r \in WtSources, d \in WtDays : r # s \/ d # day => wtKept'[r][d] = wtKept[r][d]
  BY <1>0, <1>1, <1>2, <1>3 DEF WtTypeOK
<1>5. /\ wtRun'[s].next = day + 1 /\ wtRun'[s].to = wtRun[s].to
      /\ wtRun'[s].from = wtRun[s].from /\ wtRun'[s].since = wtRun[s].since
      /\ \A r \in WtSources \ {s} : wtRun'[r] = wtRun[r]
      /\ wtRun' \in [WtSources -> [from : WtDays, next : 1..(WtLastDay + 1), to : 0..WtLastDay,
                                   since : BOOLEAN, marks : BOOLEAN]]
  <2>1. wtRun \in [WtSources -> [from : WtDays, next : 1..(WtLastDay + 1), to : 0..WtLastDay,
                                 since : BOOLEAN, marks : BOOLEAN]]
    BY <1>0 DEF WtTypeOK
  <2>2. day + 1 \in 1..(WtLastDay + 1)
    BY <1>1, WtAssumption DEF WtDays
  <2>. QED BY <1>2, <2>1, <2>2
<1>6. day \in Int /\ \A d \in WtDays : d \in Int
  BY <1>0, <1>1, WtNumbers
<1> HIDE DEF day
<1>7. WtTypeOK'
  BY <1>0, <1>2, <1>4, <1>5 DEF WtTypeOK
<1>8. WtMarksPast' /\ FinalDaysKept'
  BY <1>0, <1>2, <1>4 DEF WtMarksPast, FinalDaysKept
<1>9. WtRunsKeepUp'
  <2>1. \A d \in WtDays : d < day + 1 => d < day \/ d = day
    BY <1>6
  <2>2. \A d \in WtDays :
          wtRun[s].from <= d /\ d < day /\ d + WtCorrected < wtRun[s].to
            => wtKept[s][d] = wtVersion[d]
    BY <1>0, <1>1 DEF WtRunsKeepUp, day
  <2>3. \A d \in WtDays :
          wtRun'[s].from <= d /\ d < wtRun'[s].next /\ d + WtCorrected < wtRun'[s].to
            => wtKept'[s][d] = wtVersion'[d]
    BY <1>2, <1>4, <1>5, <2>1, <2>2
  <2>. QED BY <1>0, <1>1, <1>2, <1>4, <1>5, <2>3 DEF WtRunsKeepUp, WtRunning
<1>. QED BY <1>7, <1>8, <1>9 DEF WtInv

\* A day that passes takes nothing from it.
LEMMA WtTickKeeps ==
  ASSUME WtInv, WtTick
  PROVE  WtInv'
<1>0. WtTypeOK /\ WtMarksPast /\ WtRunsKeepUp /\ FinalDaysKept
  BY DEF WtInv
<1>1. /\ wtToday' = wtToday + 1 /\ wtToday < WtLastDay
      /\ UNCHANGED <<wtVersion, wtKept, wtMark, wtRun, wtPassed, wtFaults>>
  BY DEF WtTick
<1>2. WtTypeOK'
  <2>1. wtToday' \in WtDays
    BY <1>0, <1>1, WtAssumption DEF WtTypeOK, WtDays
  <2>. QED BY <1>0, <1>1, <2>1 DEF WtTypeOK
<1>3. wtToday \in Int /\ \A s \in WtSources : wtMark[s] \in Int /\ wtRun[s].to \in Int
  <2>1. \A d \in WtDays : d \in Int
    BY <1>0, WtNumbers
  <2>. QED BY <1>0, <2>1, WtNumbers
<1>4. WtMarksPast'
  BY <1>0, <1>1, <1>3 DEF WtMarksPast
<1>5. WtRunsKeepUp' /\ FinalDaysKept'
  BY <1>0, <1>1, <1>3 DEF WtRunsKeepUp, WtRunning, FinalDaysKept
<1>. QED BY <1>2, <1>4, <1>5 DEF WtInv

\* A correction keeps it: a day that is final is not corrected.
LEMMA WtCorrectKeeps ==
  ASSUME WtInv, NEW c \in WtDays, WtCorrect(c)
  PROVE  WtInv'
<1>0. WtTypeOK /\ WtMarksPast /\ WtRunsKeepUp /\ FinalDaysKept
  BY DEF WtInv
<1>1. /\ \A d \in WtDays : d \in Int
      /\ WtCorrected \in Int /\ wtToday \in Int
      /\ \A s \in WtSources : wtMark[s] \in Int /\ wtRun[s].to \in Int
  <2>1. \A d \in WtDays : d \in Int
    BY <1>0, WtNumbers
  <2>. QED BY <1>0, <2>1, WtNumbers
<1>2. UNCHANGED <<wtToday, wtKept, wtMark, wtRun, wtPassed, wtFaults>>
  BY DEF WtCorrect
<1>3. wtVersion' \in [WtDays -> 1..WtVersions]
  <2>1. wtVersion \in [WtDays -> 1..WtVersions] /\ wtVersion[c] < WtVersions
    BY <1>0 DEF WtTypeOK, WtCorrect
  <2>2. wtVersion[c] + 1 \in 1..WtVersions
    BY <2>1, WtAssumption
  <2>. QED BY <2>1, <2>2 DEF WtCorrect
<1>4. \A d \in WtDays : d + WtCorrected < wtToday => wtVersion'[d] = wtVersion[d]
  <2>1. \A d \in WtDays \ {c} : wtVersion'[d] = wtVersion[d]
    BY <1>0 DEF WtTypeOK, WtCorrect
  <2>2. ~(c + WtCorrected < wtToday)
    BY <1>1 DEF WtCorrect
  <2>. QED BY <2>1, <2>2
<1>5. WtTypeOK' /\ WtMarksPast'
  BY <1>0, <1>2, <1>3 DEF WtTypeOK, WtMarksPast
<1>6. FinalDaysKept'
  <2>1. \A s \in WtSources, d \in WtDays :
          d + WtCorrected < wtMark[s] => d + WtCorrected < wtToday
    BY <1>0, <1>1 DEF WtMarksPast
  <2>. QED BY <1>0, <1>2, <1>4, <2>1 DEF FinalDaysKept
<1>7. WtRunsKeepUp'
  <2>1. \A s \in WtSources, d \in WtDays :
          WtRunning(s) /\ d + WtCorrected < wtRun[s].to => d + WtCorrected < wtToday
    BY <1>0, <1>1 DEF WtRunsKeepUp
  <2>. QED BY <1>0, <1>2, <1>4, <2>1 DEF WtRunsKeepUp, WtRunning
<1>. QED BY <1>5, <1>6, <1>7 DEF WtInv

\* The end of a run keeps it.  If it writes the mark, every day that is final by then was read by
\* it, was final at the mark before, or is one it leaves out; if not, it has read what it could.
LEMMA WtEndKeeps ==
  ASSUME WtInv, NEW s \in WtSources, WtFinish(s) \/ WtFail(s)
  PROVE  WtInv'
<1>0. WtTypeOK /\ WtMarksPast /\ WtRunsKeepUp /\ FinalDaysKept
  BY DEF WtInv
<1>1. /\ \A d \in WtDays : d \in Int
      /\ WtCorrected \in Int /\ 0 <= WtCorrected /\ wtToday \in WtDays
      /\ wtMark[s] \in WtDays /\ wtRun[s].next \in Int /\ wtRun[s].from \in WtDays
  BY <1>0, WtNumbers
<1>2. wtRun' = [wtRun EXCEPT ![s] = WtIdle] /\ UNCHANGED <<wtToday, wtVersion, wtKept>>
  BY DEF WtFinish, WtFail
<1>3. /\ wtRun' \in [WtSources -> [from : WtDays, next : 1..(WtLastDay + 1), to : 0..WtLastDay,
                                   since : BOOLEAN, marks : BOOLEAN]]
      /\ ~WtRunning(s)' /\ \A r \in WtSources \ {s} : wtRun'[r] = wtRun[r]
  <2>1. wtRun \in [WtSources -> [from : WtDays, next : 1..(WtLastDay + 1), to : 0..WtLastDay,
                                 since : BOOLEAN, marks : BOOLEAN]]
    BY <1>0 DEF WtTypeOK
  <2>2. /\ WtIdle \in [from : WtDays, next : 1..(WtLastDay + 1), to : 0..WtLastDay,
                       since : BOOLEAN, marks : BOOLEAN]
        /\ WtIdle.to = 0
    BY WtAssumption DEF WtIdle, WtDays
  <2>. QED BY <1>2, <2>1, <2>2 DEF WtRunning
<1>4. CASE WtFinish(s)
  <2>1. /\ wtMark' = IF wtRun[s].marks THEN [wtMark EXCEPT ![s] = wtRun[s].to] ELSE wtMark
        /\ wtPassed' = [wtPassed EXCEPT ![s] =
             {d \in wtPassed[s] \cup WtLeftOut(s) : d < wtRun[s].from}]
        /\ UNCHANGED wtFaults
        /\ WtRunning(s) /\ wtRun[s].next > wtRun[s].to
    BY <1>4 DEF WtFinish
  <2>2. /\ wtRun[s].to \in WtDays /\ wtMark[s] <= wtRun[s].to /\ wtRun[s].to <= wtToday
        /\ wtRun[s].since => \A d \in WtDays : d < wtRun[s].from => d + WtCorrected < wtMark[s]
        /\ \A d \in WtDays :
             wtRun[s].from <= d /\ d < wtRun[s].next /\ d + WtCorrected < wtRun[s].to
               => wtKept[s][d] = wtVersion[d]
    BY <1>0, <2>1, WtNumbers DEF WtRunning, WtRunsKeepUp
  <2>3. /\ wtMark' \in [WtSources -> WtDays]
        /\ wtMark'[s] = IF wtRun[s].marks THEN wtRun[s].to ELSE wtMark[s]
        /\ \A r \in WtSources \ {s} : wtMark'[r] = wtMark[r]
    BY <1>0, <2>1, <2>2 DEF WtTypeOK
  <2>4. /\ wtPassed' \in [WtSources -> SUBSET WtDays]
        /\ wtPassed'[s] = {d \in wtPassed[s] \cup WtLeftOut(s) : d < wtRun[s].from}
        /\ \A r \in WtSources \ {s} : wtPassed'[r] = wtPassed[r]
    <3>1. {d \in wtPassed[s] \cup WtLeftOut(s) : d < wtRun[s].from} \in SUBSET WtDays
      BY <1>0 DEF WtTypeOK, WtLeftOut
    <3>. QED BY <1>0, <2>1, <3>1 DEF WtTypeOK
  <2>5. WtTypeOK'
    BY <1>0, <1>2, <1>3, <2>1, <2>3, <2>4 DEF WtTypeOK
  <2>6. WtMarksPast'
    BY <1>0, <1>2, <2>2, <2>3 DEF WtMarksPast
  <2>7. ASSUME NEW d \in WtDays, d + WtCorrected < wtMark'[s], d \notin wtPassed'[s]
        PROVE  wtKept[s][d] = wtVersion[d]
    <3>1. d + WtCorrected < wtRun[s].to /\ d < wtRun[s].next
      BY <1>1, <2>1, <2>2, <2>3, <2>7
    <3>2. CASE wtRun[s].from <= d
      BY <2>2, <3>1, <3>2
    <3>3. CASE d < wtRun[s].from
      <4>1. d \notin wtPassed[s] /\ d \notin WtLeftOut(s)
        BY <2>4, <2>7, <3>3
      <4>2. d + WtCorrected < wtMark[s]
        BY <1>1, <2>2, <2>3, <2>7, <3>3, <4>1 DEF WtLeftOut
      <4>. QED BY <1>0, <4>1, <4>2 DEF FinalDaysKept
    <3>. QED BY <1>1, <3>2, <3>3
  <2>8. FinalDaysKept'
    BY <1>0, <1>2, <2>3, <2>4, <2>7 DEF FinalDaysKept
  <2>9. WtRunsKeepUp'
    BY <1>0, <1>2, <1>3, <2>3 DEF WtRunsKeepUp, WtRunning
  <2>. QED BY <2>5, <2>6, <2>8, <2>9 DEF WtInv
<1>5. CASE WtFail(s)
  <2>1. wtFaults' \in 0..MaxWtFaults /\ UNCHANGED <<wtMark, wtPassed>>
    BY <1>0, <1>5, WtAssumption DEF WtFail, WtTypeOK
  <2>2. WtTypeOK'
    BY <1>0, <1>2, <1>3, <2>1 DEF WtTypeOK
  <2>. QED
    BY <1>0, <1>2, <1>3, <2>1, <2>2
    DEF WtInv, WtMarksPast, FinalDaysKept, WtRunsKeepUp, WtRunning
<1>. QED BY <1>4, <1>5

\* What a step keeps of the collectors by the day.
LEMMA WtInductive ==
  ASSUME WtInv, [WtNext]_wtVars
  PROVE  WtInv'
<1>1. CASE UNCHANGED wtVars
  BY <1>1 DEF wtVars, WtInv, WtTypeOK, WtMarksPast, WtRunsKeepUp, FinalDaysKept, WtRunning
<1>. QED BY <1>1, WtStartKeeps, WtReadKeeps, WtTickKeeps, WtCorrectKeeps, WtEndKeeps
  DEF WtNext, WtStep

\* The days that were final when the last run of a source began are in its raw table as the
\* marketplace has them, but for those the source has left out: for every stall, every backfill
\* and every choice of windows that covers the days still corrected.
THEOREM FinalDaysStay == WtSpec => []DaysSound
<1>1. WtInit => WtInv
  BY WtAssumption
  DEF WtInit, WtInv, WtTypeOK, WtMarksPast, WtRunsKeepUp, FinalDaysKept, WtRunning, WtIdle,
      WtDays, WtSources
<1>2. WtInv /\ [WtNext]_wtVars => WtInv'
  BY WtInductive
<1>3. WtInv => DaysSound
  BY DEF WtInv, DaysSound
<1>. QED BY <1>1, <1>2, <1>3, PTL DEF WtSpec

-----------------------------------------------------------------------------
(* Reports on request *)

\* A run with all its fields.
AdRunSet ==
  [pc: AdPlaces,
   end: {"success", "refused_post", "refused_get", "timeout", "failed", "lock_lost", "broken",
         "crash"},
   asking: BOOLEAN, age: 0..AdLatency, held: 0..AdLifetime, good: 0..AdLifetime, tries: {0, 1},
   left: Nat, job: [state: {"none", "queued", "ok", "failed"}, made: [AdDays -> 0..AdVersions]],
   row: {"none", "pending", "completed", "failed"}, at: Int, to: Int, began: AdDays,
   data: [AdDays -> 0..AdVersions], lost: Nat, overlapped: BOOLEAN, back: BOOLEAN]

\* The marketplace takes the token of the client for longer than the client does, if it takes it
\* at all; and until a request is as old as the skew, if no more were lost than refused.
AdTokenHolds(run) ==
  /\ run.held > 0 /\ run.good > 0 => run.good >= run.held + AdSkew
  /\ run.tries <= run.lost
  /\ run.lost = run.tries =>
       /\ run.held > 0 => run.good >= run.held + AdSkew
       /\ run.asking => run.good > 0 /\ run.good + run.age > AdSkew

\* A run that ends in the way given has cause to.
AdHasCause(run, end) ==
  /\ end = "refused_post" => run.lost >= 1
  /\ end = "refused_get"  => run.lost >= 2

\* A run was refused for cause, it asks what it is at, and what it says of its job is so.
AdRunTrue(run) ==
  /\ AdHasCause(run, run.end)
  /\ run.pc # "ended" => run.end = "success"
  /\ run.asking => run.pc \in AdRequests
  /\ run.row = "completed" => run.job.state = "ok"
  /\ run.row = "failed"    => run.job.state = "failed"
  /\ run.pc \in {"download", "done"} => run.job.state = "ok"
  /\ run.pc = "refused" => run.job.state = "failed"
  /\ run.pc \in {"save", "poll"} => run.job.state # "none"

\* A run has no figures that are not there yet; one that is alone has none, in its answers or in
\* the report it waits for, that are older than those stored.
AdFiguresFresh(run, cost, stored) ==
  /\ ~run.back
  /\ \A d \in AdDays : run.data[d] <= cost[d] /\ run.job.made[d] <= cost[d]
  /\ run.pc # "ended" /\ ~run.overlapped =>
       \A d \in AdDays :
         /\ run.data[d] > 0 => stored[d] <= run.data[d]
         /\ run.pc \in {"save", "poll", "download", "done"} /\ run.job.state = "ok" =>
              stored[d] <= run.job.made[d]

\* What holds of a run, given the kind of task and the figures shown and stored.
AdFits(run, kind, cost, stored) ==
  /\ run \in AdRunSet
  /\ kind # "ym" => AdTokenHolds(run)
  /\ AdRunTrue(run) /\ AdFiguresFresh(run, cost, stored)

\* The types of what runs share.
AdShared ==
  /\ adKind \in AdKinds /\ adToday \in AdDays /\ adMark \in AdDays
  /\ adCost \in [AdDays -> 1..AdVersions] /\ adStored \in [AdDays -> 0..AdVersions]
  /\ adLock \in AdRuns \cup {AdNoRun} /\ adTicks \in 0..MaxAdTicks /\ adFaults \in 0..MaxAdFaults
  /\ DOMAIN adRun = AdRuns /\ adRun = [r \in AdRuns |-> adRun[r]]

\* Nothing is stored that the marketplace does not show yet.
AdStoredShown == \A d \in AdDays : adStored[d] <= adCost[d]

\* Of two runs under way each knows that it is not alone.
AdAlone == \A r, s \in AdRuns : r # s /\ AdBusy(r) /\ AdBusy(s) => adRun[r].overlapped

\* The inductive invariant of the reports.
AdInv ==
  /\ AdShared /\ AdStoredShown /\ AdAlone
  /\ \A r \in AdRuns : AdFits(adRun[r], adKind, adCost, adStored)

\* The greater of two numbers.
LEMMA AdMaxIs ==
  ASSUME NEW a \in Int, NEW b \in Int
  PROVE  Max({a, b}) = IF a >= b THEN a ELSE b
<1> DEFINE m == IF a >= b THEN a ELSE b
<1>1. m \in {a, b} /\ \A y \in {a, b} : m >= y
  OBVIOUS
<1>2. \A x \in {a, b} : (\A y \in {a, b} : x >= y) => x = m
  OBVIOUS
<1>3. Max({a, b}) \in {a, b} /\ \A y \in {a, b} : Max({a, b}) >= y
  BY <1>1 DEF Max
<1>. QED BY <1>2, <1>3

\* The smaller one.
LEMMA AdMinIs ==
  ASSUME NEW a \in Int, NEW b \in Int
  PROVE  Min({a, b}) = IF a <= b THEN a ELSE b
<1> DEFINE m == IF a <= b THEN a ELSE b
<1>1. m \in {a, b} /\ \A y \in {a, b} : m =< y
  OBVIOUS
<1>2. \A x \in {a, b} : (\A y \in {a, b} : x =< y) => x = m
  OBVIOUS
<1>3. Min({a, b}) \in {a, b} /\ \A y \in {a, b} : Min({a, b}) =< y
  BY <1>1 DEF Min
<1>. QED BY <1>2, <1>3

\* The constants as numbers.
LEMMA AdNumbers ==
  /\ AdLatency \in Int /\ AdSkew \in Int /\ 0 <= AdLatency /\ 0 <= AdSkew
  /\ AdLifetime \in Int /\ AdSkew < AdLifetime /\ AdTimeout \in Nat
  /\ AdVersions \in Int /\ 1 <= AdVersions
  /\ AdLastDay \in Int /\ 2 <= AdLastDay /\ AdLookback \in Int /\ AdStretch \in Int
  /\ AdDays \subseteq Int /\ 1 \in AdDays /\ 2 \in AdDays
  /\ 0 \in 0..AdVersions /\ 0 \in 0..AdLatency /\ 0 \in 0..AdLifetime
BY AdAssumption DEF AdDays

\* A run that is not under way.
LEMMA AdIdleFits ==
  ASSUME NEW kind, NEW cost, NEW stored, \A d \in AdDays : cost[d] \in 0..AdVersions
  PROVE  AdFits(AdIdle, kind, cost, stored)
<1>1. AdIdle \in AdRunSet
  BY AdNumbers DEF AdIdle, AdRunSet, AdNoJob, AdPlaces, AdRequests
<1>2. AdTokenHolds(AdIdle) /\ AdRunTrue(AdIdle)
  BY AdNumbers DEF AdIdle, AdTokenHolds, AdRunTrue, AdHasCause, AdNoJob
<1>3. AdFiguresFresh(AdIdle, cost, stored)
  BY AdNumbers DEF AdIdle, AdFiguresFresh, AdNoJob
<1>. QED BY <1>1, <1>2, <1>3 DEF AdFits

\* What is left of a run keeps what it knows of its job.
LEMMA AdEndedFits ==
  ASSUME NEW run, NEW kind, NEW cost, NEW stored, AdFits(run, kind, cost, stored),
         \A d \in AdDays : cost[d] \in 0..AdVersions,
         NEW why \in {"success", "refused_post", "refused_get", "timeout", "failed", "lock_lost",
                      "broken", "crash"},
         AdHasCause(run, why)
  PROVE  /\ AdFits(AdEnded(run, why), kind, cost, stored)
         /\ AdEnded(run, why).pc = "ended" /\ AdEnded(run, why).job = run.job
         /\ AdEnded(run, why).row = run.row
<1> DEFINE n == AdEnded(run, why)
<1>1. run \in AdRunSet /\ run.lost \in Nat /\ run.tries \in {0, 1}
  BY DEF AdFits, AdRunSet
<1>2. AdIdle \in AdRunSet /\ AdRunTrue(AdIdle)
  BY AdIdleFits DEF AdFits
<1>3. /\ n \in AdRunSet /\ n.end = why /\ n.job = run.job /\ n.row = run.row
      /\ n.lost = run.lost /\ n.pc = "ended" /\ n.tries = 0 /\ n.held = 0
      /\ n.asking = FALSE /\ n.back = FALSE /\ n.data = [d \in AdDays |-> 0]
  <2>1. /\ AdIdle.pc = "ended" /\ AdIdle.tries = 0 /\ AdIdle.held = 0 /\ AdIdle.asking = FALSE
        /\ AdIdle.back = FALSE /\ AdIdle.data = [d \in AdDays |-> 0]
    BY DEF AdIdle
  <2>2. run.job \in [state: {"none", "queued", "ok", "failed"}, made: [AdDays -> 0..AdVersions]]
        /\ run.row \in {"none", "pending", "completed", "failed"}
    BY <1>1 DEF AdRunSet
  <2>. QED BY <1>1, <1>2, <2>1, <2>2 DEF AdEnded, AdRunSet
<1> HIDE DEF n
<1>4. AdTokenHolds(n)
  BY <1>1, <1>3 DEF AdTokenHolds
<1>5. AdRunTrue(n)
  BY <1>3 DEF AdFits, AdRunTrue, AdHasCause
<1>6. AdFiguresFresh(n, cost, stored)
  BY <1>3, AdNumbers DEF AdFits, AdFiguresFresh
<1>7. AdFits(n, kind, cost, stored)
  BY <1>3, <1>4, <1>5, <1>6 DEF AdFits
<1>. QED BY <1>3, <1>7 DEF n

\* A step of one run that leaves the figures.
LEMMA AdStepKeeps ==
  ASSUME AdInv, NEW r \in AdRuns, NEW n, AdFits(n, adKind, adCost, adStored),
         adRun' = [adRun EXCEPT ![r] = n],
         n.pc # "ended" => AdBusy(r) /\ n.overlapped = adRun[r].overlapped,
         adMark' \in AdDays, adLock' \in AdRuns \cup {AdNoRun},
         adTicks' \in 0..MaxAdTicks, adFaults' \in 0..MaxAdFaults,
         UNCHANGED <<adKind, adToday, adCost, adStored>>
  PROVE  AdInv'
<1>1. /\ adRun'[r] = n /\ \A s \in AdRuns \ {r} : adRun'[s] = adRun[s]
      /\ DOMAIN adRun' = AdRuns /\ adRun' = [s \in AdRuns |-> adRun'[s]]
  BY DEF AdInv, AdShared
<1>2. AdShared'
  BY <1>1 DEF AdInv, AdShared
<1>3. AdStoredShown'
  BY DEF AdInv, AdStoredShown
<1>4. AdAlone'
  BY <1>1 DEF AdInv, AdAlone, AdBusy
<1>5. \A s \in AdRuns : AdFits(adRun'[s], adKind', adCost', adStored')
  BY <1>1 DEF AdInv
<1>. QED BY <1>2, <1>3, <1>4, <1>5 DEF AdInv

\* The figures of the marketplace are versions.
LEMMA AdCostIs ==
  ASSUME AdInv
  PROVE  /\ \A d \in AdDays : /\ adCost[d] \in 0..AdVersions /\ adStored[d] \in 0..AdVersions
                              /\ adCost[d] \in Int /\ adStored[d] \in Int /\ 1 <= adCost[d]
                              /\ adStored[d] <= adCost[d]
         /\ adCost \in [AdDays -> 0..AdVersions]
BY AdNumbers DEF AdInv, AdShared, AdStoredShown

\* A run that ends keeps it, whatever becomes of its lock.
LEMMA AdEndKeeps ==
  ASSUME AdInv, NEW r \in AdRuns,
         NEW why \in {"success", "refused_post", "refused_get", "timeout", "failed", "lock_lost",
                      "broken", "crash"},
         AdHasCause(adRun[r], why),
         adRun' = [adRun EXCEPT ![r] = AdEnded(adRun[r], why)],
         adMark' \in AdDays, adLock' \in {AdFreed(r), adLock}, adFaults' \in 0..MaxAdFaults,
         UNCHANGED <<adKind, adToday, adCost, adStored, adTicks>>
  PROVE  AdInv'
<1>1. AdFits(adRun[r], adKind, adCost, adStored)
  BY DEF AdInv
<1>2. /\ AdFits(AdEnded(adRun[r], why), adKind, adCost, adStored)
      /\ AdEnded(adRun[r], why).pc = "ended"
  BY <1>1, AdCostIs, AdEndedFits
<1>3. adLock' \in AdRuns \cup {AdNoRun} /\ adTicks' \in 0..MaxAdTicks
  BY DEF AdInv, AdShared, AdFreed
<1>. QED BY <1>2, <1>3, AdStepKeeps

\* One more fault is a fault.
LEMMA AdFaultIs ==
  ASSUME AdInv, AdFault \/ UNCHANGED adFaults
  PROVE  adFaults' \in 0..MaxAdFaults
BY AdAssumption DEF AdInv, AdShared, AdFault

\* A run begins with nothing read and its job behind it; it and another one know of each other.
LEMMA AdBeginKeeps ==
  ASSUME AdInv, NEW r \in AdRuns, NEW from \in Int, NEW to \in Int, AdBegin(r, from, to)
  PROVE  AdInv'
<1> DEFINE others == \E s \in AdRuns \ {r} : AdBusy(s)
           n == [AdIdle EXCEPT !.pc = AdFirst, !.at = from, !.to = to, !.began = adToday,
                               !.job = adRun[r].job, !.row = adRun[r].row, !.overlapped = others]
           next == [s \in AdRuns |->
                      CASE s = r -> n
                        [] s # r /\ AdBusy(s)  -> [adRun[s] EXCEPT !.overlapped = TRUE]
                        [] s # r /\ ~AdBusy(s) -> AdIdle]
<1>1. others \in BOOLEAN
  OBVIOUS
<1>2. /\ adRun' = next /\ adLock' = IF AdTakesLock THEN r ELSE adLock
      /\ UNCHANGED <<adKind, adToday, adCost, adStored, adMark, adTicks>>
      /\ AdFault \/ UNCHANGED adFaults
  BY Zenon DEF AdBegin
<1>3. \A s \in AdRuns : adRun[s] \in AdRunSet /\ AdFits(adRun[s], adKind, adCost, adStored)
  BY DEF AdInv, AdFits
<1>4. AdFirst \in AdPlaces /\ AdFirst \in {"campaigns", "stats", "post"}
  BY AdAssumption DEF AdFirst, AdPlaces, AdRequests, AdInv, AdShared
<1>5. AdFits(AdIdle, adKind, adCost, adStored) /\ AdFits(AdIdle, "sku", adCost, adStored)
  BY AdIdleFits, AdCostIs
<1>6. AdIdle \in AdRunSet /\ AdTokenHolds(AdIdle) /\ AdIdle.data = [d \in AdDays |-> 0]
      /\ AdIdle.end = "success" /\ AdIdle.back = FALSE /\ ~AdIdle.asking
  BY <1>5 DEF AdFits, AdIdle
<1>7. /\ next[r] = n
      /\ \A s \in AdRuns \ {r} : IF AdBusy(s) THEN next[s] = [adRun[s] EXCEPT !.overlapped = TRUE]
                                              ELSE next[s] = AdIdle
      /\ DOMAIN next = AdRuns /\ next = [s \in AdRuns |-> next[s]]
  OBVIOUS
<1> HIDE DEF next, others
<1>8. /\ n \in AdRunSet /\ n.pc = AdFirst /\ n.overlapped = others /\ n.end = "success"
      /\ n.job = adRun[r].job /\ n.row = adRun[r].row /\ n.data = [d \in AdDays |-> 0]
      /\ n.tries = AdIdle.tries /\ n.lost = AdIdle.lost /\ n.held = AdIdle.held
      /\ n.good = AdIdle.good /\ n.asking = AdIdle.asking /\ n.age = AdIdle.age
      /\ n.back = FALSE
  <2>1. adToday \in AdDays
    BY DEF AdInv, AdShared
  <2>2. adRun[r].job \in [state: {"none", "queued", "ok", "failed"},
                           made: [AdDays -> 0..AdVersions]]
        /\ adRun[r].row \in {"none", "pending", "completed", "failed"}
    BY <1>3 DEF AdRunSet
  <2>. QED BY <1>1, <1>4, <1>6, <2>1, <2>2 DEF AdRunSet
<1> HIDE DEF n
<1>9. AdFits(n, adKind, adCost, adStored)
  <2>1. AdTokenHolds(n)
    BY <1>6, <1>8 DEF AdTokenHolds
  <2>2. AdRunTrue(n)
    BY <1>3, <1>4, <1>6, <1>8 DEF AdFits, AdRunTrue, AdHasCause
  <2>3. \A d \in AdDays : n.data[d] = 0 /\ 0 <= adCost[d] /\ n.job.made[d] <= adCost[d]
    BY <1>3, <1>8, AdCostIs DEF AdFits, AdFiguresFresh
  <2>4. ~n.back /\ n.pc \notin {"save", "poll", "download", "done"}
    BY <1>4, <1>8
  <2>5. AdFiguresFresh(n, adCost, adStored)
    BY <2>3, <2>4 DEF AdFiguresFresh
  <2>. QED BY <1>8, <2>1, <2>2, <2>5 DEF AdFits
<1>10. ASSUME NEW s \in AdRuns \ {r}, AdBusy(s)
       PROVE  /\ AdFits(next[s], adKind, adCost, adStored)
              /\ next[s].overlapped /\ next[s].pc = adRun[s].pc
  <2> DEFINE m == [adRun[s] EXCEPT !.overlapped = TRUE]
  <2>0. adRun[s] \in AdRunSet
    BY <1>3
  <2>1. /\ m \in AdRunSet /\ m.overlapped /\ m.pc = adRun[s].pc /\ m.end = adRun[s].end
        /\ m.job = adRun[s].job /\ m.row = adRun[s].row /\ m.data = adRun[s].data
        /\ m.tries = adRun[s].tries /\ m.lost = adRun[s].lost /\ m.held = adRun[s].held
        /\ m.good = adRun[s].good /\ m.asking = adRun[s].asking /\ m.age = adRun[s].age
        /\ m.back = adRun[s].back
    BY <2>0 DEF AdRunSet
  <2>2. next[s] = m
    BY <1>7, <1>10
  <2> HIDE DEF m
  <2>3. AdFits(adRun[s], adKind, adCost, adStored)
    BY <1>3
  <2>4. AdRunTrue(m) /\ (adKind # "ym" => AdTokenHolds(m))
    BY <2>1, <2>3 DEF AdFits, AdRunTrue, AdHasCause, AdTokenHolds
  <2>5. AdFiguresFresh(m, adCost, adStored)
    BY <2>1, <2>3 DEF AdFits, AdFiguresFresh
  <2>. QED BY <2>1, <2>2, <2>4, <2>5 DEF AdFits
<1>11. \A s \in AdRuns : AdFits(adRun'[s], adKind', adCost', adStored')
  BY <1>2, <1>5, <1>7, <1>9, <1>10
<1>12. AdAlone'
  <2>1. \A s \in AdRuns \ {r} : AdBusy(s)' => AdBusy(s) /\ adRun'[s].overlapped
    <3>1. AdIdle.pc = "ended"
      BY DEF AdIdle
    <3>. QED BY <1>2, <1>7, <1>10, <3>1 DEF AdBusy
  <2>2. adRun'[r].overlapped = others
    BY <1>2, <1>7, <1>8
  <2>3. \A s \in AdRuns \ {r} : AdBusy(s)' => adRun'[r].overlapped
    BY <2>1, <2>2 DEF others
  <2>. QED BY <2>1, <2>3 DEF AdAlone
<1>13. AdShared'
  BY <1>2, <1>7, AdFaultIs DEF AdInv, AdShared
<1>14. AdStoredShown'
  BY <1>2 DEF AdInv, AdStoredShown
<1>. QED BY <1>11, <1>12, <1>13, <1>14 DEF AdInv

\* A step that touches the token, the clock or the request only.
LEMMA AdTokenKeeps ==
  ASSUME NEW run, NEW n, NEW kind, NEW cost, NEW stored, AdFits(run, kind, cost, stored),
         n \in AdRunSet, n.pc = run.pc, n.end = run.end, n.job = run.job, n.row = run.row,
         n.data = run.data, n.overlapped = run.overlapped, n.back = run.back,
         n.asking => n.pc \in AdRequests, run.lost <= n.lost \/ run.pc # "ended",
         kind # "ym" => AdTokenHolds(n)
  PROVE  AdFits(n, kind, cost, stored)
<1>1. run.lost \in Nat /\ n.lost \in Nat
  BY DEF AdFits, AdRunSet
<1>2. AdRunTrue(n)
  BY <1>1 DEF AdFits, AdRunTrue, AdHasCause
<1>3. AdFiguresFresh(n, cost, stored)
  BY DEF AdFits, AdFiguresFresh
<1>. QED BY <1>2, <1>3 DEF AdFits

\* The numbers of a run.
LEMMA AdRunNumbers ==
  ASSUME NEW run \in AdRunSet
  PROVE  /\ run.age \in Int /\ run.held \in Int /\ run.good \in Int /\ run.left \in Int
         /\ run.tries \in Int /\ run.lost \in Int
         /\ 0 <= run.age /\ run.age <= AdLatency /\ 0 <= run.held /\ run.held <= AdLifetime
         /\ 0 <= run.good /\ run.good <= AdLifetime /\ 0 <= run.left /\ 0 <= run.lost
         /\ run.tries \in {0, 1}
BY AdNumbers DEF AdRunSet

\* A request goes out with a token that is good for longer than the skew, if none was lost.
LEMMA AdAskKeeps ==
  ASSUME AdInv, NEW r \in AdRuns, AdAsk(r)
  PROVE  AdInv'
<1> DEFINE run == adRun[r]
           token == IF run.held > 0 THEN [held |-> run.held, good |-> run.good] ELSE AdNewToken
           n == [run EXCEPT !.asking = TRUE, !.age = 0, !.held = token.held, !.good = token.good]
<1>1. /\ adRun' = [adRun EXCEPT ![r] = n]
      /\ UNCHANGED <<adKind, adToday, adCost, adStored, adMark, adLock, adTicks, adFaults>>
      /\ run.pc \in AdRequests /\ run.pc # "ended"
  BY DEF AdAsk, AdRequests
<1>2. AdFits(run, adKind, adCost, adStored) /\ run \in AdRunSet
  BY DEF AdInv, AdFits
<1>3. /\ token.held \in 0..AdLifetime /\ token.good \in 0..AdLifetime
      /\ AdTokenHolds(run) =>
           /\ token.held > 0 /\ token.good > 0 => token.good >= token.held + AdSkew
           /\ run.lost = run.tries =>
                /\ token.held > 0 => token.good >= token.held + AdSkew
                /\ token.good > AdSkew
  <2>1. CASE run.held > 0
    <3>1. token.held = run.held /\ token.good = run.good
      BY <2>1
    <3>2. run.held \in 0..AdLifetime /\ run.good \in 0..AdLifetime /\ run.held \in Int
      BY <1>2 DEF AdRunSet
    <3>3. AdTokenHolds(run) => /\ run.good > 0 => run.good >= run.held + AdSkew
                               /\ run.lost = run.tries => run.good >= run.held + AdSkew
      BY <2>1 DEF AdTokenHolds
    <3>. QED BY <2>1, <3>1, <3>2, <3>3, AdNumbers
  <2>2. CASE ~(run.held > 0)
    <3>1. /\ AdNewToken.held = IF 0 >= AdLifetime - AdSkew THEN 0 ELSE AdLifetime - AdSkew
          /\ AdNewToken.good = AdLifetime
      BY AdNumbers, AdMaxIs DEF AdNewToken
    <3>. QED BY <2>2, <3>1, AdNumbers
  <2>. QED BY <2>1, <2>2
<1> HIDE DEF token
<1>4. /\ n \in AdRunSet /\ n.pc = run.pc /\ n.end = run.end /\ n.job = run.job /\ n.row = run.row
      /\ n.data = run.data /\ n.overlapped = run.overlapped /\ n.back = run.back
      /\ n.tries = run.tries /\ n.lost = run.lost
      /\ n.held = token.held /\ n.good = token.good /\ n.age = 0
  BY <1>2, <1>3, AdNumbers DEF AdRunSet
<1> HIDE DEF n
<1>5. AdTokenHolds(run) => AdTokenHolds(n)
  <2>1. /\ token.good \in Int
        /\ token.good > AdSkew => token.good > 0 /\ token.good + 0 > AdSkew
    BY <1>3, AdNumbers
  <2>. QED BY <1>3, <1>4, <2>1 DEF AdTokenHolds
<1>6. AdFits(n, adKind, adCost, adStored)
  <2>1. run.lost <= n.lost
    BY <1>2, <1>4, AdRunNumbers
  <2>. QED BY <1>1, <1>2, <1>4, <1>5, <2>1, AdTokenKeeps DEF AdFits
<1>7. adMark' \in AdDays /\ adLock' \in AdRuns \cup {AdNoRun}
      /\ adTicks' \in 0..MaxAdTicks /\ adFaults' \in 0..MaxAdFaults
  BY <1>1 DEF AdInv, AdShared
<1>. QED BY <1>1, <1>4, <1>6, <1>7, AdStepKeeps DEF AdBusy

\* A request is refused only if a token was lost since the last answer, and one that was
\* renewed after a refusal only if another one was.
LEMMA AdUnauthorizedKeeps ==
  ASSUME AdInv, NEW r \in AdRuns, AdUnauthorized(r)
  PROVE  AdInv'
<1> DEFINE run == adRun[r]
           n == [run EXCEPT !.asking = FALSE, !.held = 0, !.tries = 1]
<1>1. /\ run.asking /\ adKind # "ym" /\ run.good = 0
      /\ UNCHANGED <<adKind, adToday, adCost, adStored, adMark, adTicks, adFaults>>
  BY DEF AdUnauthorized, AdRefused
<1>2. AdFits(run, adKind, adCost, adStored) /\ run \in AdRunSet /\ AdTokenHolds(run)
  BY <1>1 DEF AdInv, AdFits
<1>3. /\ run.tries \in {0, 1} /\ run.tries \in Int /\ run.lost \in Int
      /\ run.tries < run.lost
  <2>1. ~(run.good > 0) /\ run.tries \in {0, 1} /\ run.lost \in Int
        /\ run.tries \in Int
    BY <1>1, <1>2, AdRunNumbers, AdNumbers
  <2>2. run.tries <= run.lost /\ run.lost # run.tries
    BY <1>1, <1>2, <2>1 DEF AdTokenHolds
  <2>. QED BY <2>1, <2>2
<1>4. /\ adMark' \in AdDays /\ adFaults' \in 0..MaxAdFaults /\ adTicks' \in 0..MaxAdTicks
      /\ adLock \in AdRuns \cup {AdNoRun}
  BY <1>1 DEF AdInv, AdShared
<1>5. CASE adRun' = [adRun EXCEPT ![r] = n] /\ UNCHANGED adLock
  <2>1. /\ n \in AdRunSet /\ n.pc = run.pc /\ n.end = run.end /\ n.job = run.job
        /\ n.row = run.row /\ n.data = run.data /\ n.overlapped = run.overlapped
        /\ n.back = run.back /\ n.tries = 1 /\ n.lost = run.lost /\ n.held = 0
        /\ ~n.asking
    BY <1>2, AdNumbers DEF AdRunSet
  <2>2. run.pc # "ended"
    BY <1>1, <1>2 DEF AdFits, AdRunTrue, AdRequests
  <2> HIDE DEF n
  <2>3. AdTokenHolds(n)
    <3>1. 1 <= run.lost /\ ~(0 > 0)
      BY <1>3
    <3>. QED BY <2>1, <3>1 DEF AdTokenHolds
  <2>4. run.lost <= n.lost
    BY <1>3, <2>1
  <2>5. AdFits(n, adKind, adCost, adStored)
    BY <1>2, <2>1, <2>3, <2>4, AdTokenKeeps
  <2>6. adLock' \in AdRuns \cup {AdNoRun}
    BY <1>4, <1>5
  <2>. QED BY <1>1, <1>4, <1>5, <2>1, <2>2, <2>5, <2>6, AdStepKeeps DEF AdBusy
<1>6. CASE ~AdRenews(r) /\ AdEnds(r, IF run.pc = "post" THEN "refused_post" ELSE "refused_get")
  <2> DEFINE why == IF run.pc = "post" THEN "refused_post" ELSE "refused_get"
  <2>1. AdHasCause(run, why)
    BY <1>3, <1>6 DEF AdHasCause, AdRenews
  <2>2. why \in {"refused_post", "refused_get"}
    OBVIOUS
  <2>3. adRun' = [adRun EXCEPT ![r] = AdEnded(run, why)] /\ adLock' = AdFreed(r)
    BY <1>6 DEF AdEnds
  <2> HIDE DEF why
  <2>. QED BY <1>1, <1>4, <2>1, <2>2, <2>3, AdEndKeeps
<1>. QED BY <1>5, <1>6 DEF AdUnauthorized

\* A run that goes on to another place, with other figures or another job.
LEMMA AdWorkFits ==
  ASSUME NEW run, NEW n, NEW kind, NEW cost, NEW stored, AdFits(run, kind, cost, stored),
         n \in AdRunSet, run.pc # "ended", n.end = run.end, ~n.asking,
         n.tries = run.tries, n.lost = run.lost, n.held = run.held, n.good = run.good,
         n.row = "completed" => n.job.state = "ok",
         n.row = "failed" => n.job.state = "failed",
         n.pc \in {"download", "done"} => n.job.state = "ok",
         n.pc = "refused" => n.job.state = "failed",
         n.pc \in {"save", "poll"} => n.job.state # "none",
         AdFiguresFresh(n, cost, stored)
  PROVE  AdFits(n, kind, cost, stored)
<1>1. kind # "ym" => AdTokenHolds(n)
  BY DEF AdTokenHolds, AdFits
<1>2. AdRunTrue(n)
  BY DEF AdFits, AdRunTrue, AdHasCause
<1>. QED BY <1>1, <1>2 DEF AdFits

\* Figures that are taken in are there, and those of a run that is alone are not older than the
\* stored ones.
LEMMA AdReadIs ==
  ASSUME NEW run \in AdRunSet, NEW figures \in [AdDays -> 0..AdVersions], NEW from, NEW to,
         NEW cost, NEW stored, AdFiguresFresh(run, cost, stored),
         \A d \in AdDays : /\ figures[d] <= cost[d]
                           /\ ~run.overlapped /\ run.pc # "ended" => stored[d] <= figures[d]
  PROVE  LET n == AdRead(run, figures, from, to) IN
         /\ n \in AdRunSet /\ n = [run EXCEPT !.data = n.data]
         /\ AdFiguresFresh(n, cost, stored)
<1> DEFINE data == [d \in AdDays |-> IF d \in from..to THEN figures[d] ELSE run.data[d]]
           n == [run EXCEPT !.data = data]
<1>1. run.data \in [AdDays -> 0..AdVersions]
  BY DEF AdRunSet
<1>2. /\ data \in [AdDays -> 0..AdVersions]
      /\ \A d \in AdDays : data[d] = figures[d] \/ data[d] = run.data[d]
  BY <1>1
<1>3. AdRead(run, figures, from, to) = n
  BY DEF AdRead
<1> HIDE DEF data
<1>4. /\ n \in AdRunSet /\ n.data = data /\ n.pc = run.pc /\ n.job = run.job
      /\ n.overlapped = run.overlapped /\ n.back = run.back
  BY <1>2 DEF AdRunSet
<1>5. n = [run EXCEPT !.data = n.data]
  BY <1>4
<1> HIDE DEF n
<1>6. AdFiguresFresh(n, cost, stored)
  BY <1>2, <1>4 DEF AdFiguresFresh
<1>. QED BY <1>3, <1>4, <1>5, <1>6

\* An answer that is not a report: the run goes on, asks for a report, or hears of it.
LEMMA AdMovesOn ==
  ASSUME NEW run, NEW kind \in AdKinds, NEW cost, NEW stored, AdFits(run, kind, cost, stored),
         \A d \in AdDays : cost[d] \in 0..AdVersions, ~run.asking,
         NEW n,
         \/ n = [run EXCEPT !.pc = "post"] /\ run.pc = "campaigns"
         \/ n = AdPosted(run) /\ run.pc = "post"
         \/ n = AdPolled(run) /\ run.pc = "poll"
  PROVE  AdFits(n, kind, cost, stored) /\ n.pc # "ended" /\ n.overlapped = run.overlapped
<1>1. run \in AdRunSet /\ AdRunTrue(run) /\ AdFiguresFresh(run, cost, stored)
  BY DEF AdFits
<1>2. CASE \E pc \in {"post", "download", "refused"} :
             /\ n = [run EXCEPT !.pc = pc]
             /\ run.pc \in {"campaigns", "poll"}
             /\ pc = "download" => run.job.state = "ok" /\ run.pc = "poll"
             /\ pc = "refused" => run.job.state = "failed"
  <2>1. PICK pc \in {"post", "download", "refused"} :
             /\ n = [run EXCEPT !.pc = pc]
             /\ run.pc \in {"campaigns", "poll"}
             /\ pc = "download" => run.job.state = "ok" /\ run.pc = "poll"
             /\ pc = "refused" => run.job.state = "failed"
    BY <1>2
  <2>2. pc \in AdPlaces
    BY DEF AdPlaces, AdRequests
  <2>3. /\ n \in AdRunSet /\ n.pc = pc /\ n.end = run.end /\ n.asking = run.asking
        /\ n.tries = run.tries /\ n.lost = run.lost /\ n.held = run.held
        /\ n.good = run.good /\ n.row = run.row /\ n.job = run.job /\ n.data = run.data
        /\ n.overlapped = run.overlapped /\ n.back = run.back
    BY <1>1, <2>1, <2>2 DEF AdRunSet
  <2>4. AdFiguresFresh(n, cost, stored)
    BY <1>1, <2>1, <2>3 DEF AdFiguresFresh
  <2>5. run.pc # "ended" /\ pc # "done" /\ pc # "ended"
    BY <2>1
  <2>6. /\ n.row = "completed" => n.job.state = "ok"
        /\ n.row = "failed" => n.job.state = "failed"
        /\ n.pc \in {"download", "done"} => n.job.state = "ok"
        /\ n.pc = "refused" => n.job.state = "failed"
    BY <1>1, <2>1, <2>3, <2>5 DEF AdRunTrue
  <2>. QED BY <2>3, <2>4, <2>5, <2>6, AdWorkFits
<1>3. CASE n = AdPosted(run) /\ run.pc = "post"
  <2> DEFINE job == [AdNoJob EXCEPT !.state = "queued"]
             new == [run EXCEPT !.job = job, !.row = "none"]
  <2>1. /\ job \in [state: {"none", "queued", "ok", "failed"}, made: [AdDays -> 0..AdVersions]]
        /\ job.state = "queued" /\ \A d \in AdDays : job.made[d] = 0
    BY AdNumbers DEF AdNoJob
  <2>2. \/ n = [new EXCEPT !.pc = "poll", !.left = AdTimeout]
        \/ n = [new EXCEPT !.pc = "save"]
    BY <1>3 DEF AdPosted
  <2> HIDE DEF job
  <2>3. /\ new \in AdRunSet /\ new.pc = run.pc /\ new.end = run.end /\ new.asking = run.asking
        /\ new.tries = run.tries /\ new.lost = run.lost /\ new.held = run.held
        /\ new.good = run.good /\ new.row = "none" /\ new.job = job /\ new.data = run.data
        /\ new.overlapped = run.overlapped /\ new.back = run.back
    BY <1>1, <2>1 DEF AdRunSet
  <2> HIDE DEF new
  <2>4. /\ n \in AdRunSet /\ n.pc \in {"poll", "save"} /\ n.end = run.end /\ n.asking = run.asking
        /\ n.tries = run.tries /\ n.lost = run.lost /\ n.held = run.held
        /\ n.good = run.good /\ n.row = "none" /\ n.job = job /\ n.data = run.data
        /\ n.overlapped = run.overlapped /\ n.back = run.back
    <3>1. "poll" \in AdPlaces /\ "save" \in AdPlaces /\ AdTimeout \in Nat
      BY AdNumbers DEF AdPlaces, AdRequests
    <3>2. CASE n = [new EXCEPT !.pc = "poll", !.left = AdTimeout]
      BY <2>3, <3>1, <3>2 DEF AdRunSet
    <3>3. CASE n = [new EXCEPT !.pc = "save"]
      BY <2>3, <3>1, <3>3 DEF AdRunSet
    <3>. QED BY <2>2, <3>2, <3>3
  <2>5. AdFiguresFresh(n, cost, stored)
    <3>1. \A d \in AdDays : 0 <= cost[d]
      BY AdNumbers
    <3>. QED BY <1>1, <1>3, <2>1, <2>4, <3>1 DEF AdFiguresFresh
  <2>. QED BY <1>3, <2>1, <2>4, <2>5, AdWorkFits
<1>4. CASE n = AdPolled(run) /\ run.pc = "poll"
  <2>1. run.job.state \in {"queued", "ok", "failed"}
    BY <1>1, <1>4 DEF AdRunSet, AdRunTrue
  <2>2. CASE run.job.state = "queued"
    BY <1>4, <2>2 DEF AdPolled
  <2>3. CASE run.job.state \in {"ok", "failed"}
    BY <1>2, <1>4, <2>3 DEF AdPolled
  <2>. QED BY <2>1, <2>2, <2>3
<1>5. CASE n = [run EXCEPT !.pc = "post"] /\ run.pc = "campaigns"
  BY <1>2, <1>5
<1>. QED BY <1>3, <1>4, <1>5

\* An answer that brings figures: those of the statistics, or of the report that was made.
LEMMA AdTakesIn ==
  ASSUME NEW run, AdFits(run, adKind, adCost, adStored), AdInv, ~run.asking, NEW n,
         \/ n = [AdRead(run, adCost, run.at, run.to) EXCEPT !.pc = "insert"] /\ run.pc = "stats"
         \/ n = AdDownloaded(run) /\ run.pc = "download"
  PROVE  /\ AdFits(n, adKind, adCost, adStored) /\ n.pc # "ended"
         /\ n.overlapped = run.overlapped
<1> DEFINE figures == IF run.pc = "stats" THEN adCost ELSE run.job.made
           to == IF run.pc = "stats" THEN run.to ELSE AdStretchEnd(run)
           read == AdRead(run, figures, run.at, to)
<1>1. run \in AdRunSet /\ AdRunTrue(run) /\ AdFiguresFresh(run, adCost, adStored)
  BY DEF AdFits
<1>2. /\ figures \in [AdDays -> 0..AdVersions]
      /\ \A d \in AdDays : /\ figures[d] <= adCost[d]
                           /\ ~run.overlapped /\ run.pc # "ended" => adStored[d] <= figures[d]
  <2>1. CASE run.pc = "stats"
    BY <2>1, AdCostIs
  <2>2. CASE run.pc = "download"
    <3>1. run.job.made \in [AdDays -> 0..AdVersions] /\ run.job.state = "ok"
      BY <1>1, <2>2 DEF AdRunSet, AdRunTrue
    <3>. QED BY <1>1, <2>2, <3>1 DEF AdFiguresFresh
  <2>. QED BY <2>1, <2>2
<1>3. PICK pc \in {"insert", "done", "post"}, at \in Int :
        /\ n = [read EXCEPT !.pc = pc, !.at = at] \/ n = [read EXCEPT !.pc = pc]
        /\ pc = "done" => run.pc = "download"
  <2>1. run.at \in Int /\ run.to \in Int /\ AdStretchEnd(run) \in Int
    <3>1. run.at \in Int /\ run.to \in Int
      BY <1>1 DEF AdRunSet
    <3>2. run.at + AdStretch - 1 \in Int
      BY <3>1, AdNumbers
    <3>. QED BY <3>1, <3>2, AdMinIs DEF AdStretchEnd
  <2>2. CASE run.pc = "stats"
    BY <2>1, <2>2
  <2>3. CASE run.pc = "download"
    <3>1. n = AdDownloaded(run) /\ read = AdRead(run, run.job.made, run.at, AdStretchEnd(run))
      BY <2>3
    <3>2. \/ n = [read EXCEPT !.pc = "done"]
          \/ n = [read EXCEPT !.at = AdStretchEnd(run) + 1, !.pc = "post"]
          \/ n = [read EXCEPT !.pc = "insert"]
      BY <3>1 DEF AdDownloaded
    <3> HIDE DEF read
    <3>3. [read EXCEPT !.at = AdStretchEnd(run) + 1, !.pc = "post"] =
          [read EXCEPT !.pc = "post", !.at = AdStretchEnd(run) + 1]
      OBVIOUS
    <3>4. AdStretchEnd(run) + 1 \in Int
      BY <2>1
    <3>. QED BY <2>1, <2>3, <3>2, <3>3, <3>4
  <2>. QED BY <2>2, <2>3
<1> HIDE DEF figures, to
<1>4. /\ read \in AdRunSet /\ read = [run EXCEPT !.data = read.data]
      /\ AdFiguresFresh(read, adCost, adStored)
  BY <1>1, <1>2, AdReadIs
<1> HIDE DEF read
<1>5. /\ read.pc = run.pc /\ read.end = run.end /\ read.asking = run.asking
      /\ read.tries = run.tries /\ read.lost = run.lost /\ read.held = run.held
      /\ read.good = run.good /\ read.row = run.row /\ read.job = run.job
      /\ read.overlapped = run.overlapped /\ read.back = run.back
  BY <1>1, <1>4 DEF AdRunSet
<1>6. /\ n \in AdRunSet /\ n.pc = pc /\ n.end = run.end /\ n.asking = run.asking
      /\ n.tries = run.tries /\ n.lost = run.lost /\ n.held = run.held
      /\ n.good = run.good /\ n.row = run.row /\ n.job = run.job /\ n.data = read.data
      /\ n.overlapped = run.overlapped /\ n.back = run.back
  <2>1. pc \in AdPlaces
    BY DEF AdPlaces, AdRequests
  <2>2. CASE n = [read EXCEPT !.pc = pc, !.at = at]
    BY <1>4, <1>5, <2>1, <2>2 DEF AdRunSet
  <2>3. CASE n = [read EXCEPT !.pc = pc]
    BY <1>4, <1>5, <2>1, <2>3 DEF AdRunSet
  <2>. QED BY <1>3, <2>2, <2>3
<1>7. run.pc \in {"stats", "download"}
  OBVIOUS
<1>8. AdFiguresFresh(n, adCost, adStored)
  BY <1>3, <1>4, <1>5, <1>6, <1>7 DEF AdFiguresFresh
<1>9. /\ n.row = "completed" => n.job.state = "ok"
      /\ n.row = "failed" => n.job.state = "failed"
      /\ n.pc \in {"download", "done"} => n.job.state = "ok"
      /\ n.pc \notin {"refused", "save", "poll", "ended"}
  BY <1>1, <1>3, <1>6 DEF AdRunTrue
<1>. QED BY <1>6, <1>7, <1>8, <1>9, AdWorkFits

\* Every answer keeps it.
LEMMA AdAnswerKeeps ==
  ASSUME AdInv, NEW r \in AdRuns, AdAnswer(r)
  PROVE  AdInv'
<1> DEFINE old == adRun[r]
           run == [old EXCEPT !.asking = FALSE, !.tries = 0, !.lost = 0]
           n == CASE run.pc = "campaigns" -> [run EXCEPT !.pc = "post"]
                  [] run.pc = "stats"     -> [AdRead(run, adCost, run.at, run.to)
                                                EXCEPT !.pc = "insert"]
                  [] run.pc = "post"      -> AdPosted(run)
                  [] run.pc = "poll"      -> AdPolled(run)
                  [] run.pc = "download"  -> AdDownloaded(run)
<1>1. /\ old.asking /\ (adKind # "ym" => old.good # 0)
      /\ adRun' = [adRun EXCEPT ![r] = n]
      /\ UNCHANGED <<adKind, adToday, adCost, adStored, adMark, adLock, adTicks, adFaults>>
  BY DEF AdAnswer, AdRefused
<1>2. AdFits(old, adKind, adCost, adStored) /\ old \in AdRunSet /\ old.pc \in AdRequests
  BY <1>1 DEF AdInv, AdFits, AdRunTrue
<1>3. /\ run \in AdRunSet /\ run.pc = old.pc /\ run.end = old.end /\ run.job = old.job
      /\ run.row = old.row /\ run.data = old.data /\ run.overlapped = old.overlapped
      /\ run.back = old.back /\ run.tries = 0 /\ run.lost = 0
      /\ run.held = old.held /\ run.good = old.good /\ ~run.asking
  BY <1>2 DEF AdRunSet
<1> HIDE DEF run
<1>4. AdFits(run, adKind, adCost, adStored)
  <2>1. adKind # "ym" => AdTokenHolds(run)
    <3>1. adKind # "ym" => old.good > 0 /\ AdTokenHolds(old)
      BY <1>1, <1>2, AdRunNumbers DEF AdFits
    <3>. QED BY <1>3, <3>1 DEF AdTokenHolds
  <2>. QED BY <1>2, <1>3, <2>1, AdTokenKeeps DEF AdRequests
<1>5. AdFits(n, adKind, adCost, adStored) /\ n.pc # "ended" /\ n.overlapped = run.overlapped
  <2>1. run.pc \in {"campaigns", "stats", "post", "poll", "download"}
    BY <1>2, <1>3 DEF AdRequests
  <2>2. \A d \in AdDays : adCost[d] \in 0..AdVersions
    BY AdCostIs
  <2>3. adKind \in AdKinds
    BY DEF AdInv, AdShared
  <2>4. CASE run.pc \in {"stats", "download"}
    <3>1. \/ n = [AdRead(run, adCost, run.at, run.to) EXCEPT !.pc = "insert"] /\ run.pc = "stats"
          \/ n = AdDownloaded(run) /\ run.pc = "download"
      BY <2>4
    <3> HIDE DEF n
    <3>. QED BY <1>3, <1>4, <3>1, AdTakesIn
  <2>5. CASE run.pc \in {"campaigns", "post", "poll"}
    <3>1. \/ n = [run EXCEPT !.pc = "post"] /\ run.pc = "campaigns"
          \/ n = AdPosted(run) /\ run.pc = "post"
          \/ n = AdPolled(run) /\ run.pc = "poll"
      BY <2>5
    <3> HIDE DEF n
    <3>. QED BY <1>3, <1>4, <2>2, <2>3, <3>1, AdMovesOn
  <2>. QED BY <2>1, <2>4, <2>5
<1> HIDE DEF n
<1>6. adMark' \in AdDays /\ adLock' \in AdRuns \cup {AdNoRun}
      /\ adTicks' \in 0..MaxAdTicks /\ adFaults' \in 0..MaxAdFaults
  BY <1>1 DEF AdInv, AdShared
<1>7. AdBusy(r)
  BY <1>2 DEF AdBusy, AdRequests
<1>. QED BY <1>1, <1>3, <1>5, <1>6, <1>7, AdStepKeeps

\* What is written of a job is what has become of it.
LEMMA AdSaveKeeps ==
  ASSUME AdInv, NEW r \in AdRuns, AdSave(r)
  PROVE  AdInv'
<1> DEFINE run == adRun[r]
<1>1. AdFits(run, adKind, adCost, adStored) /\ run \in AdRunSet /\ AdRunTrue(run)
  BY DEF AdInv, AdFits
<1>2. /\ UNCHANGED <<adKind, adToday, adCost, adStored, adMark, adTicks, adFaults>>
      /\ adMark' \in AdDays /\ adTicks' \in 0..MaxAdTicks /\ adFaults' \in 0..MaxAdFaults
      /\ adLock \in AdRuns \cup {AdNoRun} /\ AdFreed(r) \in AdRuns \cup {AdNoRun}
  BY DEF AdSave, AdInv, AdShared, AdFreed
<1>3. CASE run.pc \in {"save", "done"}
  <2>1. PICK pc \in {"poll", "insert"}, row \in {"pending", "completed"}, left \in Nat :
          /\ \/ adRun' = [adRun EXCEPT ![r] = [run EXCEPT !.pc = pc, !.row = row, !.left = left]]
             \/ adRun' = [adRun EXCEPT ![r] = [run EXCEPT !.pc = pc, !.row = row]]
          /\ pc = "poll" => run.pc = "save"
          /\ row = "completed" => run.pc = "done"
          /\ UNCHANGED adLock
    BY <1>3, AdNumbers DEF AdSave
  <2> DEFINE n == adRun'[r]
  <2>2. adRun' = [adRun EXCEPT ![r] = n]
    BY <2>1 DEF AdInv, AdShared
  <2>3. /\ n \in AdRunSet /\ n.pc = pc /\ n.end = run.end /\ n.asking = run.asking
        /\ n.tries = run.tries /\ n.lost = run.lost /\ n.held = run.held
        /\ n.good = run.good /\ n.row = row /\ n.job = run.job /\ n.data = run.data
        /\ n.overlapped = run.overlapped /\ n.back = run.back
    <3>1. pc \in AdPlaces
      BY DEF AdPlaces, AdRequests
    <3>2. \/ n = [run EXCEPT !.pc = pc, !.row = row, !.left = left]
          \/ n = [run EXCEPT !.pc = pc, !.row = row]
      BY <2>1 DEF AdInv, AdShared
    <3> HIDE DEF n
    <3>3. CASE n = [run EXCEPT !.pc = pc, !.row = row, !.left = left]
      BY <1>1, <3>1, <3>3 DEF AdRunSet
    <3>4. CASE n = [run EXCEPT !.pc = pc, !.row = row]
      BY <1>1, <3>1, <3>4 DEF AdRunSet
    <3>. QED BY <3>2, <3>3, <3>4
  <2> HIDE DEF n
  <2>4. AdFiguresFresh(n, adCost, adStored)
    BY <1>1, <1>3, <2>1, <2>3 DEF AdFits, AdFiguresFresh
  <2>5. ~n.asking
    BY <1>1, <1>3, <2>3 DEF AdRunTrue, AdRequests
  <2>6. /\ n.row = "completed" => n.job.state = "ok"
        /\ n.row # "failed" /\ n.pc \notin {"refused", "download", "done", "save", "ended"}
        /\ n.pc = "poll" => n.job.state # "none"
    BY <1>1, <2>1, <2>3 DEF AdRunTrue
  <2>7. AdFits(n, adKind, adCost, adStored)
    BY <1>1, <1>3, <2>3, <2>4, <2>5, <2>6, AdWorkFits
  <2>. QED BY <1>2, <1>3, <2>1, <2>2, <2>3, <2>6, <2>7, AdStepKeeps DEF AdBusy
<1>4. CASE run.pc = "refused"
  <2> DEFINE m == AdEnded(run, "failed")
             row == IF adKind = "sku" THEN "failed" ELSE run.row
             n == [m EXCEPT !.row = row]
  <2>1. adRun' = [adRun EXCEPT ![r] = n] /\ adLock' = AdFreed(r)
    BY <1>4 DEF AdSave
  <2>2. /\ AdFits(m, adKind, adCost, adStored) /\ m.pc = "ended" /\ m.job = run.job
        /\ m.row = run.row /\ m \in AdRunSet
    <3>1. AdHasCause(run, "failed")
      BY DEF AdHasCause
    <3>. QED BY <1>1, <3>1, AdCostIs, AdEndedFits DEF AdFits
  <2>3. row \in {"none", "pending", "completed", "failed"} /\ run.job.state = "failed"
        /\ (row = "completed" => run.row = "completed")
    BY <1>1, <1>4 DEF AdRunSet, AdRunTrue
  <2> HIDE DEF m, row
  <2>4. /\ n \in AdRunSet /\ n.pc = "ended" /\ n.end = m.end /\ n.asking = m.asking
        /\ n.tries = m.tries /\ n.lost = m.lost /\ n.held = m.held
        /\ n.good = m.good /\ n.age = m.age /\ n.row = row /\ n.job = run.job /\ n.data = m.data
        /\ n.overlapped = m.overlapped /\ n.back = m.back
    BY <2>2, <2>3 DEF AdRunSet
  <2> HIDE DEF n
  <2>5. AdFits(n, adKind, adCost, adStored)
    <3>1. adKind # "ym" => AdTokenHolds(n)
      BY <2>2, <2>4 DEF AdFits, AdTokenHolds
    <3>2. AdRunTrue(n)
      BY <1>1, <2>2, <2>3, <2>4 DEF AdFits, AdRunTrue, AdHasCause
    <3>3. AdFiguresFresh(n, adCost, adStored)
      BY <2>2, <2>4 DEF AdFits, AdFiguresFresh
    <3>. QED BY <2>4, <3>1, <3>2, <3>3 DEF AdFits
  <2>. QED BY <1>2, <2>1, <2>4, <2>5, AdStepKeeps
<1>. QED BY <1>3, <1>4 DEF AdSave

\* What is stored is shown, and no run but this one, if it was alone, had figures at hand.
LEMMA AdInsertKeeps ==
  ASSUME AdInv, NEW r \in AdRuns, AdInsert(r)
  PROVE  AdInv'
<1> DEFINE run == adRun[r]
           stored == [d \in AdDays |-> IF d \in {e \in AdDays : run.data[e] > 0} THEN run.data[d]
                                       ELSE adStored[d]]
           back == ~run.overlapped /\
                     \E d \in {e \in AdDays : run.data[e] > 0} : run.data[d] < adStored[d]
           m == IF adKind = "ym" THEN [run EXCEPT !.pc = "mark"] ELSE AdEnded(run, "success")
           n == [m EXCEPT !.back = back]
<1>1. AdFits(run, adKind, adCost, adStored) /\ run \in AdRunSet /\ AdRunTrue(run)
  BY DEF AdInv, AdFits
<1>2. /\ run.pc = "insert" /\ adStored' = stored /\ adRun' = [adRun EXCEPT ![r] = n]
      /\ adLock' = IF adKind = "ym" THEN adLock ELSE AdFreed(r)
      /\ UNCHANGED <<adKind, adToday, adCost, adMark, adTicks, adFaults>>
  BY DEF AdInsert
<1>3. \A d \in AdDays : run.data[d] \in 0..AdVersions /\ run.data[d] \in Int
  BY <1>1, AdNumbers DEF AdRunSet
<1>4. ~back
  <2>1. ~run.overlapped => \A d \in AdDays : run.data[d] > 0 => adStored[d] <= run.data[d]
    BY <1>1, <1>2 DEF AdFits, AdFiguresFresh
  <2>. QED BY <1>3, <2>1, AdCostIs
<1>5. /\ stored \in [AdDays -> 0..AdVersions] /\ \A d \in AdDays : stored[d] <= adCost[d]
      /\ \A d \in AdDays : run.data[d] > 0 => stored[d] <= run.data[d]
  <2>1. \A d \in AdDays : run.data[d] <= adCost[d]
    BY <1>1 DEF AdFits, AdFiguresFresh
  <2>. QED BY <1>3, <2>1, AdCostIs
<1> HIDE DEF stored, back
<1>6. /\ m \in AdRunSet /\ AdFits(m, adKind, adCost, stored)
      /\ m.pc = IF adKind = "ym" THEN "mark" ELSE "ended"
      /\ m.pc = "mark" => m.overlapped = run.overlapped
  <2>1. AdFiguresFresh(run, adCost, stored)
    BY <1>1, <1>2, <1>5 DEF AdFits, AdFiguresFresh
  <2>2. AdFits(run, adKind, adCost, stored)
    BY <1>1, <2>1 DEF AdFits
  <2>3. CASE adKind = "ym"
    <3>1. /\ m \in AdRunSet /\ m.pc = "mark" /\ m.end = run.end /\ m.asking = run.asking
          /\ m.tries = run.tries /\ m.lost = run.lost /\ m.held = run.held
          /\ m.good = run.good /\ m.row = run.row /\ m.job = run.job /\ m.data = run.data
          /\ m.overlapped = run.overlapped /\ m.back = run.back
      BY <1>1, <2>3 DEF AdRunSet, AdPlaces
    <3> HIDE DEF m
    <3>2. AdFiguresFresh(m, adCost, stored)
      BY <1>2, <2>1, <3>1 DEF AdFiguresFresh
    <3>3. ~m.asking /\ (m.row = "completed" => m.job.state = "ok")
          /\ (m.row = "failed" => m.job.state = "failed")
      BY <1>1, <1>2, <3>1 DEF AdRunTrue, AdRequests
    <3>4. AdFits(m, adKind, adCost, stored)
      BY <1>2, <2>2, <3>1, <3>2, <3>3, AdWorkFits
    <3>. QED BY <2>3, <3>1, <3>4
  <2>4. CASE adKind # "ym"
    <3>1. AdHasCause(run, "success")
      BY DEF AdHasCause
    <3>2. m = AdEnded(run, "success")
      BY <2>4
    <3> HIDE DEF m
    <3>3. AdFits(m, adKind, adCost, stored) /\ m.pc = "ended"
      BY <2>2, <3>1, <3>2, AdCostIs, AdEndedFits
    <3>. QED BY <2>4, <3>3 DEF AdFits
  <2>. QED BY <2>3, <2>4
<1> HIDE DEF m
<1>7. back \in BOOLEAN
  BY DEF back
<1>8. /\ n \in AdRunSet /\ n.pc = m.pc /\ n.end = m.end /\ n.asking = m.asking
      /\ n.tries = m.tries /\ n.lost = m.lost /\ n.held = m.held
      /\ n.good = m.good /\ n.age = m.age /\ n.row = m.row /\ n.job = m.job /\ n.data = m.data
      /\ n.overlapped = m.overlapped /\ n.back = back
  BY <1>6, <1>7 DEF AdRunSet
<1> HIDE DEF n
<1>9. AdFits(n, adKind, adCost, stored)
  <2>1. adKind # "ym" => AdTokenHolds(n)
    BY <1>6, <1>8 DEF AdFits, AdTokenHolds
  <2>2. AdRunTrue(n)
    BY <1>6, <1>8 DEF AdFits, AdRunTrue, AdHasCause
  <2>3. AdFiguresFresh(n, adCost, stored)
    BY <1>4, <1>6, <1>8 DEF AdFits, AdFiguresFresh
  <2>. QED BY <1>8, <2>1, <2>2, <2>3 DEF AdFits
<1>10. /\ adRun'[r] = n /\ \A s \in AdRuns \ {r} : adRun'[s] = adRun[s]
       /\ DOMAIN adRun' = AdRuns /\ adRun' = [s \in AdRuns |-> adRun'[s]]
  BY <1>2 DEF AdInv, AdShared
<1>11. ASSUME NEW s \in AdRuns \ {r}  PROVE AdFits(adRun[s], adKind, adCost, stored)
  <2>1. AdFits(adRun[s], adKind, adCost, adStored)
    BY DEF AdInv
  <2>2. adRun[s].pc = "ended" \/ adRun[s].overlapped
    BY <1>2 DEF AdInv, AdAlone, AdBusy
  <2>3. AdFiguresFresh(adRun[s], adCost, stored)
    BY <2>1, <2>2 DEF AdFits, AdFiguresFresh
  <2>. QED BY <2>1, <2>3 DEF AdFits
<1>12. \A s \in AdRuns : AdFits(adRun'[s], adKind', adCost', adStored')
  BY <1>2, <1>9, <1>10, <1>11
<1>13. AdShared'
  BY <1>2, <1>5, <1>10 DEF AdInv, AdShared, AdFreed
<1>14. AdStoredShown'
  BY <1>2, <1>5 DEF AdStoredShown
<1>15. AdAlone'
  <2>1. n.pc # "ended" => n.pc = "mark" /\ n.overlapped = run.overlapped /\ AdBusy(r)
    BY <1>2, <1>6, <1>8 DEF AdBusy
  <2>. QED BY <1>10, <2>1 DEF AdInv, AdAlone, AdBusy
<1>. QED BY <1>12, <1>13, <1>14, <1>15 DEF AdInv

\* A run that times out, breaks off, dies, has lost its lock or sets its mark ends.
LEMMA AdEndsKeep ==
  ASSUME AdInv, NEW r \in AdRuns,
         AdTimesOut(r) \/ AdSetMark(r) \/ AdLostLock(r) \/ AdBreak(r) \/ AdCrash(r)
  PROVE  AdInv'
<1>1. adMark \in AdDays /\ adFaults \in 0..MaxAdFaults /\ adRun[r].began \in AdDays
  BY DEF AdInv, AdShared, AdFits, AdRunSet
<1>2. \A why \in {"timeout", "success", "lock_lost", "broken", "crash"} : AdHasCause(adRun[r], why)
  BY DEF AdHasCause
<1>3. PICK why \in {"timeout", "success", "lock_lost", "broken", "crash"} :
        /\ adRun' = [adRun EXCEPT ![r] = AdEnded(adRun[r], why)]
        /\ adLock' \in {AdFreed(r), adLock} /\ adMark' \in {adMark, adRun[r].began}
        /\ UNCHANGED <<adKind, adToday, adCost, adStored, adTicks>>
        /\ AdFault \/ UNCHANGED adFaults
  <2>1. CASE AdTimesOut(r)
    BY <2>1 DEF AdTimesOut, AdEnds
  <2>2. CASE AdSetMark(r)
    BY <2>2 DEF AdSetMark, AdEnds
  <2>3. CASE AdLostLock(r)
    BY <2>3 DEF AdLostLock, AdEnds
  <2>4. CASE AdBreak(r)
    BY <2>4 DEF AdBreak, AdEnds
  <2>5. CASE AdCrash(r)
    BY <2>5 DEF AdCrash
  <2>. QED BY <2>1, <2>2, <2>3, <2>4, <2>5
<1>4. adMark' \in AdDays /\ adFaults' \in 0..MaxAdFaults
  BY <1>1, <1>3, AdFaultIs
<1>5. UNCHANGED <<adKind, adToday, adCost, adStored, adTicks>>
  BY <1>3
<1>. QED BY <1>2, <1>3, <1>4, <1>5, AdEndKeeps

\* The marketplace makes the report of the figures there are, or gives up, or takes a token no
\* more.
LEMMA AdMarketKeeps ==
  ASSUME AdInv, NEW r \in AdRuns, AdMake(r) \/ AdGiveUp(r) \/ AdRevoke(r)
  PROVE  AdInv'
<1> DEFINE run == adRun[r]
<1>1. AdFits(run, adKind, adCost, adStored) /\ run \in AdRunSet /\ AdRunTrue(run)
  BY DEF AdInv, AdFits
<1>2. /\ UNCHANGED <<adKind, adToday, adCost, adStored, adMark, adLock, adTicks>>
      /\ AdFault \/ UNCHANGED adFaults
      /\ run.pc # "ended"
  BY DEF AdMake, AdGiveUp, AdRevoke, AdBusy
<1>3. adMark' \in AdDays /\ adLock' \in AdRuns \cup {AdNoRun}
      /\ adTicks' \in 0..MaxAdTicks /\ adFaults' \in 0..MaxAdFaults
  BY <1>2, AdFaultIs DEF AdInv, AdShared
<1>4. CASE AdMake(r) \/ AdGiveUp(r)
  <2>1. PICK job \in {[state |-> "ok", made |-> adCost],
                      [state |-> "failed", made |-> run.job.made]} :
          adRun' = [adRun EXCEPT ![r] = [run EXCEPT !.job = job]] /\ run.job.state = "queued"
    BY <1>4 DEF AdMake, AdGiveUp
  <2> DEFINE n == [run EXCEPT !.job = job]
  <2>2. run.job.made \in [AdDays -> 0..AdVersions] /\ adCost \in [AdDays -> 0..AdVersions]
    BY <1>1, AdCostIs DEF AdRunSet
  <2>3. /\ job \in [state: {"none", "queued", "ok", "failed"}, made: [AdDays -> 0..AdVersions]]
        /\ job.state \in {"ok", "failed"} /\ job.state = "ok" => job.made = adCost
        /\ job.state = "failed" => job.made = run.job.made
    BY <2>2
  <2>4. /\ n \in AdRunSet /\ n.pc = run.pc /\ n.end = run.end /\ n.asking = run.asking
        /\ n.tries = run.tries /\ n.lost = run.lost /\ n.held = run.held
        /\ n.good = run.good /\ n.age = run.age /\ n.row = run.row /\ n.job = job
        /\ n.data = run.data /\ n.overlapped = run.overlapped /\ n.back = run.back
    BY <1>1, <2>3 DEF AdRunSet
  <2> HIDE DEF n
  <2>5. AdFiguresFresh(n, adCost, adStored)
    BY <1>1, <2>3, <2>4, AdCostIs DEF AdFits, AdFiguresFresh
  <2>6. AdRunTrue(n)
    <3>1. /\ run.row # "completed" /\ run.row # "failed"
          /\ run.pc \notin {"download", "done", "refused"}
      BY <1>1, <2>1 DEF AdRunTrue
    <3>. QED BY <1>1, <2>3, <2>4, <3>1 DEF AdRunTrue, AdHasCause
  <2>7. adKind # "ym" => AdTokenHolds(n)
    BY <1>1, <2>4 DEF AdFits, AdTokenHolds
  <2>8. AdFits(n, adKind, adCost, adStored)
    BY <2>4, <2>5, <2>6, <2>7 DEF AdFits
  <2>9. adRun' = [adRun EXCEPT ![r] = n]
    BY <2>1 DEF n
  <2>. QED BY <1>2, <1>3, <2>4, <2>8, <2>9, AdStepKeeps DEF AdBusy
<1>5. CASE AdRevoke(r)
  <2> DEFINE n == [run EXCEPT !.good = 0, !.lost = run.lost + 1]
  <2>1. adRun' = [adRun EXCEPT ![r] = n]
    BY <1>5 DEF AdRevoke
  <2>2. run.lost + 1 \in Nat /\ 0 \in 0..AdLifetime
    BY <1>1, AdNumbers DEF AdRunSet
  <2>3. /\ n \in AdRunSet /\ n.pc = run.pc /\ n.end = run.end /\ n.asking = run.asking
        /\ n.tries = run.tries /\ n.lost = run.lost + 1 /\ n.good = 0
        /\ n.row = run.row /\ n.job = run.job
        /\ n.data = run.data /\ n.overlapped = run.overlapped /\ n.back = run.back
    BY <1>1, <2>2 DEF AdRunSet
  <2> HIDE DEF n
  <2>4. adKind # "ym" => AdTokenHolds(n)
    <3>1. run.tries \in Int /\ run.lost \in Int /\ ~(0 > 0)
      BY <1>1, AdRunNumbers
    <3>2. adKind # "ym" => run.tries <= run.lost
      BY <1>1 DEF AdFits, AdTokenHolds
    <3>3. adKind # "ym" => run.tries <= run.lost + 1 /\ run.lost + 1 # run.tries
      BY <3>1, <3>2
    <3>. QED BY <2>3, <3>1, <3>3 DEF AdTokenHolds
  <2>5. n.asking => n.pc \in AdRequests
    BY <1>1, <2>3 DEF AdRunTrue
  <2>6. AdFits(n, adKind, adCost, adStored)
    BY <1>1, <1>2, <2>3, <2>4, <2>5, AdTokenKeeps
  <2>. QED BY <1>2, <1>3, <2>1, <2>3, <2>6, AdStepKeeps DEF AdBusy
<1>. QED BY <1>4, <1>5

\* A tick takes as much from what the marketplace grants a token as from what the client does.
LEMMA AdTickKeeps ==
  ASSUME AdInv, AdTick
  PROVE  AdInv'
<1>1. /\ adRun' = [r \in AdRuns |-> AdOlder(adRun[r])] /\ adTicks' = adTicks + 1
      /\ adTicks < MaxAdTicks
      /\ \A r \in AdRuns : adRun[r].asking => adRun[r].age < AdLatency
      /\ UNCHANGED <<adKind, adToday, adCost, adStored, adMark, adLock, adFaults>>
  BY DEF AdTick
<1>2. ASSUME NEW r \in AdRuns
      PROVE  /\ AdFits(AdOlder(adRun[r]), adKind, adCost, adStored)
             /\ AdOlder(adRun[r]).pc = adRun[r].pc
             /\ AdOlder(adRun[r]).overlapped = adRun[r].overlapped
  <2> DEFINE run == adRun[r]
             age == IF run.asking THEN run.age + 1 ELSE 0
             held == Max({0, run.held - 1})
             good == Max({0, run.good - 1})
             left == Max({0, run.left - 1})
             lost == IF AdRunsOut(run) THEN run.lost + 1 ELSE run.lost
             n == [run EXCEPT !.age = age, !.held = held, !.good = good, !.left = left,
                              !.lost = lost]
  <2>1. AdFits(run, adKind, adCost, adStored) /\ run \in AdRunSet /\ AdRunTrue(run)
    BY DEF AdInv, AdFits
  <2>2. /\ run.age \in Int /\ run.held \in Int /\ run.good \in Int /\ run.left \in Int
        /\ 0 <= run.age /\ run.age <= AdLatency /\ 0 <= run.held /\ run.held <= AdLifetime
        /\ 0 <= run.good /\ run.good <= AdLifetime /\ 0 <= run.left /\ run.lost \in Int
        /\ 0 <= run.lost /\ run.tries \in Int
        /\ run.asking => run.age < AdLatency
    BY <1>1, <2>1, AdRunNumbers
  <2>3. /\ held = IF 0 >= run.held - 1 THEN 0 ELSE run.held - 1
        /\ good = IF 0 >= run.good - 1 THEN 0 ELSE run.good - 1
        /\ left = IF 0 >= run.left - 1 THEN 0 ELSE run.left - 1
    BY <2>2, AdMaxIs
  <2>4. AdOlder(run) = n
    BY DEF AdOlder
  <2> HIDE DEF held, good, left
  <2>5. age \in 0..AdLatency /\ held \in 0..AdLifetime /\ good \in 0..AdLifetime /\ left \in Nat
    BY <2>2, <2>3, AdNumbers
  <2>6. run.asking => age = run.age + 1
    OBVIOUS
  <2> HIDE DEF age
  <2>12. /\ lost \in Nat /\ run.lost <= lost
         /\ lost = IF run.asking /\ run.good = 1 /\ run.age + 1 > AdSkew
                   THEN run.lost + 1 ELSE run.lost
    BY <2>2 DEF AdRunsOut
  <2> HIDE DEF lost
  <2>7. /\ n \in AdRunSet /\ n.pc = run.pc /\ n.end = run.end /\ n.asking = run.asking
        /\ n.tries = run.tries /\ n.lost = lost /\ n.held = held
        /\ n.good = good /\ n.age = age /\ n.row = run.row /\ n.job = run.job
        /\ n.data = run.data /\ n.overlapped = run.overlapped /\ n.back = run.back
    BY <2>1, <2>5, <2>12 DEF AdRunSet
  <2> HIDE DEF n
  <2>8. adKind # "ym" => AdTokenHolds(n)
    <3>1. adKind # "ym" => AdTokenHolds(run)
      BY <2>1 DEF AdFits
    <3>2. ASSUME AdTokenHolds(run)
          PROVE  /\ held > 0 /\ good > 0 => good >= held + AdSkew
                 /\ run.tries <= lost
                 /\ lost = run.tries =>
                      /\ held > 0 => good >= held + AdSkew
                      /\ run.asking => good > 0 /\ good + age > AdSkew
      <4>1. /\ run.held > 0 /\ run.good > 0 => run.good >= run.held + AdSkew
            /\ run.tries <= run.lost
            /\ run.lost = run.tries =>
                 /\ run.held > 0 => run.good >= run.held + AdSkew
                 /\ run.asking => run.good > 0 /\ run.good + run.age > AdSkew
        BY <3>2 DEF AdTokenHolds
      <4>2. run.tries <= lost /\ (lost = run.tries => lost = run.lost)
        BY <2>2, <2>12, <4>1
      <4>3. CASE lost = run.tries /\ run.asking
        <5>1. ~(run.good = 1 /\ run.age + 1 > AdSkew)
          BY <2>2, <2>12, <4>2, <4>3
        <5>. QED BY <2>2, <2>3, <2>6, <4>1, <4>2, <4>3, <5>1, AdNumbers
      <4>4. CASE ~(lost = run.tries /\ run.asking)
        BY <2>2, <2>3, <4>1, <4>2, <4>4, AdNumbers
      <4>. QED BY <4>3, <4>4
    <3>. QED BY <2>7, <3>1, <3>2 DEF AdTokenHolds
  <2>9. n.asking => n.pc \in AdRequests
    BY <2>1, <2>7 DEF AdRunTrue
  <2>10. run.lost <= n.lost
    BY <2>7, <2>12
  <2>11. AdFits(n, adKind, adCost, adStored)
    BY <2>1, <2>7, <2>8, <2>9, <2>10, AdTokenKeeps
  <2>. QED BY <2>4, <2>7, <2>11
<1>3. \A r \in AdRuns : adRun'[r] = AdOlder(adRun[r])
  BY <1>1
<1>4. AdShared'
  <2>1. adTicks' \in 0..MaxAdTicks
    BY <1>1, AdAssumption DEF AdInv, AdShared
  <2>2. DOMAIN adRun' = AdRuns /\ adRun' = [r \in AdRuns |-> adRun'[r]]
    BY <1>1, <1>3
  <2>. QED BY <1>1, <2>1, <2>2 DEF AdInv, AdShared
<1>5. AdStoredShown'
  BY <1>1 DEF AdInv, AdStoredShown
<1>6. AdAlone'
  BY <1>2, <1>3 DEF AdInv, AdAlone, AdBusy
<1>7. \A r \in AdRuns : AdFits(adRun'[r], adKind', adCost', adStored')
  BY <1>1, <1>2, <1>3
<1>. QED BY <1>4, <1>5, <1>6, <1>7 DEF AdInv

\* Days pass, figures are corrected, locks run out.
LEMMA AdWorldKeeps ==
  ASSUME AdInv, AdLapse \/ AdNewDay \/ \E d \in AdDays : AdCorrect(d)
  PROVE  AdInv'
<1>1. CASE AdLapse
  <2>1. /\ adLock' = AdNoRun
        /\ AdFault \/ UNCHANGED adFaults
        /\ UNCHANGED <<adKind, adToday, adCost, adStored, adMark, adRun, adTicks>>
    BY <1>1 DEF AdLapse
  <2>2. AdShared'
    BY <2>1, AdFaultIs DEF AdInv, AdShared
  <2>. QED BY <2>1, <2>2 DEF AdInv, AdStoredShown, AdAlone, AdBusy
<1>2. CASE AdNewDay
  <2>1. /\ adToday' = adToday + 1 /\ adToday < AdLastDay
        /\ UNCHANGED <<adKind, adCost, adStored, adMark, adLock, adRun, adTicks, adFaults>>
    BY <1>2 DEF AdNewDay
  <2>2. adToday' \in AdDays
    <3>1. adToday \in 1..AdLastDay /\ AdLastDay \in Int
      BY AdNumbers DEF AdInv, AdShared, AdDays
    <3>. QED BY <2>1, <3>1 DEF AdDays
  <2>3. AdShared'
    BY <2>1, <2>2 DEF AdInv, AdShared
  <2>. QED BY <2>1, <2>3 DEF AdInv, AdStoredShown, AdAlone, AdBusy
<1>3. ASSUME NEW c \in AdDays, AdCorrect(c)  PROVE AdInv'
  <2>1. /\ adCost' = [adCost EXCEPT ![c] = adCost[c] + 1] /\ adCost[c] < AdVersions
        /\ UNCHANGED <<adKind, adToday, adStored, adMark, adLock, adRun, adTicks, adFaults>>
    BY <1>3 DEF AdCorrect
  <2>2. /\ adCost \in [AdDays -> 1..AdVersions] /\ adCost[c] + 1 \in 1..AdVersions
    BY <2>1, AdNumbers DEF AdInv, AdShared
  <2>3. /\ adCost' \in [AdDays -> 1..AdVersions]
        /\ \A d \in AdDays : /\ adCost[d] \in Int /\ adCost'[d] \in Int
                             /\ adCost[d] <= adCost'[d]
    BY <2>1, <2>2, AdCostIs
  <2>4. AdShared'
    BY <2>1, <2>3 DEF AdInv, AdShared
  <2>5. AdStoredShown'
    BY <2>1, <2>3, AdCostIs DEF AdStoredShown
  <2>6. AdAlone'
    BY <2>1 DEF AdInv, AdAlone, AdBusy
  <2>7. ASSUME NEW r \in AdRuns  PROVE AdFits(adRun[r], adKind, adCost', adStored)
    <3>1. AdFits(adRun[r], adKind, adCost, adStored)
      BY DEF AdInv
    <3>2. \A d \in AdDays : adRun[r].data[d] \in Int /\ adRun[r].job.made[d] \in Int
      BY <3>1, AdNumbers DEF AdFits, AdRunSet
    <3>3. \A d \in AdDays : adRun[r].data[d] <= adCost'[d] /\ adRun[r].job.made[d] <= adCost'[d]
      BY <2>3, <3>1, <3>2 DEF AdFits, AdFiguresFresh
    <3>4. AdFiguresFresh(adRun[r], adCost', adStored)
      BY <3>1, <3>3 DEF AdFits, AdFiguresFresh
    <3>. QED BY <3>1, <3>4 DEF AdFits
  <2>. QED BY <2>1, <2>4, <2>5, <2>6, <2>7 DEF AdInv
<1>. QED BY <1>1, <1>2, <1>3

\* Every step keeps it.
LEMMA AdInductive ==
  ASSUME AdInv, [AdNext]_adVars
  PROVE  AdInv'
<1>1. CASE UNCHANGED adVars
  BY <1>1 DEF adVars, AdInv, AdShared, AdStoredShown, AdAlone, AdBusy
<1>2. ASSUME NEW r \in AdRuns, NEW p \in AdPeriods, AdBegin(r, p[1], p[2])
      PROVE  AdInv'
  <2>1. adToday \in Int /\ adMark \in Int
    BY AdNumbers DEF AdInv, AdShared
  <2>2. AdFrom \in Int /\ AdTo \in Int
    <3>1. \A x \in Int : Max({1, x}) \in Int
      BY AdMaxIs
    <3>. QED BY <2>1, <3>1, AdNumbers DEF AdFrom, AdTo
  <2>3. p[1] \in Int /\ p[2] \in Int
    BY <2>1, <2>2 DEF AdPeriods
  <2>. QED BY <1>2, <2>3, AdBeginKeeps
<1>. QED
  BY <1>1, <1>2, AdAskKeeps, AdUnauthorizedKeeps, AdAnswerKeeps, AdSaveKeeps, AdInsertKeeps,
     AdEndsKeep, AdMarketKeeps, AdTickKeeps, AdWorldKeeps
  DEF AdNext, AdOwn

\* For any number of runs and days, and however long requests take: a run is refused only after its
\* token was revoked or ran out under a request slower than the skew, the table of jobs says of a
\* job what became of it, and a run that was alone brings back no older figures.
THEOREM ReportsSound == AdSpec => []AdReportsSound
<1>1. AdInit => AdInv
  <2> SUFFICES ASSUME AdInit  PROVE AdInv
    OBVIOUS
  <2>1. AdShared
    BY AdNumbers, AdAssumption DEF AdInit, AdShared
  <2>2. AdStoredShown /\ \A d \in AdDays : adCost[d] \in 0..AdVersions
    BY AdNumbers DEF AdInit, AdStoredShown
  <2>3. \A r \in AdRuns : adRun[r] = AdIdle /\ ~AdBusy(r)
    BY DEF AdInit, AdBusy, AdIdle
  <2>4. AdAlone /\ \A r \in AdRuns : AdFits(adRun[r], adKind, adCost, adStored)
    BY <2>2, <2>3, AdIdleFits DEF AdAlone
  <2>. QED BY <2>1, <2>2, <2>4 DEF AdInv
<1>2. AdInv /\ [AdNext]_adVars => AdInv'
  BY AdInductive
<1>3. AdInv => AdReportsSound
  <2> SUFFICES ASSUME AdInv  PROVE AdReportsSound
    OBVIOUS
  <2>1. AdTypeOK
    BY DEF AdInv, AdShared, AdFits, AdRunSet, AdTypeOK
  <2>2. AdRefusedForCause /\ AdRowsTrue
    BY DEF AdInv, AdFits, AdRunTrue, AdHasCause, AdRefusedForCause, AdRowsTrue
  <2>3. AdNeverBack
    BY DEF AdInv, AdFits, AdFiguresFresh, AdNeverBack
  <2>. QED BY <2>1, <2>2, <2>3 DEF AdReportsSound
<1>. QED BY <1>1, <1>2, <1>3, PTL DEF AdSpec

-----------------------------------------------------------------------------
(* Lists page by page *)

\* A read, its window beginning at an item.
FdRunSet ==
  [pc : FdPlaces, at : Nat, from : FdItem, pages : Nat, count : Nat, seen : SUBSET Nat,
   got : SUBSET FdItem]

\* What may befall a read.
FdHits == {"noObject", "noList", "replay", "removal", "cap"}

\* The types, with what is always listed still listed, and one window for all but two readers.
FdTyped ==
  /\ fdReader \in FdReaders
  /\ fdListed \subseteq FdItem /\ fdRaw \subseteq FdItem /\ fdAlways \subseteq fdListed
  /\ fdRun \in FdRunSet
  /\ fdHit \subseteq FdHits
  /\ fdChanges \in 0..MaxFdChanges /\ fdFaults \in 0..MaxFdFaults
  /\ fdReader \notin FdByWindow => fdRun.from = 1

\* Nothing has befallen the read that its reader is silent on.
FdGood == fdHit \cap FdSilentOn(fdReader) = {}

\* A reader by place has what is before its window, and before each place it has been at.
FdBehind ==
  /\ fdRun.at \in fdRun.seen \cup {FdNone}
  /\ fdRun.seen \subseteq FdItem
  /\ FdGood => \A s \in fdRun.seen \cup {FdNone} : \A x \in fdAlways :
                 x < fdRun.from \/ x <= s => x \in fdRun.got

\* Items before one in the list.
FdBefore(x) == {y \in fdListed : y < x}

\* A reader by offset has what has come before as many items as it has passed over.
FdPassed ==
  /\ fdRun.at = fdRun.pages * FdPage
  /\ FdGood => \A x \in fdAlways : Cardinality(FdBefore(x)) < fdRun.at => x \in fdRun.got

\* The reader that goes by the total counts what is still listed, each item once.
FdTotalled ==
  FdGood => /\ fdRun.got \subseteq fdListed /\ \A x \in fdRun.got : x <= fdRun.at
            /\ fdRun.count = Cardinality(fdRun.got)

\* The reader that stops at a number of pages has had full ones, or has everything.
FdPagesFull ==
  FdGood => fdRun.pages * FdPage <= fdRun.at \/ fdAlways \subseteq fdRun.got

\* What a read under way has, by its reader.
FdReading ==
  fdRun.pc = "page" =>
    /\ fdReader \notin FdByOffset => FdBehind
    /\ fdReader \in FdByOffset => FdPassed
    /\ fdReader = "stocks" => FdTotalled
    /\ fdReader = "attributes" => FdPagesFull

\* What every step keeps.
FdInv == FdTyped /\ FdReading /\ FeedComplete

\* Items are numbers.
LEMMA FdNumbers ==
  ASSUME FdAssumption
  PROVE  /\ FdLast \in Nat \ {0} /\ FdPage \in Nat \ {0} /\ FdWindow \in Nat \ {0}
         /\ \A x \in FdItem : x \in Nat /\ 1 <= x /\ x <= FdLast
BY DEF FdAssumption, FdItem

\* A set of numbers that is not empty has a least one.
LEMMA FdLeast ==
  ASSUME NEW T \in SUBSET Nat, T # {}
  PROVE  \E m \in T : \A y \in T : m <= y
<1>1. \E m \in T : \A y \in T : ~ (<<y, m>> \in OpToRel(<, Nat))
  BY NatLessThanWellFounded, WFMin
<1>2. PICK m \in T : \A y \in T : ~ (<<y, m>> \in OpToRel(<, Nat))
  BY <1>1
<1>3. \A y \in T : ~ (y < m)
  BY <1>2 DEF OpToRel
<1> QED
  BY <1>3

\* A set of items is finite, and if there is one in it there is a greatest.
LEMMA FdItems ==
  ASSUME FdAssumption, NEW S \in SUBSET FdItem
  PROVE  /\ IsFiniteSet(S) /\ Cardinality(S) \in Nat
         /\ S # {} => /\ \E m \in S : \A y \in S : m <= y
                      /\ Max(S) \in S /\ \A y \in S : y <= Max(S)
<1>1. FdLast \in Nat \ {0} /\ FdItem \subseteq Nat /\ \A x \in FdItem : x <= FdLast
  BY FdNumbers
<1>2. IsFiniteSet(S) /\ Cardinality(S) \in Nat
  <2>1. IsFiniteSet(FdItem)
    BY <1>1, FS_Interval DEF FdItem
  <2> QED
    BY <2>1, FS_Subset, FS_CardinalityType
<1>3. ASSUME S # {}
      PROVE  \E m \in S : \A y \in S : m <= y
  BY <1>1, <1>3, FdLeast
<1>4. ASSUME S # {}
      PROVE  \E m \in S : \A y \in S : y <= m
  <2> DEFINE T == {FdLast - x : x \in S}
  <2>1. T \in SUBSET Nat /\ T # {}
    <3>1. \A x \in S : x \in Nat /\ x <= FdLast
      BY <1>1
    <3>2. \A x \in S : FdLast - x \in Nat
      BY <3>1, <1>1
    <3> QED
      BY <3>2, <1>4
  <2>2. PICK d \in T : \A e \in T : d <= e
    BY <2>1, FdLeast
  <2>3. PICK m \in S : d = FdLast - m
    OBVIOUS
  <2>4. ASSUME NEW y \in S
        PROVE  y <= m
    <3>1. FdLast - m <= FdLast - y
      BY <2>2, <2>3, <2>4
    <3>2. m \in Nat /\ y \in Nat /\ FdLast \in Nat
      BY <1>1, <2>4
    <3> QED
      BY <3>1, <3>2
  <2> QED
    BY <2>4
<1>5. ASSUME S # {}
      PROVE  Max(S) \in S /\ \A y \in S : y <= Max(S)
  <2>1. PICK m \in S : \A y \in S : m >= y
    BY <1>4, <1>5, <1>1
  <2>2. Max(S) \in S /\ \A y \in S : Max(S) >= y
    BY <2>1 DEF Max
  <2> QED
    BY <2>2, <1>1
<1> QED
  BY <1>2, <1>3, <1>5

\* What comes before an item are no more than what comes before a later one.
LEMMA FdFewer ==
  ASSUME FdAssumption, NEW xs \in SUBSET FdItem, NEW x \in Nat, NEW y \in Nat, x <= y
  PROVE  /\ Cardinality({z \in xs : z < x}) \in Nat
         /\ Cardinality({z \in xs : z < x}) <= Cardinality({z \in xs : z < y})
<1> DEFINE A == {z \in xs : z < x}
           B == {z \in xs : z < y}
<1>1. A \subseteq B /\ B \in SUBSET FdItem /\ A \in SUBSET FdItem
  <2>1. \A z \in xs : z < x => z < y
    BY FdNumbers
  <2> QED
    BY <2>1
<1> HIDE DEF A, B
<1>2. Cardinality(A) \in Nat /\ IsFiniteSet(B)
  BY <1>1, FdItems
<1>3. Cardinality(A) <= Cardinality(B)
  BY <1>1, <1>2, FS_Subset
<1> QED
  BY <1>2, <1>3 DEF A, B

\* The first items of a list: with each all before it, and a whole page unless they are all.
LEMMA FdFirstItems ==
  ASSUME FdAssumption, NEW xs \in SUBSET FdItem
  PROVE  /\ FdFirst(xs) \subseteq xs
         /\ \A y \in FdFirst(xs) : \A x \in xs : x <= y => x \in FdFirst(xs)
         /\ xs # {} => FdFirst(xs) # {}
         /\ Cardinality(FdFirst(xs)) \in Nat
         /\ FdFirst(xs) # xs => Cardinality(FdFirst(xs)) >= FdPage
<1>1. FdPage \in Nat \ {0} /\ FdItem \subseteq Nat
  BY FdNumbers
<1>2. FdFirst(xs) \subseteq xs
  BY DEF FdFirst
<1>3. ASSUME NEW y \in FdFirst(xs), NEW x \in xs, x <= y
      PROVE  x \in FdFirst(xs)
  <2>1. /\ Cardinality({z \in xs : z < x}) \in Nat
        /\ Cardinality({z \in xs : z < x}) <= Cardinality({z \in xs : z < y})
    BY <1>1, <1>2, <1>3, FdFewer
  <2>2. Cardinality({z \in xs : z < y}) \in Nat
    <3>1. {z \in xs : z < y} \in SUBSET FdItem
      OBVIOUS
    <3> QED
      BY <3>1, FdItems
  <2>3. Cardinality({z \in xs : z < y}) < FdPage
    BY <1>3 DEF FdFirst
  <2>4. Cardinality({z \in xs : z < x}) < FdPage
    BY <2>1, <2>2, <2>3, <1>1
  <2> QED
    BY <2>4 DEF FdFirst
<1>4. ASSUME xs # {}
      PROVE  FdFirst(xs) # {}
  <2>1. PICK m \in xs : \A y \in xs : m <= y
    BY <1>4, FdItems
  <2>2. {z \in xs : z < m} = {}
    <3>1. \A z \in xs : ~ (z < m)
      BY <2>1, <1>1
    <3> QED
      BY <3>1
  <2>3. Cardinality({z \in xs : z < m}) = 0
    BY <2>2, FS_EmptySet
  <2> QED
    BY <2>1, <2>3, <1>1 DEF FdFirst
<1>5. Cardinality(FdFirst(xs)) \in Nat
  BY <1>2, FdItems
<1>6. ASSUME FdFirst(xs) # xs
      PROVE  Cardinality(FdFirst(xs)) >= FdPage
  <2> DEFINE late == xs \ FdFirst(xs)
  <2>1. late # {} /\ late \in SUBSET FdItem
    BY <1>2, <1>6
  <2>2. PICK x \in late : \A y \in late : x <= y
    BY <2>1, FdItems
  <2>3. Cardinality({z \in xs : z < x}) \in Nat
    <3>1. {z \in xs : z < x} \in SUBSET FdItem
      OBVIOUS
    <3> QED
      BY <3>1, FdItems
  <2>4. Cardinality({z \in xs : z < x}) >= FdPage
    <3>1. ~ (Cardinality({z \in xs : z < x}) < FdPage)
      BY <2>2 DEF FdFirst
    <3> QED
      BY <3>1, <2>3, <1>1
  <2> DEFINE before == {z \in xs : z < x}
  <2>5. before \subseteq FdFirst(xs)
    <3>1. ASSUME NEW z \in xs, z < x, z \notin FdFirst(xs)
          PROVE  FALSE
      <4>1. x <= z /\ x \in Nat /\ z \in Nat
        BY <2>2, <3>1, <1>1
      <4> QED
        BY <4>1, <3>1
    <3> QED
      BY <3>1
  <2>6. IsFiniteSet(FdFirst(xs))
    BY <1>2, FdItems
  <2> HIDE DEF before
  <2>7. Cardinality(before) <= Cardinality(FdFirst(xs))
    BY <2>5, <2>6, FS_Subset
  <2>8. Cardinality(before) >= FdPage /\ Cardinality(before) \in Nat
    BY <2>3, <2>4 DEF before
  <2> QED
    BY <2>7, <2>8, <1>1, <1>5
<1> QED
  BY <1>2, <1>3, <1>4, <1>5, <1>6

\* The items of a list after a place.
FdRest(at) == {x \in FdInWindow(fdRun.from) : x > at}

\* What a page says to a reader by place.
FdSays(a, at) ==
  /\ a.ok /\ a.items \in SUBSET FdItem /\ a.items \subseteq FdRest(at) /\ a.items \subseteq fdListed
  /\ a.total = Cardinality(fdListed) /\ Cardinality(a.items) \in Nat
  /\ ~a.more \/ a.items = {} \/ a.next = FdNone \/ Cardinality(a.items) < FdPage =>
       FdRest(at) = a.items
  /\ a.items # {} => /\ Max(a.items) \in a.items /\ \A y \in a.items : y <= Max(a.items)
                     /\ \A x \in FdRest(at) : x <= Max(a.items) => x \in a.items
  /\ a.next # FdNone => a.items # {} /\ a.next = Max(a.items)
  /\ FdRest(at) # a.items => a.items # {} /\ Max(a.items) >= at + FdPage
  /\ a.more <=> FdRest(at) # a.items

\* A page is the first items after its place.
LEMMA FdPageSays ==
  ASSUME FdAssumption, FdTyped, fdReader \notin FdByOffset, NEW at \in Nat, NEW a \in FdAnswers(at)
  PROVE  FdSays(a, at)
<1> DEFINE rest == FdRest(at)
           page == FdFirst(rest)
<1>1. rest \in SUBSET FdItem /\ rest \subseteq fdListed
  BY DEF FdRest, FdInWindow, FdTyped
<1>2. FdAfter(at) = rest
  BY DEF FdAfter, FdRest
<1>3. PICK n \in IF page = {} THEN {FdNone}
                 ELSE IF rest # page THEN {Max(page)} ELSE {Max(page), FdNone} :
        a = [ok |-> TRUE, items |-> page, next |-> n, more |-> rest # page,
             total |-> Cardinality(fdListed)]
  BY <1>2 DEF FdAnswers
<1>4. /\ a.ok /\ a.items = page /\ a.next = n /\ (a.more <=> rest # page)
      /\ a.total = Cardinality(fdListed)
  BY <1>3
<1> HIDE DEF rest
<1>5. /\ page \subseteq rest
      /\ \A y \in page : \A x \in rest : x <= y => x \in page
      /\ rest # {} => page # {}
      /\ Cardinality(page) \in Nat
      /\ page # rest => Cardinality(page) >= FdPage
  BY <1>1, FdFirstItems
<1> HIDE DEF page
<1>6. page # {} => /\ Max(page) \in page /\ \A y \in page : y <= Max(page)
                   /\ Max(page) \in Nat /\ Max(page) >= 1
  BY <1>1, <1>5, FdItems, FdNumbers
<1>7. /\ n # FdNone => page # {} /\ n = Max(page)
      /\ n = FdNone => page = {} \/ rest = page
  BY <1>3, <1>6 DEF FdNone
<1>8. Cardinality(page) < FdPage => rest = page
  BY <1>5, FdNumbers
<1>9. rest # page => page # {} /\ Max(page) >= at + FdPage
  <2> SUFFICES ASSUME rest # page
               PROVE  page # {} /\ Max(page) >= at + FdPage
    OBVIOUS
  <2>1. page # {}
    BY <1>5
  <2>2. page \subseteq (at + 1)..Max(page)
    <3>1. \A y \in page : y \in Nat /\ y > at /\ y <= Max(page)
      BY <1>1, <1>5, <1>6, <2>1, FdNumbers DEF rest, FdRest
    <3> QED
      BY <3>1, <1>6, <2>1
  <2>3. IsFiniteSet((at + 1)..Max(page))
        /\ Cardinality((at + 1)..Max(page)) =
             IF at + 1 > Max(page) THEN 0 ELSE Max(page) - (at + 1) + 1
    <3> DEFINE top == Max(page)
    <3>1. top \in Int /\ at + 1 \in Int
      BY <1>6, <2>1
    <3> HIDE DEF top
    <3>2. IsFiniteSet((at + 1)..top)
          /\ Cardinality((at + 1)..top) = IF at + 1 > top THEN 0 ELSE top - (at + 1) + 1
      BY <3>1, FS_Interval
    <3> QED
      BY <3>2 DEF top
  <2>4. Cardinality(page) <= Cardinality((at + 1)..Max(page))
    BY <2>2, <2>3, FS_Subset
  <2>5. Cardinality(page) >= FdPage /\ FdPage \in Nat \ {0}
    BY <1>5, FdNumbers
  <2> QED
    BY <2>1, <2>3, <2>4, <2>5, <1>5, <1>6
<1>10. \A x \in rest : page # {} /\ x <= Max(page) => x \in page
  BY <1>5, <1>6
<1> QED
  BY <1>1, <1>4, <1>5, <1>6, <1>7, <1>8, <1>9, <1>10 DEF FdSays, rest

\* A reader has everything when it has what is before a window and what is in the last.
LEMMA FdWindows ==
  ASSUME FdAssumption, FdTyped
  PROVE  /\ FdWindowEnd(fdRun.from) \in Nat
         /\ FdLastWindow(fdRun.from) =>
              \A x \in fdListed : x < fdRun.from \/ x \in FdInWindow(fdRun.from)
         /\ ~FdLastWindow(fdRun.from) =>
              /\ fdReader \in FdByWindow /\ FdNextWindow(fdRun.from) \in FdItem
              /\ \A x \in fdListed : x < FdNextWindow(fdRun.from) =>
                                       x < fdRun.from \/ x \in FdInWindow(fdRun.from)
<1> DEFINE from == fdRun.from
           wide == IF fdReader = "postings" THEN from + FdWindow ELSE from + FdWindow - 1
           end == FdWindowEnd(from)
<1>1. from \in FdItem /\ from \in Nat /\ from >= 1 /\ from <= FdLast
      /\ FdLast \in Nat /\ FdWindow \in Nat \ {0}
  BY FdNumbers DEF FdTyped, FdRunSet
<1>2. wide \in Nat
  BY <1>1
<1>3. end \in {FdLast, wide} /\ end <= FdLast /\ end <= wide /\ end \in Nat
  <2>1. end = Min({FdLast, wide})
    BY DEF FdWindowEnd
  <2>2. \E m \in {FdLast, wide} : \A y \in {FdLast, wide} : m =< y
    BY <1>1, <1>2
  <2>3. end \in {FdLast, wide} /\ \A y \in {FdLast, wide} : end =< y
    BY <2>1, <2>2 DEF Min
  <2> HIDE DEF end, wide
  <2> QED
    BY <1>1, <1>2, <2>3
<1>4. /\ FdNextWindow(from) = IF fdReader = "postings" THEN end ELSE end + 1
      /\ FdLastWindow(from) => (fdReader \in FdByWindow => end >= FdLast)
      /\ ~FdLastWindow(from) => fdReader \in FdByWindow /\ FdNextWindow(from) <= FdLast
  <2>1. FdNextWindow(from) = IF fdReader = "postings" THEN end ELSE end + 1
    BY DEF FdNextWindow
  <2>2. \/ fdReader = "postings" /\ FdNextWindow(from) = end
        \/ fdReader # "postings" /\ FdNextWindow(from) = end + 1
    BY <2>1
  <2> HIDE DEF end, wide
  <2>3. ASSUME FdLastWindow(from), fdReader \in FdByWindow
        PROVE  end >= FdLast
    <3>1. \/ fdReader = "postings" /\ FdNextWindow(from) >= FdLast
          \/ fdReader # "postings" /\ FdNextWindow(from) > FdLast
      BY <2>3 DEF FdLastWindow
    <3> QED
      BY <3>1, <2>2, <1>1, <1>3
  <2>4. ASSUME ~FdLastWindow(from)
        PROVE  fdReader \in FdByWindow /\ FdNextWindow(from) <= FdLast
    <3>1. /\ fdReader \in FdByWindow
          /\ \/ fdReader = "postings" /\ ~ (FdNextWindow(from) >= FdLast)
             \/ fdReader # "postings" /\ ~ (FdNextWindow(from) > FdLast)
      BY <2>4 DEF FdLastWindow
    <3> QED
      BY <3>1, <2>2, <1>1, <1>3
  <2> QED
    BY <2>1, <2>3, <2>4
<1>5. \A x \in FdItem : x \in Nat /\ x >= 1 /\ x <= FdLast
  BY FdNumbers
<1>6. \A x \in fdListed : x \in FdItem /\ (x \in FdInWindow(from) <=>
                                            (fdReader \in FdByWindow => from <= x /\ x <= end))
  BY <1>1, <1>3, <1>5 DEF FdInWindow, FdTyped
<1> HIDE DEF end, wide, from
<1>9. ASSUME NEW x \in fdListed, ~ (x < from)
      PROVE  x \in Nat /\ from <= x /\ x <= FdLast
  <2>1. x \in FdItem
    BY <1>6
  <2>2. x \in Nat /\ x <= FdLast
    BY <2>1, <1>5
  <2> QED
    BY <2>2, <1>1, <1>9
<1>7. ASSUME FdLastWindow(from), NEW x \in fdListed, ~ (x < from)
      PROVE  x \in FdInWindow(from)
  <2>1. x \in Nat /\ x <= FdLast /\ from <= x
    BY <1>7, <1>9
  <2>2. fdReader \in FdByWindow => end >= FdLast
    BY <1>4, <1>7
  <2>3. fdReader \in FdByWindow => x <= end
    BY <2>1, <2>2, <1>1, <1>3
  <2> QED
    BY <2>1, <2>3, <1>6, <1>7
<1>8. ASSUME ~FdLastWindow(from)
      PROVE  /\ fdReader \in FdByWindow /\ FdNextWindow(from) \in FdItem
             /\ \A x \in fdListed : x < FdNextWindow(from) => x < from \/ x \in FdInWindow(from)
  <2>1. fdReader \in FdByWindow
    BY <1>4, <1>8
  <2>2. FdNextWindow(from) \in 1..FdLast
    <3>1. end >= 1
      <4>1. wide >= 1
        BY <1>1 DEF wide
      <4> QED
        BY <4>1, <1>1, <1>2, <1>3
    <3>2. FdNextWindow(from) <= FdLast
      BY <1>4, <1>8
    <3>3. FdNextWindow(from) \in {end, end + 1}
      BY <1>4
    <3> QED
      BY <3>1, <3>2, <3>3, <1>1, <1>3
  <2>3. ASSUME NEW x \in fdListed, x < FdNextWindow(from), ~ (x < from)
        PROVE  x \in FdInWindow(from)
    <3>1. x \in Nat /\ from <= x
      BY <2>3, <1>9
    <3>2. x <= end
      BY <3>1, <2>3, <1>3, <1>4
    <3> QED
      BY <3>1, <3>2, <2>3, <1>6
  <2> QED
    BY <2>1, <2>2, <2>3 DEF FdItem
<1> QED
  BY <1>3, <1>7, <1>8 DEF from, end

\* Every reader goes on, ends or raises.  From an answer without items only readers by page token
\* go on, and one that ends with an answer that is no object is silent on it.
LEMMA FdVerdicts ==
  ASSUME FdAssumption, FdTyped, NEW a
  PROVE  /\ FdVerdict(a) \in {"end", "raise", "next"}
         /\ a.items = {} /\ FdVerdict(a) = "next" =>
              a.next # FdNone /\ fdReader \in {"campaigns", "paged", "orders", "reviews"}
         /\ a.items = {} /\ ~a.ok /\ FdVerdict(a) = "end" => "noObject" \in FdSilentOn(fdReader)
<1>1. a.items = {} => Cardinality(a.items) < FdPage
  BY FS_EmptySet, FdNumbers
<1>2. CASE fdReader = "postings"
  <2>1. FdVerdict(a) = FdPostings(a)
    BY <1>2 DEF FdVerdict
  <2>2. FdPostings(a) \in {"end", "raise", "next"} /\ (a.items = {} => FdPostings(a) # "next")
    BY <1>1 DEF FdPostings
  <2>3. "noObject" \in FdSilentOn(fdReader)
    BY <1>2 DEF FdSilentOn
  <2> QED
    BY <1>2, <2>1, <2>2, <2>3
<1>3. CASE fdReader = "stocks"
  <2>1. FdVerdict(a) = FdStocks(a)
    BY <1>3 DEF FdVerdict
  <2>2. FdStocks(a) \in {"end", "raise", "next"} /\ (a.items = {} => FdStocks(a) # "next")
    BY <1>1 DEF FdStocks
  <2>3. "noObject" \in FdSilentOn(fdReader)
    BY <1>3 DEF FdSilentOn
  <2> QED
    BY <1>3, <2>1, <2>2, <2>3
<1>4. CASE fdReader = "ids"
  <2>1. FdVerdict(a) = FdIds(a)
    BY <1>4 DEF FdVerdict
  <2>2. FdIds(a) \in {"end", "raise", "next"} /\ (a.items = {} => FdIds(a) # "next")
    BY <1>1 DEF FdIds
  <2>3. "noObject" \in FdSilentOn(fdReader)
    BY <1>4 DEF FdSilentOn
  <2> QED
    BY <1>4, <2>1, <2>2, <2>3
<1>5. CASE fdReader = "attributes"
  <2>1. FdVerdict(a) = FdAttributes(a)
    BY <1>5 DEF FdVerdict
  <2>2. FdAttributes(a) \in {"end", "raise", "next"} /\ (a.items = {} => FdAttributes(a) # "next")
    BY <1>1 DEF FdAttributes
  <2>3. "noObject" \in FdSilentOn(fdReader)
    BY <1>5 DEF FdSilentOn
  <2> QED
    BY <1>5, <2>1, <2>2, <2>3
<1>6. CASE fdReader = "accruals"
  <2>1. FdVerdict(a) = FdAccruals(a)
    BY <1>6 DEF FdVerdict
  <2>2. FdAccruals(a) \in {"end", "raise", "next"} /\ (a.items = {} => FdAccruals(a) # "next")
    BY <1>1 DEF FdAccruals
  <2>3. "noObject" \in FdSilentOn(fdReader)
    BY <1>6 DEF FdSilentOn
  <2> QED
    BY <1>6, <2>1, <2>2, <2>3
<1>7. CASE fdReader = "campaigns"
  <2>1. FdVerdict(a) = FdCampaigns(a)
    BY <1>7 DEF FdVerdict
  <2>2. FdCampaigns(a) \in {"end", "raise", "next"} /\ (FdCampaigns(a) = "next" => a.next # FdNone)
    BY DEF FdCampaigns
  <2>3. "noObject" \in FdSilentOn(fdReader)
    BY <1>7 DEF FdSilentOn
  <2> QED
    BY <1>7, <2>1, <2>2, <2>3
<1>8. CASE fdReader = "paged"
  <2>1. FdVerdict(a) = FdPaged(a)
    BY <1>8 DEF FdVerdict
  <2>2. FdPaged(a) \in {"end", "raise", "next"} /\ (FdPaged(a) = "next" => a.next # FdNone)
    BY DEF FdPaged, FdCampaigns
  <2>3. ~a.ok => FdPaged(a) # "end"
    BY DEF FdPaged, FdCampaigns
  <2> QED
    BY <1>8, <2>1, <2>2, <2>3
<1>9. CASE fdReader = "orders"
  <2>1. FdVerdict(a) = FdPaged(a)
    BY <1>9 DEF FdVerdict
  <2>2. FdPaged(a) \in {"end", "raise", "next"} /\ (FdPaged(a) = "next" => a.next # FdNone)
    BY DEF FdPaged, FdCampaigns
  <2>3. ~a.ok => FdPaged(a) # "end"
    BY DEF FdPaged, FdCampaigns
  <2> QED
    BY <1>9, <2>1, <2>2, <2>3
<1>10. CASE fdReader = "report"
  <2>1. FdVerdict(a) = FdReport(a)
    BY <1>10 DEF FdVerdict
  <2>2. FdReport(a) \in {"end", "raise", "next"} /\ (a.items = {} => FdReport(a) # "next")
    BY <1>1 DEF FdReport
  <2>3. "noObject" \in FdSilentOn(fdReader)
    BY <1>10 DEF FdSilentOn
  <2> QED
    BY <1>10, <2>1, <2>2, <2>3
<1>11. CASE fdReader = "goods"
  <2>1. FdVerdict(a) = FdGoods(a)
    BY <1>11 DEF FdVerdict
  <2>2. FdGoods(a) \in {"end", "raise", "next"} /\ (a.items = {} => FdGoods(a) # "next")
    BY <1>1 DEF FdGoods
  <2>3. "noObject" \in FdSilentOn(fdReader)
    BY <1>11 DEF FdSilentOn
  <2> QED
    BY <1>11, <2>1, <2>2, <2>3
<1>12. CASE fdReader = "cards"
  <2>1. FdVerdict(a) = FdCards(a)
    BY <1>12 DEF FdVerdict
  <2>2. FdCards(a) \in {"end", "raise", "next"} /\ (a.items = {} => FdCards(a) # "next")
    BY <1>1 DEF FdCards
  <2>3. ~a.ok => FdCards(a) # "end"
    BY DEF FdCards
  <2> QED
    BY <1>12, <2>1, <2>2, <2>3
<1>13. CASE fdReader = "feedbacks"
  <2>1. FdVerdict(a) = FdFeedbacks(a)
    BY <1>13 DEF FdVerdict
  <2>2. FdFeedbacks(a) \in {"end", "raise", "next"} /\ (a.items = {} => FdFeedbacks(a) # "next")
    BY <1>1 DEF FdFeedbacks
  <2>3. "noObject" \in FdSilentOn(fdReader)
    BY <1>13 DEF FdSilentOn
  <2> QED
    BY <1>13, <2>1, <2>2, <2>3
<1>14. CASE fdReader = "reviews"
  <2>1. FdVerdict(a) = FdReviews(a)
    BY <1>14 DEF FdVerdict
  <2>2. FdReviews(a) \in {"end", "raise", "next"} /\ (FdReviews(a) = "next" => a.next # FdNone)
    BY DEF FdReviews
  <2>3. "noObject" \in FdSilentOn(fdReader)
    BY <1>14 DEF FdSilentOn
  <2> QED
    BY <1>14, <2>1, <2>2, <2>3
<1> QED
  BY <1>2, <1>3, <1>4, <1>5, <1>6, <1>7, <1>8, <1>9, <1>10, <1>11,
     <1>12, <1>13, <1>14 DEF FdTyped, FdAssumption

\* How a reader by place goes on from a page, and for what it ends.
LEMMA FdVerdictSays ==
  ASSUME FdAssumption, FdTyped, fdReader \notin FdByOffset, NEW at \in Nat, NEW a, FdSays(a, at)
  PROVE  /\ FdVerdict(a) = "next" => a.items # {} /\ FdPlace(a) = Max(a.items)
         /\ FdVerdict(a) = "end" =>
              \/ FdRest(at) = a.items
              \/ /\ fdReader = "stocks" /\ a.items # {} /\ a.next # FdNone
                 /\ a.next = fdRun.at \/ fdRun.count + Cardinality(a.items) >= a.total
              \/ /\ fdReader = "attributes" /\ a.items # {} /\ a.next # FdNone
                 /\ a.next = fdRun.at \/ FdCapped
              \/ fdReader = "reviews" /\ FdCapped /\ a.more
<1>1. /\ a.ok /\ Cardinality(a.items) \in Nat
      /\ ~a.more \/ a.items = {} \/ a.next = FdNone \/ Cardinality(a.items) < FdPage =>
           FdRest(at) = a.items
      /\ a.next # FdNone => a.items # {} /\ a.next = Max(a.items)
  BY DEF FdSays
<1>2. ~ (Cardinality(a.items) < FdPage) => a.items # {}
  <2>1. a.items = {} => Cardinality(a.items) = 0
    BY FS_EmptySet
  <2> QED
    BY <2>1, FdNumbers
<1>3. CASE fdReader = "postings"
  <2>1. FdVerdict(a) = FdPostings(a)
    BY <1>3 DEF FdVerdict
  <2>2. FdPlace(a) = a.next
    BY <1>3 DEF FdPlace, FdByOffset
  <2>3. FdPostings(a) = "next" => a.next # FdNone
    BY <1>1 DEF FdPostings
  <2>4. FdPostings(a) = "end" => \/ ~a.more \/ a.items = {} \/ a.next = FdNone
                           \/ Cardinality(a.items) < FdPage
    BY <1>1 DEF FdPostings
  <2> QED
    BY <1>3, <1>1, <1>2, <2>1, <2>2, <2>3, <2>4
<1>4. CASE fdReader = "stocks"
  <2>1. FdVerdict(a) = FdStocks(a)
    BY <1>4 DEF FdVerdict
  <2>2. FdPlace(a) = a.next
    BY <1>4 DEF FdPlace, FdByOffset
  <2>3. FdStocks(a) = "next" => a.next # FdNone
    BY <1>1 DEF FdStocks
  <2>4. FdStocks(a) = "end" => \/ a.items = {} \/ a.next = FdNone
                             \/ a.next = fdRun.at
                             \/ fdRun.count + Cardinality(a.items) >= a.total
    BY <1>1 DEF FdStocks
  <2> QED
    BY <1>4, <1>1, <1>2, <2>1, <2>2, <2>3, <2>4
<1>5. CASE fdReader = "ids"
  <2>1. FdVerdict(a) = FdIds(a)
    BY <1>5 DEF FdVerdict
  <2>2. FdPlace(a) = a.next
    BY <1>5 DEF FdPlace, FdByOffset
  <2>3. FdIds(a) = "next" => a.next # FdNone
    BY <1>1 DEF FdIds
  <2>4. FdIds(a) = "end" => \/ ~a.more \/ a.items = {} \/ a.next = FdNone
                           \/ Cardinality(a.items) < FdPage
    BY <1>1 DEF FdIds
  <2> QED
    BY <1>5, <1>1, <1>2, <2>1, <2>2, <2>3, <2>4
<1>6. CASE fdReader = "attributes"
  <2>1. FdVerdict(a) = FdAttributes(a)
    BY <1>6 DEF FdVerdict
  <2>2. FdPlace(a) = a.next
    BY <1>6 DEF FdPlace, FdByOffset
  <2>3. FdAttributes(a) = "next" => a.next # FdNone
    BY <1>1 DEF FdAttributes
  <2>4. FdAttributes(a) = "end" => \/ a.items = {} \/ a.next = FdNone
                                 \/ a.next = fdRun.at \/ FdCapped
    BY <1>1 DEF FdAttributes
  <2> QED
    BY <1>6, <1>1, <1>2, <2>1, <2>2, <2>3, <2>4
<1>7. CASE fdReader = "accruals"
  <2>1. FdVerdict(a) = FdAccruals(a)
    BY <1>7 DEF FdVerdict
  <2>2. FdPlace(a) = a.next
    BY <1>7 DEF FdPlace, FdByOffset
  <2>3. FdAccruals(a) = "next" => a.next # FdNone
    BY <1>1 DEF FdAccruals
  <2>4. FdAccruals(a) = "end" => \/ ~a.more \/ a.items = {} \/ a.next = FdNone
                           \/ Cardinality(a.items) < FdPage
    BY <1>1 DEF FdAccruals
  <2> QED
    BY <1>7, <1>1, <1>2, <2>1, <2>2, <2>3, <2>4
<1>8. CASE fdReader = "paged"
  <2>1. FdVerdict(a) = FdPaged(a)
    BY <1>8 DEF FdVerdict
  <2>2. FdPlace(a) = a.next
    BY <1>8 DEF FdPlace, FdByOffset
  <2>3. FdPaged(a) = "next" => a.next # FdNone
    BY <1>1 DEF FdPaged, FdCampaigns
  <2>4. FdPaged(a) = "end" => \/ ~a.more \/ a.items = {} \/ a.next = FdNone
                           \/ Cardinality(a.items) < FdPage
    BY <1>1 DEF FdPaged, FdCampaigns
  <2> QED
    BY <1>8, <1>1, <1>2, <2>1, <2>2, <2>3, <2>4
<1>9. CASE fdReader = "orders"
  <2>1. FdVerdict(a) = FdPaged(a)
    BY <1>9 DEF FdVerdict
  <2>2. FdPlace(a) = a.next
    BY <1>9 DEF FdPlace, FdByOffset
  <2>3. FdPaged(a) = "next" => a.next # FdNone
    BY <1>1 DEF FdPaged, FdCampaigns
  <2>4. FdPaged(a) = "end" => \/ ~a.more \/ a.items = {} \/ a.next = FdNone
                           \/ Cardinality(a.items) < FdPage
    BY <1>1 DEF FdPaged, FdCampaigns
  <2> QED
    BY <1>9, <1>1, <1>2, <2>1, <2>2, <2>3, <2>4
<1>10. CASE fdReader = "report"
  <2>1. FdVerdict(a) = FdReport(a)
    BY <1>10 DEF FdVerdict
  <2>2. FdPlace(a) = Max(a.items)
    BY <1>10 DEF FdPlace, FdByOffset
  <2>3. FdReport(a) = "next" => ~ (Cardinality(a.items) < FdPage)
    BY <1>1 DEF FdReport
  <2>4. FdReport(a) = "end" => \/ ~a.more \/ a.items = {} \/ a.next = FdNone
                           \/ Cardinality(a.items) < FdPage
    BY <1>1 DEF FdReport
  <2> QED
    BY <1>10, <1>1, <1>2, <2>1, <2>2, <2>3, <2>4
<1>11. CASE fdReader = "cards"
  <2>1. FdVerdict(a) = FdCards(a)
    BY <1>11 DEF FdVerdict
  <2>2. FdPlace(a) = Max(a.items)
    BY <1>11 DEF FdPlace, FdByOffset
  <2>3. FdCards(a) = "next" => ~ (Cardinality(a.items) < FdPage)
    BY <1>1 DEF FdCards
  <2>4. FdCards(a) = "end" => \/ ~a.more \/ a.items = {} \/ a.next = FdNone
                           \/ Cardinality(a.items) < FdPage
    BY <1>1 DEF FdCards
  <2> QED
    BY <1>11, <1>1, <1>2, <2>1, <2>2, <2>3, <2>4
<1>12. CASE fdReader = "reviews"
  <2>1. FdVerdict(a) = FdReviews(a)
    BY <1>12 DEF FdVerdict
  <2>2. FdPlace(a) = a.next
    BY <1>12 DEF FdPlace, FdByOffset
  <2>3. FdReviews(a) = "next" => a.next # FdNone
    BY <1>1 DEF FdReviews
  <2>4. FdReviews(a) = "end" => ~a.more \/ a.next = FdNone \/ (FdCapped /\ a.more)
    BY <1>1 DEF FdReviews
  <2> QED
    BY <1>12, <1>1, <1>2, <2>1, <2>2, <2>3, <2>4
<1>13. CASE fdReader = "campaigns"
  <2>1. FdVerdict(a) = FdCampaigns(a)
    BY <1>13 DEF FdVerdict
  <2>2. FdPlace(a) = a.next
    BY <1>13 DEF FdPlace, FdByOffset
  <2>3. FdCampaigns(a) = "next" => a.next # FdNone
    BY <1>1 DEF FdCampaigns
  <2>4. FdCampaigns(a) = "end" => a.next = FdNone
    BY <1>1 DEF FdCampaigns
  <2> QED
    BY <1>13, <1>1, <1>2, <2>1, <2>2, <2>3, <2>4
<1> QED
  BY <1>13, <1>3, <1>4, <1>5, <1>6, <1>7, <1>8, <1>9, <1>10, <1>11, <1>12
  DEF FdTyped, FdAssumption, FdByOffset

\* What an answer does to the reader, when nothing befell the read that it is silent on (`good`).
FdTells(a, good) ==
  LET got == fdRun.got \cup a.items IN
  /\ a.items \in SUBSET FdItem /\ Cardinality(a.items) \in Nat
  /\ FdVerdict(a) \in {"end", "raise", "next"}
  /\ FdVerdict(a) = "end" /\ good =>
       \A x \in fdAlways : x < fdRun.from \/ x \in FdInWindow(fdRun.from) => x \in got
  /\ FdVerdict(a) = "next" /\ fdReader \notin FdByOffset =>
       /\ FdPlace(a) \in FdItem
       /\ good => \A x \in fdAlways : x < fdRun.from \/ x <= FdPlace(a) => x \in got
  /\ FdVerdict(a) = "next" /\ fdReader \in FdByOffset =>
       /\ FdPlace(a) = fdRun.at + FdPage
       /\ good => \A x \in fdAlways : Cardinality(FdBefore(x)) < fdRun.at + FdPage => x \in got
  /\ FdVerdict(a) = "next" /\ fdReader = "stocks" /\ good =>
       /\ a.items \subseteq fdListed /\ a.items \cap fdRun.got = {}
       /\ \A x \in got : x <= FdPlace(a)
  /\ FdVerdict(a) = "next" /\ fdReader = "attributes" /\ good =>
       FdPlace(a) >= fdRun.at + FdPage \/ fdAlways \subseteq got

\* An answer that is no object never makes a reader go on, and one that ends is silent on it.
LEMMA FdNoObjectTells ==
  ASSUME FdAssumption, FdTyped, NEW good \in BOOLEAN, "noObject" \in FdSilentOn(fdReader) => ~good
  PROVE  FdTells(FdNoObject, good)
<1>1. /\ FdNoObject.items = {} /\ Cardinality(FdNoObject.items) = 0
      /\ ~FdNoObject.ok /\ FdNoObject.next = FdNone
  BY FS_EmptySet DEF FdNoObject
<1>2. /\ FdVerdict(FdNoObject) \in {"end", "raise"}
      /\ FdVerdict(FdNoObject) = "end" => ~good
  BY <1>1, FdVerdicts
<1> QED
  BY <1>1, <1>2 DEF FdTells

\* An object without the list sends a reader to a place at most, and every reader is silent on it.
LEMMA FdNoListTells ==
  ASSUME FdAssumption, FdTyped, NEW at, NEW a \in FdNoList(at)
  PROVE  FdTells(a, FALSE)
<1>1. \A b \in FdAnswers(at) : b.next # FdNone => b.next \in FdItem
  <2>1. FdAfter(at) \in SUBSET FdItem
    BY DEF FdAfter, FdInWindow, FdTyped
  <2>2. FdFirst(FdAfter(at)) \in SUBSET FdItem
    BY <2>1, FdFirstItems
  <2>3. FdFirst(FdAfter(at)) # {} => Max(FdFirst(FdAfter(at))) \in FdItem
    BY <2>2, FdItems
  <2> QED
    BY <2>3 DEF FdAnswers
<1>2. a.items = {} /\ Cardinality(a.items) = 0 /\ (a.next # FdNone => a.next \in FdItem)
  <2>1. CASE a = [FdNoObject EXCEPT !.ok = TRUE]
    BY <2>1, FS_EmptySet DEF FdNoObject
  <2>2. ASSUME NEW b \in FdAnswers(at), a = [b EXCEPT !.items = {}]
        PROVE  a.items = {} /\ Cardinality(a.items) = 0 /\ (a.next # FdNone => a.next \in FdItem)
    <3>1. a.items = {} /\ a.next = b.next
      BY <2>2 DEF FdAnswers
    <3> QED
      BY <3>1, <1>1, FS_EmptySet
  <2> QED
    BY <2>1, <2>2 DEF FdNoList
<1>3. /\ FdVerdict(a) \in {"end", "raise", "next"}
      /\ FdVerdict(a) = "next" =>
           a.next # FdNone /\ fdReader \in {"campaigns", "paged", "orders", "reviews"}
  BY <1>2, FdVerdicts
<1>4. FdVerdict(a) = "next" => fdReader \notin FdByOffset /\ FdPlace(a) = a.next
  BY <1>3 DEF FdPlace, FdByOffset
<1> QED
  BY <1>2, <1>3, <1>4 DEF FdTells

\* Every reader is silent on an object without the list.
LEMMA FdNoListSilent ==
  ASSUME FdAssumption, FdTyped
  PROVE  "noList" \in FdSilentOn(fdReader)
BY DEF FdTyped, FdAssumption, FdSilentOn

\* A page, from where the reader is or from a place it has been at.
LEMMA FdPageTells ==
  ASSUME FdAssumption, FdTyped, fdRun.pc = "page", FdReading, fdReader \notin FdByOffset,
         NEW at \in fdRun.seen \cup {FdNone}, NEW a \in FdAnswers(at), NEW good \in BOOLEAN,
         good => /\ FdGood
                 /\ at # fdRun.at => "replay" \notin FdSilentOn(fdReader)
                 /\ FdHitCap(a) \cap FdSilentOn(fdReader) = {}
  PROVE  FdTells(a, good)
<1> DEFINE from == fdRun.from
           got == fdRun.got \cup a.items
<1>1. FdBehind
  BY DEF FdReading
<1>2. /\ at \in Nat /\ fdRun.at \in Nat /\ from \in Nat /\ fdRun.seen \subseteq FdItem
      /\ fdAlways \subseteq fdListed /\ fdListed \subseteq FdItem
      /\ fdRun.got \in SUBSET FdItem /\ fdRun.pages \in Nat
  BY <1>1, FdNumbers DEF FdBehind, FdTyped, FdRunSet, FdNone
<1>3. FdSays(a, at)
  BY <1>2, FdPageSays
<1>4. /\ a.items \in SUBSET FdItem /\ Cardinality(a.items) \in Nat
      /\ a.items \subseteq FdRest(at) /\ a.items \subseteq fdListed
  BY <1>3 DEF FdSays
<1>5. FdVerdict(a) \in {"end", "raise", "next"}
  BY FdVerdicts
<1>6. good => \A x \in fdAlways : x < from \/ x <= at => x \in fdRun.got
  BY <1>1 DEF FdBehind
<1>7. \A x \in fdAlways : x \in FdInWindow(from) /\ ~ (x <= at) => x \in FdRest(at)
  <2>1. \A x \in fdAlways : x \in Nat
    BY <1>2, FdNumbers
  <2> QED
    BY <2>1, <1>2 DEF FdRest
<1>8. good /\ FdRest(at) = a.items =>
        \A x \in fdAlways : x < from \/ x \in FdInWindow(from) => x \in got
  BY <1>6, <1>7
<1>9. fdReader \notin FdByWindow => \A x \in fdAlways : x \in FdInWindow(from)
  BY <1>2 DEF FdInWindow
<1>10. a.next # FdNone => a.items # {} /\ a.next = Max(a.items)
  BY <1>3 DEF FdSays
<1>11. a.items # {} =>
         /\ Max(a.items) \in a.items /\ Max(a.items) \in Nat /\ Max(a.items) > at
         /\ \A x \in FdRest(at) : x <= Max(a.items) => x \in a.items
  <2>1. a.items # {} => /\ Max(a.items) \in a.items
                        /\ \A x \in FdRest(at) : x <= Max(a.items) => x \in a.items
    BY <1>3 DEF FdSays
  <2>2. \A y \in a.items : y \in Nat /\ y > at
    BY <1>4, FdNumbers DEF FdRest
  <2> QED
    BY <2>1, <2>2
<1>12. good /\ fdReader \in {"stocks", "attributes"} => at = fdRun.at
  <2>1. fdReader \in {"stocks", "attributes"} => "replay" \in FdSilentOn(fdReader)
    BY DEF FdSilentOn
  <2> QED
    BY <2>1
<1>13. FdRest(at) # a.items => a.items # {} /\ Max(a.items) >= at + FdPage
  BY <1>3 DEF FdSays
<1>14. fdReader = "stocks" /\ good =>
         /\ fdRun.got \subseteq fdListed /\ a.items \cap fdRun.got = {}
         /\ \A x \in fdRun.got : x <= at
         /\ fdRun.count = Cardinality(fdRun.got)
  <2> SUFFICES ASSUME fdReader = "stocks", good
               PROVE  /\ fdRun.got \subseteq fdListed /\ a.items \cap fdRun.got = {}
                      /\ \A x \in fdRun.got : x <= at
                      /\ fdRun.count = Cardinality(fdRun.got)
    OBVIOUS
  <2>1. /\ fdRun.got \subseteq fdListed /\ fdRun.count = Cardinality(fdRun.got)
        /\ \A x \in fdRun.got : x <= at
    BY <1>12 DEF FdReading, FdTotalled
  <2>2. \A x \in fdRun.got : x \in Nat
    BY <1>2, FdNumbers
  <2>3. \A x \in a.items : x \in Nat /\ x > at
    BY <1>4, FdNumbers DEF FdRest
  <2>4. ASSUME NEW x \in a.items, x \in fdRun.got
        PROVE  FALSE
    BY <2>1, <2>3, <2>4, <1>2
  <2> QED
    BY <2>1, <2>4
<1>15. ASSUME FdVerdict(a) = "end", good
       PROVE  \A x \in fdAlways : x < from \/ x \in FdInWindow(from) => x \in got
  <2>1. \/ FdRest(at) = a.items
        \/ /\ fdReader = "stocks" /\ a.items # {} /\ a.next # FdNone
           /\ a.next = fdRun.at \/ fdRun.count + Cardinality(a.items) >= a.total
        \/ /\ fdReader = "attributes" /\ a.items # {} /\ a.next # FdNone
           /\ a.next = fdRun.at \/ FdCapped
        \/ fdReader = "reviews" /\ FdCapped /\ a.more
    BY <1>2, <1>3, <1>15, FdVerdictSays
  <2>2. CASE FdRest(at) = a.items
    BY <2>2, <1>8, <1>15
  <2>3. CASE /\ fdReader = "stocks" /\ a.items # {} /\ a.next # FdNone
             /\ a.next = fdRun.at \/ fdRun.count + Cardinality(a.items) >= a.total
    <3>1. a.next # fdRun.at
      BY <2>3, <1>2, <1>10, <1>11, <1>12, <1>15
    <3>2. /\ fdRun.got \subseteq fdListed /\ a.items \cap fdRun.got = {}
          /\ fdRun.count = Cardinality(fdRun.got)
      BY <2>3, <1>14, <1>15
    <3>3. got \subseteq fdListed
      BY <3>2, <1>4
    <3>4. /\ IsFiniteSet(fdRun.got) /\ IsFiniteSet(a.items) /\ IsFiniteSet(fdListed)
          /\ Cardinality(fdRun.got) \in Nat /\ Cardinality(fdListed) \in Nat
      BY <1>2, <1>4, FdItems
    <3>5. fdRun.got \cap a.items = {}
      BY <3>2
    <3>6. Cardinality(got) = Cardinality(fdRun.got) + Cardinality(a.items)
      <4>1. Cardinality(got) = Cardinality(fdRun.got) + Cardinality(a.items) - 0
        BY <3>4, <3>5, FS_Union, FS_EmptySet
      <4> HIDE DEF got
      <4> QED
        BY <4>1, <3>4, <1>4
    <3>7. a.total = Cardinality(fdListed)
      BY <1>3 DEF FdSays
    <3>8. Cardinality(got) >= Cardinality(fdListed)
      BY <2>3, <3>1, <3>2, <3>6, <3>7
    <3>9. got = fdListed
      <4> HIDE DEF got
      <4>1. Cardinality(got) <= Cardinality(fdListed)
            /\ (Cardinality(got) = Cardinality(fdListed) => got = fdListed)
        BY <3>3, <3>4, FS_Subset
      <4>2. Cardinality(got) \in Nat
        BY <3>3, <3>4, FS_Subset, FS_CardinalityType
      <4> QED
        BY <4>1, <4>2, <3>4, <3>8
    <3> QED
      BY <3>9, <1>2
  <2>4. CASE /\ fdReader = "attributes" /\ a.items # {} /\ a.next # FdNone
             /\ a.next = fdRun.at \/ FdCapped
    <3>1. at = fdRun.at /\ fdRun.pages + 1 = FdCap
      BY <2>4, <1>2, <1>10, <1>11, <1>12, <1>15 DEF FdCapped
    <3>2. fdRun.pages * FdPage <= at \/ fdAlways \subseteq fdRun.got
      BY <2>4, <3>1, <1>15 DEF FdReading, FdPagesFull
    <3>3. CASE fdAlways \subseteq fdRun.got
      BY <3>3
    <3>4. CASE fdRun.pages * FdPage <= at
      <4>1. FdCap * FdPage = fdRun.pages * FdPage + FdPage
        BY <3>1, <1>2, FdNumbers
      <4>2. FdCap * FdPage > FdLast
        BY DEF FdAssumption
      <4>3. fdRun.pages * FdPage \in Nat
        BY <1>2, FdNumbers
      <4> DEFINE before == fdRun.pages * FdPage
                 all == FdCap * FdPage
      <4> HIDE DEF before, all
      <4>4. at + FdPage > FdLast
        <5>1. all = before + FdPage /\ all > FdLast /\ before <= at /\ before \in Nat
          BY <3>4, <4>1, <4>2, <4>3 DEF before, all
        <5> QED
          BY <5>1, <1>2, FdNumbers
      <4>5. Max(a.items) \in FdItem /\ Max(a.items) <= FdLast
        BY <2>4, <1>4, <1>11, FdNumbers
      <4>6. FdRest(at) = a.items
        BY <4>4, <4>5, <1>2, <1>13, FdNumbers
      <4> QED
        BY <4>6, <1>8, <1>15
    <3> QED
      BY <3>2, <3>3, <3>4
  <2>5. CASE fdReader = "reviews" /\ FdCapped /\ a.more
    <3>1. FdHitCap(a) = {"cap"} /\ "cap" \in FdSilentOn(fdReader)
      BY <2>5, <1>15 DEF FdHitCap, FdSilentOn
    <3> QED
      BY <3>1, <1>15
  <2> QED
    BY <2>1, <2>2, <2>3, <2>4, <2>5
<1>16. ASSUME FdVerdict(a) = "next"
       PROVE  /\ FdPlace(a) = Max(a.items) /\ a.items # {} /\ FdPlace(a) \in FdItem
              /\ good => \A x \in fdAlways : x < from \/ x <= FdPlace(a) => x \in got
  <2>1. FdPlace(a) = Max(a.items) /\ a.items # {}
    BY <1>2, <1>3, <1>16, FdVerdictSays
  <2>2. FdPlace(a) \in a.items /\ FdPlace(a) \in FdItem
    BY <2>1, <1>4, <1>11
  <2>3. ASSUME good, NEW x \in fdAlways, x <= FdPlace(a), ~ (x < from), ~ (x <= at)
        PROVE  x \in a.items
    <3>1. FdPlace(a) \in FdInWindow(from)
      BY <2>2, <1>4 DEF FdRest
    <3>2. x \in FdInWindow(from)
      <4>1. x \in fdListed /\ x \in Nat
        BY <1>2, FdNumbers
      <4>2. ASSUME fdReader \in FdByWindow
            PROVE  x \in from..FdWindowEnd(from)
        <5>1. FdPlace(a) \in from..FdWindowEnd(from) /\ FdPlace(a) \in Nat
          BY <3>1, <2>2, <4>2, FdNumbers DEF FdInWindow
        <5>2. from <= x
          BY <2>3, <4>1, <1>2
        <5>3. x \in Int /\ FdWindowEnd(from) \in Int
          BY <4>1, FdWindows
        <5> QED
          BY <5>1, <5>2, <5>3, <2>3
      <4> QED
        BY <4>1, <4>2 DEF FdInWindow
    <3>3. x \in FdRest(at)
      BY <3>2, <2>3, <1>7
    <3> QED
      BY <3>3, <2>1, <2>2, <2>3, <1>11
  <2>4. good => \A x \in fdAlways : x < from \/ x <= FdPlace(a) => x \in got
    BY <2>3, <1>6
  <2> QED
    BY <2>1, <2>2, <2>4
<1>17. ASSUME FdVerdict(a) = "next", fdReader = "stocks", good
       PROVE  /\ a.items \subseteq fdListed /\ a.items \cap fdRun.got = {}
              /\ \A x \in got : x <= FdPlace(a)
  <2>1. \A x \in fdRun.got : x \in Nat /\ x <= at
    BY <1>2, <1>14, <1>17, FdNumbers
  <2>2. FdPlace(a) \in Nat /\ FdPlace(a) > at
    BY <1>11, <1>16, <1>17
  <2>3. \A x \in fdRun.got : x <= FdPlace(a)
    BY <2>1, <2>2, <1>2
  <2>4. \A x \in a.items : x <= FdPlace(a)
    BY <1>3, <1>16, <1>17 DEF FdSays
  <2> QED
    BY <2>3, <2>4, <1>4, <1>14, <1>17
<1>18. ASSUME FdVerdict(a) = "next", fdReader = "attributes", good
       PROVE  FdPlace(a) >= fdRun.at + FdPage \/ fdAlways \subseteq got
  <2>1. CASE FdRest(at) = a.items
    <3>1. fdReader \notin FdByWindow
      BY <1>18 DEF FdByWindow
    <3> QED
      BY <2>1, <3>1, <1>8, <1>9, <1>18
  <2>2. CASE FdRest(at) # a.items
    BY <2>2, <1>12, <1>13, <1>16, <1>18
  <2> QED
    BY <2>1, <2>2
<1> HIDE DEF from, got
<1> QED
  BY <1>4, <1>5, <1>15, <1>16, <1>17, <1>18 DEF FdTells, from, got

\* A reader by offset, with what is before its offset, has with a page what is before the next.
LEMMA FdOffsetPage ==
  ASSUME FdAssumption, FdTyped, fdReader \in FdByOffset, NEW at \in Nat,
         NEW x \in fdListed, x \notin FdFirst(FdAfter(at))
  PROVE  \/ Cardinality(FdBefore(x)) < at
         \/ Cardinality(FdBefore(x)) >= at + FdPage /\ x \in FdAfter(at)
<1> DEFINE after == FdAfter(at)
           late == {y \in after : y < x}
<1>1. fdListed \in SUBSET FdItem /\ FdPage \in Nat \ {0} /\ FdItem \subseteq Nat
  BY FdNumbers DEF FdTyped
<1>2. after = {y \in fdListed : Cardinality(FdBefore(y)) >= at}
  <2>1. fdReader \notin FdByWindow
    BY DEF FdByWindow, FdByOffset
  <2>2. FdInWindow(fdRun.from) = fdListed
    BY <2>1 DEF FdInWindow
  <2> QED
    BY <2>2 DEF FdAfter, FdBefore
<1>3. \A y \in fdListed : FdBefore(y) \in SUBSET FdItem /\ Cardinality(FdBefore(y)) \in Nat
  <2>1. \A y \in fdListed : FdBefore(y) \in SUBSET FdItem
    BY <1>1 DEF FdBefore
  <2> QED
    BY <2>1, FdItems
<1> HIDE DEF after
<1>4. SUFFICES ASSUME ~ (Cardinality(FdBefore(x)) < at)
               PROVE  Cardinality(FdBefore(x)) >= at + FdPage /\ x \in after
  BY DEF after
<1>5. x \in after
  BY <1>2, <1>3, <1>4
<1>6. late \in SUBSET FdItem /\ Cardinality(late) \in Nat /\ IsFiniteSet(late)
  <2>1. late \in SUBSET FdItem
    BY <1>1, <1>2
  <2> QED
    BY <2>1, FdItems
<1>7. Cardinality(late) >= FdPage
  <2>1. ~ (Cardinality(late) < FdPage)
    BY <1>5 DEF FdFirst, after
  <2> QED
    BY <2>1, <1>1, <1>6
<1>8. late # {}
  BY <1>1, <1>7, FS_EmptySet
<1>9. PICK m \in late : \A y \in late : m <= y
  BY <1>6, <1>8, FdItems
<1>10. m \in fdListed /\ Cardinality(FdBefore(m)) >= at /\ m < x /\ m \in Nat /\ x \in Nat
  BY <1>1, <1>2, <1>9
<1>11. FdBefore(m) \cap late = {}
  <2>1. ASSUME NEW y \in FdBefore(m), y \in late
        PROVE  FALSE
    <3>1. m <= y /\ y < m /\ y \in Nat
      BY <2>1, <1>1, <1>9 DEF FdBefore
    <3> QED
      BY <3>1, <1>10
  <2> QED
    BY <2>1
<1>12. FdBefore(m) \cup late \subseteq FdBefore(x)
  <2>1. ASSUME NEW y \in FdBefore(m)
        PROVE  y \in FdBefore(x)
    <3>1. y \in fdListed /\ y \in Nat /\ y < m
      BY <2>1, <1>1 DEF FdBefore
    <3>2. y < x
      BY <3>1, <1>10
    <3> QED
      BY <3>1, <3>2 DEF FdBefore
  <2>2. late \subseteq FdBefore(x)
    BY <1>2 DEF FdBefore
  <2> QED
    BY <2>1, <2>2
<1> HIDE DEF late
<1> DEFINE front == FdBefore(m)
           both == front \cup late
           lower == FdBefore(x)
<1>13. front \in SUBSET FdItem /\ Cardinality(front) \in Nat /\ Cardinality(front) >= at
       /\ lower \in SUBSET FdItem /\ Cardinality(lower) \in Nat
  BY <1>3, <1>10
<1>14. front \cap late = {} /\ both \subseteq lower
  BY <1>11, <1>12
<1> HIDE DEF front, lower
<1>15. IsFiniteSet(front) /\ IsFiniteSet(lower)
  BY <1>13, FdItems
<1>16. Cardinality(both) = Cardinality(front) + Cardinality(late) - 0
  BY <1>6, <1>14, <1>15, FS_Union, FS_EmptySet
<1> HIDE DEF both
<1>17. Cardinality(both) <= Cardinality(lower)
  BY <1>14, <1>15, FS_Subset
<1>18. Cardinality(lower) >= at + FdPage
  BY <1>1, <1>6, <1>7, <1>13, <1>16, <1>17
<1> QED
  BY <1>5, <1>18 DEF lower

\* A page by offset, from where the reader is; from elsewhere it is a replay.
LEMMA FdOffsetTells ==
  ASSUME FdAssumption, FdTyped, fdRun.pc = "page", FdReading, fdReader \in FdByOffset,
         NEW at \in Nat, NEW a \in FdAnswers(at), NEW good \in BOOLEAN,
         good => FdGood /\ (at # fdRun.at => "replay" \notin FdSilentOn(fdReader))
  PROVE  FdTells(a, good)
<1> DEFINE got == fdRun.got \cup a.items
<1>1. /\ fdListed \in SUBSET FdItem /\ fdAlways \subseteq fdListed /\ fdRun.pages \in Nat
      /\ FdPage \in Nat \ {0} /\ fdRun.at \in Nat
  BY FdNumbers DEF FdTyped, FdRunSet
<1>2. good => at = fdRun.at
  BY DEF FdSilentOn, FdByOffset
<1>3. a.items = FdFirst(FdAfter(at))
  BY DEF FdAnswers
<1>4. FdAfter(at) \in SUBSET FdItem
  BY <1>1 DEF FdAfter, FdInWindow
<1>5. /\ a.items \in SUBSET FdItem /\ Cardinality(a.items) \in Nat
      /\ a.items # FdAfter(at) => Cardinality(a.items) >= FdPage
  BY <1>3, <1>4, FdFirstItems
<1>6. FdVerdict(a) \in {"end", "raise", "next"}
  BY FdVerdicts
<1>7. \A x \in fdListed : Cardinality(FdBefore(x)) \in Nat /\ Cardinality(FdBefore(x)) <= FdLast
  <2>1. ASSUME NEW x \in fdListed
        PROVE  Cardinality(FdBefore(x)) \in Nat /\ Cardinality(FdBefore(x)) <= FdLast
    <3>1. FdBefore(x) \subseteq 1..FdLast /\ FdBefore(x) \in SUBSET FdItem
      BY <1>1 DEF FdBefore, FdItem
    <3>2. IsFiniteSet(1..FdLast) /\ Cardinality(1..FdLast) = FdLast
      BY FdNumbers, FS_Interval
    <3>3. Cardinality(FdBefore(x)) <= FdLast
      BY <3>1, <3>2, FS_Subset
    <3> QED
      BY <3>1, <3>3, FdItems
  <2> QED
    BY <2>1
<1>8. /\ fdRun.at = fdRun.pages * FdPage
      /\ good => \A x \in fdAlways : Cardinality(FdBefore(x)) < fdRun.at => x \in fdRun.got
  BY DEF FdReading, FdPassed
<1>9. ASSUME good, NEW x \in fdAlways, x \notin got
      PROVE  Cardinality(FdBefore(x)) >= fdRun.at + FdPage /\ x \in FdAfter(at)
  <2>1. \/ Cardinality(FdBefore(x)) < at
        \/ Cardinality(FdBefore(x)) >= at + FdPage /\ x \in FdAfter(at)
    BY <1>1, <1>3, <1>9, FdOffsetPage
  <2> QED
    BY <2>1, <1>2, <1>8, <1>9
<1>10. FdVerdict(a) = "end" => Cardinality(a.items) < FdPage \/ FdCapped
  <2>1. CASE fdReader = "goods"
    BY <2>1 DEF FdVerdict, FdGoods
  <2>2. CASE fdReader = "feedbacks"
    BY <2>2 DEF FdVerdict, FdFeedbacks
  <2> QED
    BY <2>1, <2>2 DEF FdByOffset
<1>11. FdPlace(a) = fdRun.at + FdPage
  BY DEF FdPlace, FdByOffset
<1>12. ASSUME FdVerdict(a) = "end", good, NEW x \in fdAlways
       PROVE  x \in got
  <2>1. SUFFICES ASSUME x \notin got
                 PROVE  FALSE
    OBVIOUS
  <2>2. Cardinality(FdBefore(x)) >= fdRun.at + FdPage /\ x \in FdAfter(at)
    BY <2>1, <1>9, <1>12
  <2>3. CASE Cardinality(a.items) < FdPage
    <3>1. a.items = FdAfter(at)
      BY <2>3, <1>1, <1>5
    <3> QED
      BY <3>1, <2>1, <2>2
  <2>4. CASE FdCapped
    <3>1. FdCap * FdPage = fdRun.at + FdPage
      BY <2>4, <1>1, <1>8 DEF FdCapped
    <3>2. FdCap * FdPage > FdLast
      BY DEF FdAssumption
    <3>3. Cardinality(FdBefore(x)) \in Nat /\ Cardinality(FdBefore(x)) <= FdLast
      BY <1>1, <1>7
    <3>4. fdRun.at + FdPage > FdLast
      BY <3>1, <3>2
    <3> QED
      BY <3>3, <3>4, <2>2, <1>1, FdNumbers
  <2> QED
    BY <2>3, <2>4, <1>10, <1>12
<1>13. ASSUME good, NEW x \in fdAlways, Cardinality(FdBefore(x)) < fdRun.at + FdPage
       PROVE  x \in got
  <2>1. Cardinality(FdBefore(x)) \in Nat
    BY <1>1, <1>7
  <2> QED
    BY <2>1, <1>1, <1>9, <1>13
<1>14. fdReader # "stocks" /\ fdReader # "attributes"
  BY DEF FdByOffset
<1> HIDE DEF got
<1> QED
  BY <1>5, <1>6, <1>11, <1>12, <1>13, <1>14 DEF FdTells, got

\* A reader that takes an answer keeps what it has to.
LEMMA FdTakes ==
  ASSUME FdAssumption, FdTyped, FdReading, fdRun.pc = "page", NEW a, NEW good \in BOOLEAN,
         FdTells(a, good), FdGood' => good, FdTake(a), fdHit \subseteq fdHit',
         fdHit' \subseteq FdHits,
         fdFaults' \in 0..MaxFdFaults,
         UNCHANGED <<fdReader, fdListed, fdRaw, fdAlways, fdChanges>>
  PROVE  FdInv'
<1> DEFINE got == fdRun.got \cup a.items
           count == fdRun.count + Cardinality(a.items)
           read == [fdRun EXCEPT !.got = @ \cup a.items, !.count = @ + Cardinality(a.items),
                                 !.pages = @ + 1]
           last == FdLastWindow(fdRun.from)
<1>1. /\ a.items \in SUBSET FdItem /\ Cardinality(a.items) \in Nat
      /\ FdVerdict(a) \in {"end", "raise", "next"}
  BY DEF FdTells
<1>2. /\ fdRun \in FdRunSet /\ fdRun.pages \in Nat /\ fdRun.at \in Nat /\ fdRun.from \in FdItem
      /\ fdRun.seen \in SUBSET Nat /\ got \in SUBSET FdItem /\ count \in Nat
      /\ fdAlways \subseteq fdListed /\ fdListed \subseteq FdItem
  BY <1>1 DEF FdTyped, FdRunSet
<1>3. /\ read \in FdRunSet /\ read.at = fdRun.at /\ read.from = fdRun.from /\ read.seen = fdRun.seen
      /\ read.got = got /\ read.count = count /\ read.pages = fdRun.pages + 1
  <2>1. read = [fdRun EXCEPT !.got = got, !.count = count, !.pages = fdRun.pages + 1]
    OBVIOUS
  <2>2. fdRun.pages + 1 \in Nat
    BY <1>2
  <2> HIDE DEF read, got, count
  <2> QED
    BY <2>1, <2>2, <1>2 DEF FdRunSet
<1>4. FdGood' => FdGood
  BY DEF FdGood
<1>5. /\ FdVerdict(a) = "raise" => fdRun' = [read EXCEPT !.pc = "raised"]
      /\ FdVerdict(a) = "next" =>
           fdRun' = [read EXCEPT !.at = FdPlace(a), !.seen = @ \cup ({FdPlace(a)} \ {FdNone})]
      /\ FdVerdict(a) = "end" /\ last => fdRun' = [read EXCEPT !.pc = "returned"]
      /\ FdVerdict(a) = "end" /\ ~last =>
           fdRun' = [FdFresh(FdNextWindow(fdRun.from)) EXCEPT !.got = read.got]
  BY DEF FdTake
<1> HIDE DEF read, last
<1>6. ASSUME fdRun' \in FdRunSet, fdRun'.from = fdRun.from \/ fdReader \in FdByWindow
      PROVE  FdTyped'
  BY <1>6 DEF FdTyped
<1>7. CASE FdVerdict(a) = "raise"
  <2>1. fdRun' = [read EXCEPT !.pc = "raised"]
    BY <1>5, <1>7
  <2>2. fdRun' \in FdRunSet /\ fdRun'.pc = "raised" /\ fdRun'.from = fdRun.from
    BY <2>1, <1>3 DEF FdRunSet, FdPlaces
  <2>3. FdTyped'
    BY <2>2, <1>6
  <2> QED
    BY <2>2, <2>3 DEF FdInv, FdReading, FeedComplete
<1>8. CASE FdVerdict(a) = "end" /\ last
  <2>1. fdRun' = [read EXCEPT !.pc = "returned"]
    BY <1>5, <1>8
  <2>2. /\ fdRun' \in FdRunSet /\ fdRun'.pc = "returned" /\ fdRun'.from = fdRun.from
        /\ fdRun'.got = got
    BY <2>1, <1>3 DEF FdRunSet, FdPlaces
  <2>3. FdTyped'
    BY <2>2, <1>6
  <2>4. ASSUME good
        PROVE  fdAlways \subseteq got
    <3>1. \A x \in fdAlways : x < fdRun.from \/ x \in FdInWindow(fdRun.from)
      BY <1>2, <1>8, FdWindows DEF last
    <3>2. \A x \in fdAlways : x < fdRun.from \/ x \in FdInWindow(fdRun.from) => x \in got
      BY <2>4, <1>8 DEF FdTells
    <3> QED
      BY <3>1, <3>2
  <2>5. FeedComplete'
    BY <2>2, <2>4 DEF FeedComplete, FdGood
  <2> QED
    BY <2>2, <2>3, <2>5 DEF FdInv, FdReading
<1>9. CASE FdVerdict(a) = "end" /\ ~last
  <2> DEFINE from == FdNextWindow(fdRun.from)
  <2>1. fdRun' = [FdFresh(from) EXCEPT !.got = read.got]
    BY <1>5, <1>9
  <2>2. /\ fdReader \in FdByWindow /\ from \in FdItem
        /\ \A x \in fdListed : x < from => x < fdRun.from \/ x \in FdInWindow(fdRun.from)
    BY <1>9, FdWindows DEF last
  <2> HIDE DEF from
  <2>3. /\ fdRun' \in FdRunSet /\ fdRun'.pc = "page" /\ fdRun'.from = from /\ fdRun'.got = got
        /\ fdRun'.seen = {} /\ fdRun'.at = FdNone
    BY <2>1, <2>2, <1>2, <1>3 DEF FdRunSet, FdPlaces, FdFresh, FdNone
  <2>4. FdTyped'
    BY <2>2, <2>3, <1>6
  <2>5. fdReader \notin FdByOffset /\ fdReader # "stocks" /\ fdReader # "attributes"
    BY <2>2 DEF FdByWindow, FdByOffset
  <2>6. ASSUME good, NEW x \in fdAlways, x < from \/ x <= FdNone
        PROVE  x \in got
    <3>1. x < from
      BY <2>6, <1>2, FdNumbers DEF FdNone
    <3>2. x < fdRun.from \/ x \in FdInWindow(fdRun.from)
      BY <3>1, <2>2, <1>2
    <3> QED
      BY <3>2, <2>6, <1>9 DEF FdTells
  <2>7. FdBehind'
    BY <2>3, <2>6 DEF FdBehind
  <2> QED
    BY <2>3, <2>4, <2>5, <2>7 DEF FdInv, FdReading, FeedComplete
<1>10. CASE FdVerdict(a) = "next"
  <2> DEFINE place == FdPlace(a)
  <2>1. fdRun' = [read EXCEPT !.at = place, !.seen = @ \cup ({place} \ {FdNone})]
    BY <1>5, <1>10
  <2>2. place \in Nat
    BY <1>2, <1>10, FdNumbers DEF FdTells
  <2>3. /\ fdRun' \in FdRunSet /\ fdRun'.pc = "page" /\ fdRun'.from = fdRun.from
        /\ fdRun'.got = got /\ fdRun'.count = count /\ fdRun'.pages = fdRun.pages + 1
        /\ fdRun'.at = place /\ fdRun'.seen = fdRun.seen \cup ({place} \ {FdNone})
    <3> HIDE DEF place
    <3>1. read.pc = "page"
      BY DEF read
    <3> QED
      BY <3>1, <2>1, <2>2, <1>3 DEF FdRunSet
  <2>4. FdTyped'
    BY <2>3, <1>6
  <2>5. ASSUME fdReader \notin FdByOffset
        PROVE  FdBehind'
    <3>1. FdBehind
      BY <2>5 DEF FdReading
    <3>2. /\ place \in FdItem /\ place # FdNone
          /\ good => \A x \in fdAlways : x < fdRun.from \/ x <= place => x \in got
      BY <2>5, <1>10, FdNumbers DEF FdTells, FdNone
    <3>3. fdRun'.seen = fdRun.seen \cup {place}
      BY <2>3, <3>2
    <3> HIDE DEF place, got
    <3>4. FdGood' => \A s \in fdRun.seen \cup {FdNone} : \A x \in fdAlways :
                       x < fdRun.from \/ x <= s => x \in fdRun.got
      BY <3>1, <1>4 DEF FdBehind
    <3>5. fdRun.got \subseteq got
      BY DEF got
    <3>6. fdRun'.at \in fdRun'.seen \cup {FdNone} /\ fdRun'.seen \subseteq FdItem
      BY <3>1, <3>2, <3>3, <2>3 DEF FdBehind
    <3>7. FdGood' => \A s \in fdRun'.seen \cup {FdNone} : \A x \in fdAlways :
                       x < fdRun'.from \/ x <= s => x \in fdRun'.got
      BY <3>2, <3>3, <3>4, <3>5, <2>3
    <3> QED
      BY <3>6, <3>7 DEF FdBehind
  <2>6. ASSUME fdReader \in FdByOffset
        PROVE  FdPassed'
    <3>1. FdPassed
      BY <2>6 DEF FdReading
    <3>2. /\ place = fdRun.at + FdPage
          /\ good => \A x \in fdAlways :
                       Cardinality(FdBefore(x)) < fdRun.at + FdPage => x \in got
      BY <2>6, <1>10 DEF FdTells
    <3>3. fdRun'.at = fdRun'.pages * FdPage
      <4>1. fdRun.at = fdRun.pages * FdPage
        BY <3>1 DEF FdPassed
      <4>2. (fdRun.pages + 1) * FdPage = fdRun.pages * FdPage + FdPage
        BY <1>2, FdNumbers
      <4> QED
        BY <4>1, <4>2, <3>2, <2>3
    <3>4. \A x : FdBefore(x)' = FdBefore(x)
      BY DEF FdBefore
    <3> HIDE DEF place, got
    <3> QED
      BY <3>2, <3>3, <3>4, <2>3 DEF FdPassed
  <2>7. ASSUME fdReader = "stocks"
        PROVE  FdTotalled'
    <3> SUFFICES ASSUME FdGood'
                 PROVE  /\ got \subseteq fdListed /\ \A x \in got : x <= place
                        /\ count = Cardinality(got)
      BY <2>3 DEF FdTotalled
    <3>1. fdRun.got \subseteq fdListed /\ fdRun.count = Cardinality(fdRun.got)
      BY <2>7, <1>4 DEF FdReading, FdTotalled
    <3>2. /\ a.items \subseteq fdListed /\ a.items \cap fdRun.got = {}
          /\ \A x \in got : x <= place
      BY <2>7, <1>10 DEF FdTells
    <3>3. /\ IsFiniteSet(fdRun.got) /\ IsFiniteSet(a.items) /\ Cardinality(fdRun.got) \in Nat
      BY <1>1, <1>2, FdItems
    <3>4. fdRun.got \cap a.items = {}
      BY <3>2
    <3>5. Cardinality(got) = Cardinality(fdRun.got) + Cardinality(a.items) - 0
      BY <3>3, <3>4, FS_Union, FS_EmptySet
    <3>6. count = Cardinality(got)
      <4> DEFINE all == Cardinality(got)
      <4> HIDE DEF all
      <4> QED
        BY <3>1, <3>3, <3>5, <1>1 DEF all
    <3> QED
      BY <3>1, <3>2, <3>6
  <2>8. ASSUME fdReader = "attributes"
        PROVE  FdPagesFull'
    <3> SUFFICES ASSUME FdGood'
                 PROVE  (fdRun.pages + 1) * FdPage <= place \/ fdAlways \subseteq got
      BY <2>3 DEF FdPagesFull
    <3>1. fdRun.pages * FdPage <= fdRun.at \/ fdAlways \subseteq fdRun.got
      BY <2>8, <1>4 DEF FdReading, FdPagesFull
    <3>2. place >= fdRun.at + FdPage \/ fdAlways \subseteq got
      BY <2>8, <1>10 DEF FdTells
    <3>3. /\ (fdRun.pages + 1) * FdPage = fdRun.pages * FdPage + FdPage
          /\ fdRun.pages * FdPage \in Nat
      BY <1>2, FdNumbers
    <3> DEFINE before == fdRun.pages * FdPage
               all == (fdRun.pages + 1) * FdPage
    <3> HIDE DEF before, all, place
    <3>4. all = before + FdPage /\ before \in Nat
      BY <3>3 DEF before, all
    <3>5. before <= fdRun.at \/ fdAlways \subseteq got
      BY <3>1 DEF before
    <3>6. all <= place \/ fdAlways \subseteq got
      BY <3>2, <3>4, <3>5, <2>2, <1>2, FdNumbers
    <3> QED
      BY <3>6 DEF all
  <2> QED
    BY <2>3, <2>4, <2>5, <2>6, <2>7, <2>8 DEF FdInv, FdReading, FeedComplete
<1> QED
  BY <1>1, <1>7, <1>8, <1>9, <1>10

\* A read begins with nothing and has nothing to have.
LEMMA FdInitInv ==
  ASSUME FdAssumption, FdInit
  PROVE  FdInv
<1>1. 1 \in FdItem
  BY DEF FdAssumption, FdItem
<1>2. fdRun \in FdRunSet /\ fdRun.pc = "idle" /\ fdRun.from = 1
  BY <1>1 DEF FdInit, FdFresh, FdRunSet, FdPlaces, FdNone
<1>3. fdListed \subseteq FdItem /\ fdReader \in FdReaders
  BY DEF FdInit
<1>4. fdRaw = {} /\ fdAlways = {} /\ fdHit = {} /\ fdChanges = 0 /\ fdFaults = 0
  BY DEF FdInit
<1>5. FdTyped
  BY <1>2, <1>3, <1>4 DEF FdTyped, FdAssumption
<1> QED
  BY <1>2, <1>5 DEF FdInv, FdReading, FeedComplete

\* An item that is listed only now is none the read has to have.
LEMMA FdAddInv ==
  ASSUME FdAssumption, FdInv, NEW x \in FdItem, FdAdd(x)
  PROVE  FdInv'
<1>1. /\ fdListed' = fdListed \cup {x} /\ fdChanges' \in 0..MaxFdChanges
      /\ UNCHANGED <<fdReader, fdRun, fdRaw, fdAlways, fdHit, fdFaults>>
  BY DEF FdAdd, FdInv, FdTyped, FdAssumption
<1>2. FdTyped'
  BY <1>1 DEF FdInv, FdTyped
<1>3. ASSUME NEW y \in fdAlways
      PROVE  /\ Cardinality(FdBefore(y)) \in Nat /\ Cardinality(FdBefore(y)') \in Nat
             /\ Cardinality(FdBefore(y)) <= Cardinality(FdBefore(y)')
  <2>1. FdBefore(y) \subseteq FdBefore(y)'
    BY <1>1 DEF FdBefore
  <2>2. FdBefore(y) \in SUBSET FdItem /\ FdBefore(y)' \in SUBSET FdItem
    BY <1>1 DEF FdBefore, FdInv, FdTyped
  <2> QED
    BY <2>1, <2>2, FdItems, FS_Subset
<1>4. ASSUME fdRun.pc = "page"
      PROVE  /\ fdReader \notin FdByOffset => FdBehind'
             /\ fdReader \in FdByOffset => FdPassed'
             /\ fdReader = "stocks" => FdTotalled'
             /\ fdReader = "attributes" => FdPagesFull'
  <2>1. fdReader \notin FdByOffset => FdBehind'
    BY <1>1, <1>4 DEF FdInv, FdReading, FdBehind, FdGood
  <2>2. fdReader \in FdByOffset => FdPassed'
    <3> SUFFICES ASSUME fdReader \in FdByOffset
                 PROVE  FdPassed'
      OBVIOUS
    <3>1. FdPassed /\ fdRun.at \in Nat
      BY <1>4 DEF FdInv, FdReading, FdTyped, FdRunSet
    <3>2. \A y \in fdAlways :
            Cardinality(FdBefore(y)') < fdRun.at => Cardinality(FdBefore(y)) < fdRun.at
      BY <3>1, <1>3
    <3> QED
      BY <3>1, <3>2, <1>1 DEF FdPassed, FdGood
  <2>3. fdReader = "stocks" => FdTotalled'
    BY <1>1, <1>4 DEF FdInv, FdReading, FdTotalled, FdGood
  <2>4. fdReader = "attributes" => FdPagesFull'
    BY <1>1, <1>4 DEF FdInv, FdReading, FdPagesFull, FdGood
  <2> QED
    BY <2>1, <2>2, <2>3, <2>4
<1>5. FeedComplete'
  BY <1>1 DEF FdInv, FeedComplete
<1> QED
  BY <1>1, <1>2, <1>4, <1>5 DEF FdInv, FdReading

\* An item that is gone from the list moves the others for a reader by offset or by the total.
LEMMA FdRemoveInv ==
  ASSUME FdAssumption, FdInv, NEW x \in FdItem, FdRemove(x)
  PROVE  FdInv'
<1>1. /\ fdListed' = fdListed \ {x} /\ fdAlways' = fdAlways \ {x}
      /\ fdChanges' \in 0..MaxFdChanges
      /\ UNCHANGED <<fdReader, fdRun, fdRaw, fdFaults>>
  BY DEF FdRemove, FdInv, FdTyped, FdAssumption
<1>2. fdHit \subseteq fdHit' /\ fdHit' \subseteq fdHit \cup {"removal"}
      /\ (fdRun.pc = "page" => "removal" \in fdHit')
  BY DEF FdRemove
<1>3. FdTyped'
  BY <1>1, <1>2 DEF FdInv, FdTyped, FdHits
<1>4. FdGood' => FdGood
  BY <1>1, <1>2 DEF FdGood
<1>5. ASSUME fdRun.pc = "page"
      PROVE  FdReading'
  <2>1. fdReader \notin FdByOffset => FdBehind'
    BY <1>1, <1>4, <1>5 DEF FdInv, FdReading, FdBehind
  <2>2. fdReader \in FdByOffset \cup {"stocks"} => ~FdGood'
    <3>1. fdReader \in FdByOffset \cup {"stocks"} => "removal" \in FdSilentOn(fdReader)
      BY DEF FdByOffset, FdSilentOn
    <3> QED
      BY <3>1, <1>1, <1>2, <1>5 DEF FdGood
  <2>3. fdReader \in FdByOffset => FdPassed'
    BY <2>2, <1>1, <1>5 DEF FdInv, FdReading, FdPassed
  <2>4. fdReader = "stocks" => FdTotalled'
    BY <2>2, <1>1 DEF FdTotalled
  <2>5. fdReader = "attributes" => FdPagesFull'
    BY <1>1, <1>4, <1>5 DEF FdInv, FdReading, FdPagesFull
  <2> QED
    BY <2>1, <2>3, <2>4, <2>5, <1>1 DEF FdReading
<1>6. FeedComplete'
  BY <1>1, <1>2 DEF FdInv, FeedComplete
<1>7. fdRun.pc # "page" => FdReading'
  BY <1>1 DEF FdReading
<1> QED
  BY <1>3, <1>5, <1>6, <1>7 DEF FdInv

\* A new read has passed nothing yet.
LEMMA FdBeginInv ==
  ASSUME FdAssumption, FdInv, FdBegin
  PROVE  FdInv'
<1>1. 1 \in FdItem
  BY DEF FdAssumption, FdItem
<1>2. /\ fdRun' = FdFresh(1) /\ fdAlways' = fdListed /\ fdHit' = {}
      /\ UNCHANGED <<fdReader, fdListed, fdRaw, fdChanges, fdFaults>>
  BY DEF FdBegin
<1>3. /\ fdRun' \in FdRunSet /\ fdRun'.pc = "page" /\ fdRun'.from = 1 /\ fdRun'.at = 0
      /\ fdRun'.seen = {} /\ fdRun'.got = {} /\ fdRun'.pages = 0 /\ fdRun'.count = 0
  BY <1>1, <1>2 DEF FdFresh, FdRunSet, FdPlaces, FdNone
<1>4. FdTyped'
  BY <1>2, <1>3 DEF FdInv, FdTyped
<1>5. \A x \in fdAlways' : x \in FdItem /\ Cardinality(FdBefore(x)') \in Nat
  <2>1. ASSUME NEW x \in fdAlways'
        PROVE  x \in FdItem /\ FdBefore(x)' \in SUBSET FdItem
    BY <2>1, <1>2 DEF FdInv, FdTyped, FdBefore
  <2> QED
    BY <2>1, FdItems
<1>6. FdBehind'
  <2>1. \A x \in fdAlways' : ~ (x < 1) /\ ~ (x <= 0)
    BY <1>5, FdNumbers
  <2> QED
    BY <2>1, <1>3 DEF FdBehind, FdNone
<1>7. FdPassed'
  <2>1. \A x \in fdAlways' : ~ (Cardinality(FdBefore(x)') < 0)
    BY <1>5
  <2>2. 0 = 0 * FdPage
    BY FdNumbers
  <2> QED
    BY <2>1, <2>2, <1>3 DEF FdPassed
<1>8. FdTotalled'
  BY <1>3, FS_EmptySet DEF FdTotalled
<1>9. FdPagesFull'
  <2>1. 0 * FdPage <= 0
    BY FdNumbers
  <2> QED
    BY <2>1, <1>3 DEF FdPagesFull
<1> QED
  BY <1>3, <1>4, <1>6, <1>7, <1>8, <1>9 DEF FdInv, FdReading, FeedComplete

\* A page from a place the reader has been at.
LEMMA FdAnswerTells ==
  ASSUME FdAssumption, FdInv, fdRun.pc = "page", UNCHANGED fdReader,
         NEW at \in fdRun.seen \cup {FdNone, fdRun.at}, NEW a \in FdAnswers(at),
         fdHit \cup FdHitCap(a) \subseteq fdHit', at # fdRun.at => "replay" \in fdHit'
  PROVE  FdTells(a, FdGood')
<1> DEFINE good == FdGood'
<1>1. good \in BOOLEAN
  BY DEF FdGood
<1>2. good => /\ FdGood
              /\ at # fdRun.at => "replay" \notin FdSilentOn(fdReader)
              /\ FdHitCap(a) \cap FdSilentOn(fdReader) = {}
  BY DEF FdGood
<1> HIDE DEF good
<1>3. FdTyped /\ FdReading
  BY DEF FdInv
<1>4. fdRun.at \in Nat /\ fdRun.seen \subseteq Nat
  BY <1>3 DEF FdTyped, FdRunSet
<1>5. CASE fdReader \notin FdByOffset
  <2>1. at \in fdRun.seen \cup {FdNone}
    BY <1>3, <1>5 DEF FdReading, FdBehind
  <2>2. FdTells(a, good)
    BY <2>1, <1>1, <1>2, <1>3, <1>5, FdPageTells
  <2> QED
    BY <2>2 DEF good
<1>6. CASE fdReader \in FdByOffset
  <2>1. at \in Nat
    BY <1>4 DEF FdNone
  <2>2. FdTells(a, good)
    BY <2>1, <1>1, <1>2, <1>3, <1>6, FdOffsetTells
  <2> QED
    BY <2>2 DEF good
<1> QED
  BY <1>5, <1>6

\* An answer as it should be.
LEMMA FdAskInv ==
  ASSUME FdAssumption, FdInv, FdAsk
  PROVE  FdInv'
<1>1. PICK a \in FdAnswers(fdRun.at) : FdTake(a) /\ fdHit' = fdHit \cup FdHitCap(a)
  BY DEF FdAsk
<1>2. fdRun.pc = "page" /\ UNCHANGED <<fdReader, fdListed, fdRaw, fdAlways, fdChanges, fdFaults>>
  BY DEF FdAsk
<1>3. FdTells(a, FdGood')
  BY <1>1, <1>2, FdAnswerTells
<1>4. fdHit \subseteq fdHit' /\ fdHit' \subseteq FdHits
  BY <1>1 DEF FdHitCap, FdInv, FdTyped, FdHits
<1>5. FdTyped /\ FdReading /\ fdFaults' \in 0..MaxFdFaults
  BY <1>2 DEF FdInv, FdTyped
<1>6. FdGood' \in BOOLEAN
  BY DEF FdGood
<1> QED
  BY <1>1, <1>2, <1>3, <1>4, <1>5, <1>6, FdTakes

\* An answer that is none, or an earlier one.
LEMMA FdAskFaultyInv ==
  ASSUME FdAssumption, FdInv, FdAskFaulty
  PROVE  FdInv'
<1>1. /\ fdRun.pc = "page" /\ fdFaults' \in 0..MaxFdFaults
      /\ UNCHANGED <<fdReader, fdListed, fdRaw, fdAlways, fdChanges>>
  BY DEF FdAskFaulty, FdInv, FdTyped, FdAssumption
<1>2. FdTyped /\ FdReading
  BY DEF FdInv
<1>3. FdGood' \in BOOLEAN
  BY DEF FdGood
<1>4. CASE FdTake(FdNoObject) /\ fdHit' = fdHit \cup {"noObject"}
  <2>1. "noObject" \in FdSilentOn(fdReader) => ~FdGood'
    BY <1>1, <1>4 DEF FdGood
  <2>2. FdTells(FdNoObject, FdGood')
    BY <2>1, <1>2, <1>3, FdNoObjectTells
  <2>3. fdHit \subseteq fdHit' /\ fdHit' \subseteq FdHits
    BY <1>2, <1>4 DEF FdTyped, FdHits
  <2> QED
    BY <2>2, <2>3, <1>1, <1>2, <1>3, <1>4, FdTakes
<1>6. CASE \E a \in FdNoList(fdRun.at) : FdTake(a) /\ fdHit' = fdHit \cup {"noList"}
  <2>1. PICK a \in FdNoList(fdRun.at) : FdTake(a) /\ fdHit' = fdHit \cup {"noList"}
    BY <1>6
  <2>2. FdTells(a, FALSE)
    BY <1>2, FdNoListTells
  <2>3. ~FdGood'
    BY <1>1, <1>2, <2>1, FdNoListSilent DEF FdGood
  <2>4. fdHit \subseteq fdHit' /\ fdHit' \subseteq FdHits
    BY <1>2, <2>1 DEF FdTyped, FdHits
  <2> QED
    BY <2>1, <2>2, <2>3, <2>4, <1>1, <1>2, FdTakes
<1>5. CASE \E at \in (fdRun.seen \cup {FdNone}) \ {fdRun.at} : \E a \in FdAnswers(at) :
             FdTake(a) /\ fdHit' = fdHit \cup {"replay"} \cup FdHitCap(a)
  <2>0. PICK at \in (fdRun.seen \cup {FdNone}) \ {fdRun.at} : \E a \in FdAnswers(at) :
               FdTake(a) /\ fdHit' = fdHit \cup {"replay"} \cup FdHitCap(a)
    BY <1>5
  <2>1. PICK a \in FdAnswers(at) :
               FdTake(a) /\ fdHit' = fdHit \cup {"replay"} \cup FdHitCap(a)
    BY <2>0
  <2>2. FdTells(a, FdGood')
    BY <2>1, <1>1, FdAnswerTells
  <2>3. fdHit \subseteq fdHit' /\ fdHit' \subseteq FdHits
    BY <2>1, <1>2 DEF FdHitCap, FdTyped, FdHits
  <2> QED
    BY <2>1, <2>2, <2>3, <1>1, <1>2, <1>3, FdTakes
<1> QED
  BY <1>4, <1>5, <1>6 DEF FdAskFaulty

\* Storing what a read has got changes nothing of it.
LEMMA FdStoreInv ==
  ASSUME FdAssumption, FdInv, FdStore
  PROVE  FdInv'
<1>1. /\ fdRun.pc = "returned" /\ fdRaw' = fdRaw \cup fdRun.got
      /\ UNCHANGED <<fdReader, fdListed, fdRun, fdAlways, fdHit, fdChanges, fdFaults>>
  BY DEF FdStore
<1>2. FdTyped'
  BY <1>1 DEF FdInv, FdTyped, FdRunSet
<1> QED
  BY <1>1, <1>2 DEF FdInv, FdReading, FeedComplete

\* A step that leaves the read alone.
LEMMA FdStillInv ==
  ASSUME FdInv, UNCHANGED fdVars
  PROVE  FdInv'
<1>1. UNCHANGED <<fdReader, fdListed, fdRun, fdRaw, fdAlways, fdHit, fdChanges, fdFaults>>
  BY DEF fdVars
<1>2. FdTyped' /\ FdGood' = FdGood
  BY <1>1 DEF FdInv, FdTyped, FdGood
<1>3. FeedComplete'
  BY <1>1 DEF FdInv, FeedComplete
<1>4. FdReading'
  <2>1. \A x : FdBefore(x)' = FdBefore(x)
    BY <1>1 DEF FdBefore
  <2>2. FdBehind => FdBehind'
    BY <1>1, <1>2 DEF FdBehind
  <2>3. FdPassed => FdPassed'
    BY <2>1, <1>1, <1>2 DEF FdPassed
  <2>4. (FdTotalled => FdTotalled') /\ (FdPagesFull => FdPagesFull')
    BY <1>1, <1>2 DEF FdTotalled, FdPagesFull
  <2> QED
    BY <2>2, <2>3, <2>4, <1>1 DEF FdInv, FdReading
<1> QED
  BY <1>2, <1>3, <1>4 DEF FdInv

\* A read that returns has everything that was listed all the while, for every length of the
\* list, of a page and of a window, however often the list changes and the API is wrong, but for
\* what its reader is known to be silent on (collectors/ozon/client.py, wb/client.py,
\* ym/client.py, reviews.py).
THEOREM FeedsAreWhole == FdSpec => []FeedsSound
<1> USE FdAssumption
<1>1. FdInit => FdInv
  BY FdInitInv
<1>2. FdInv /\ [FdNext]_fdVars => FdInv'
  <2> SUFFICES ASSUME FdInv, [FdNext]_fdVars
               PROVE  FdInv'
    OBVIOUS
  <2>1. ASSUME NEW x \in FdItem, FdAdd(x) \/ FdRemove(x)
        PROVE  FdInv'
    BY <2>1, FdAddInv, FdRemoveInv
  <2>2. CASE FdBegin
    BY <2>2, FdBeginInv
  <2>3. CASE FdAsk
    BY <2>3, FdAskInv
  <2>4. CASE FdAskFaulty
    BY <2>4, FdAskFaultyInv
  <2>5. CASE FdStore
    BY <2>5, FdStoreInv
  <2>6. CASE UNCHANGED fdVars
    BY <2>6, FdStillInv
  <2> QED
    BY <2>1, <2>2, <2>3, <2>4, <2>5, <2>6 DEF FdNext
<1>3. FdInv => FeedsSound
  <2> SUFFICES ASSUME FdInv
               PROVE  FeedsSound
    OBVIOUS
  <2>1. /\ fdRun.pc \in FdPlaces /\ fdRun.at \in Nat /\ fdRun.from \in Nat /\ fdRun.pages \in Nat
        /\ fdRun.seen \subseteq Nat /\ fdRun.got \subseteq FdItem
    BY FdNumbers DEF FdInv, FdTyped, FdRunSet
  <2>2. FdTypeOK
    BY <2>1 DEF FdInv, FdTyped, FdTypeOK, FdHits
  <2> QED
    BY <2>2 DEF FdInv, FeedsSound
<1> QED
  BY <1>1, <1>2, <1>3, PTL DEF FdSpec
=============================================================================
