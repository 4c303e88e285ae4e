------------------------------- MODULE AdReports -------------------------------
(***************************************************************************)
(* Reports a marketplace makes on request (collectors/ozon/                *)
(* sku_ad_reports.py, OzonPerformanceClient, YmClient.                     *)
(* generate_and_fetch_report) and the tasks that ask for them, wait and    *)
(* store what comes: advertising by SKU without a lock, daily advertising, *)
(* Yandex Market reports stretch by stretch.                               *)
(*                                                                         *)
(* The figures of a day are a version, corrected for some days after it.   *)
(* Time within a run passes in ticks of about a minute.  Only the last     *)
(* job is kept; campaigns, offers and amounts are left out.                *)
(***************************************************************************)
EXTENDS Integers, FiniteSetsExt

CONSTANTS
  AdKinds,         \* the tasks to look at
  AdRuns,          \* workers' runs
  AdNoRun,
  AdLastDay,       \* bound: days
  AdLookback,      \* ADS_LOOKBACK_DAYS, and the days YM reads before its watermark
  AdStretch,       \* days of one Yandex Market report
  AdLifetime,      \* ticks a token is good for
  AdSkew,          \* _TOKEN_EXPIRY_SKEW_SECONDS
  AdLatency,       \* bound: ticks a request may take, with its repetitions
  AdTimeout,       \* ticks the run waits for its report
  AdVersions,      \* bound: versions of the figures of a day
  MaxAdTicks, MaxAdFaults

ASSUME AdAssumption ==
  /\ AdKinds \subseteq {"sku", "daily", "ym"} /\ AdNoRun \notin AdRuns
  /\ AdLastDay \in Nat \ {0, 1} /\ AdLookback \in Nat \ {0} /\ AdStretch \in Nat \ {0}
  /\ AdLatency \in Nat /\ AdSkew \in Nat
  /\ AdLifetime \in Nat /\ AdLifetime > AdSkew
  /\ AdTimeout \in Nat \ {0} /\ AdVersions \in Nat \ {0}
  /\ MaxAdTicks \in Nat /\ MaxAdFaults \in Nat

VARIABLES adKind, adToday, adCost, adStored, adMark, adLock, adRun, adTicks, adFaults

adVars == <<adKind, adToday, adCost, adStored, adMark, adLock, adRun, adTicks, adFaults>>

AdDays == 1..AdLastDay
AdRequests == {"campaigns", "stats", "post", "poll", "download"}
AdPlaces == {"ended", "save", "done", "refused", "insert", "mark"} \cup AdRequests

\* A job at the marketplace, with the figures it was made of.
AdNoJob == [state |-> "none", made |-> [d \in AdDays |-> 0]]

\* held, good: ticks the client and the marketplace take the token for good; tries: refusals of
\* the request; row: the job in sys_ozon_report_jobs; at: first day of the stretch; lost: tokens
\* revoked, or run out under a request repeated for longer than the skew; lost, overlapped, back:
\* kept for checking.
AdIdle ==
  [pc |-> "ended", end |-> "success", asking |-> FALSE, age |-> 0, held |-> 0, good |-> 0,
   tries |-> 0, left |-> 0, job |-> AdNoJob, row |-> "none", at |-> 1, to |-> 1, began |-> 1,
   data |-> [d \in AdDays |-> 0], lost |-> 0, overlapped |-> FALSE, back |-> FALSE]

AdTypeOK ==
  /\ adKind \in AdKinds /\ adToday \in AdDays /\ adMark \in AdDays
  /\ adCost \in [AdDays -> 1..AdVersions] /\ adStored \in [AdDays -> 0..AdVersions]
  /\ adLock \in AdRuns \cup {AdNoRun}
  /\ \A r \in AdRuns :
       /\ adRun[r].pc \in AdPlaces /\ adRun[r].age \in 0..AdLatency
       /\ adRun[r].held \in 0..AdLifetime /\ adRun[r].good \in 0..AdLifetime
       /\ adRun[r].data \in [AdDays -> 0..AdVersions]
  /\ adTicks \in 0..MaxAdTicks /\ adFaults \in 0..MaxAdFaults

AdInit ==
  /\ adKind \in AdKinds
  /\ adToday = 2 /\ adMark = 1
  /\ adCost = [d \in AdDays |-> 1] /\ adStored = [d \in AdDays |-> 0]
  /\ adLock = AdNoRun /\ adRun = [r \in AdRuns |-> AdIdle]
  /\ adTicks = 0 /\ adFaults = 0

AdBusy(r) == adRun[r].pc # "ended"

-----------------------------------------------------------------------------
(* Begin and end of a run *)

\* Ozon is read up to yesterday, Yandex Market from its watermark up to today.
AdFrom == LET last == IF adKind = "ym" THEN adMark ELSE adToday IN Max({1, last - AdLookback})
AdTo == IF adKind = "ym" THEN adToday ELSE adToday - 1

AdTakesLock == adKind # "sku"
AdFreed(r) == IF adLock = r THEN AdNoRun ELSE adLock

AdFirst == CASE adKind = "sku" -> "campaigns" [] adKind = "daily" -> "stats" [] adKind = "ym" -> "post"

AdFault == adFaults < MaxAdFaults /\ adFaults' = adFaults + 1

\* A second run beside one under way is a redelivery or a call by hand.
AdBegin(r, from, to) ==
  /\ ~AdBusy(r)
  /\ AdTakesLock => adLock = AdNoRun
  /\ adLock' = IF AdTakesLock THEN r ELSE adLock
  /\ LET others == \E s \in AdRuns \ {r} : AdBusy(s) IN
     /\ IF others THEN AdFault ELSE UNCHANGED adFaults
     /\ adRun' = [s \in AdRuns |->
          CASE s = r ->
                 [AdIdle EXCEPT !.pc = AdFirst, !.at = from, !.to = to, !.began = adToday,
                                !.job = adRun[r].job, !.row = adRun[r].row, !.overlapped = others]
            [] s # r /\ AdBusy(s)  -> [adRun[s] EXCEPT !.overlapped = TRUE]
            [] s # r /\ ~AdBusy(s) -> AdIdle]
  /\ UNCHANGED <<adKind, adToday, adCost, adStored, adMark, adTicks>>

\* What is left of a run.
AdEnded(run, why) ==
  [AdIdle EXCEPT !.end = why, !.job = run.job, !.row = run.row, !.lost = run.lost]

\* The run ends, and lock_scope frees its lock.
AdEnds(r, why) ==
  /\ adRun' = [adRun EXCEPT ![r] = AdEnded(adRun[r], why)]
  /\ adLock' = AdFreed(r)

-----------------------------------------------------------------------------
(* Requests *)

\* OzonPerformanceClient._access_token
AdNewToken == [held |-> Max({0, AdLifetime - AdSkew}), good |-> AdLifetime]

\* Headers are made, with a token of Ozon or the key of Yandex Market, and the request goes out.
AdAsk(r) ==
  /\ adRun[r].pc \in AdRequests /\ ~adRun[r].asking
  /\ adRun[r].pc = "poll" => adRun[r].left > 0
  /\ LET token == IF adRun[r].held > 0 THEN [held |-> adRun[r].held, good |-> adRun[r].good]
                  ELSE AdNewToken IN
     adRun' = [adRun EXCEPT ![r] = [adRun[r] EXCEPT !.asking = TRUE, !.age = 0,
                                                    !.held = token.held, !.good = token.good]]
  /\ UNCHANGED <<adKind, adToday, adCost, adStored, adMark, adLock, adTicks, adFaults>>

AdRefused(r) == adKind # "ym" /\ adRun[r].good = 0

\* _get renews a token that is refused, once; the request for a report is sent by http.post.
AdRenews(r) == adRun[r].tries = 0 /\ adRun[r].pc # "post"

\* HTTP 401
AdUnauthorized(r) ==
  /\ adRun[r].asking /\ AdRefused(r)
  /\ \/ /\ AdRenews(r)
        /\ adRun' = [adRun EXCEPT ![r] =
             [adRun[r] EXCEPT !.asking = FALSE, !.held = 0, !.tries = 1]]
        /\ UNCHANGED adLock
     \/ ~AdRenews(r) /\ AdEnds(r, IF adRun[r].pc = "post" THEN "refused_post" ELSE "refused_get")
  /\ UNCHANGED <<adKind, adToday, adCost, adStored, adMark, adTicks, adFaults>>

\* The last day of a stretch; Ozon reports the whole period at once.
AdStretchEnd(run) == IF adKind = "ym" THEN Min({run.at + AdStretch - 1, run.to}) ELSE run.to

\* The run takes in the figures of the days from..to.
AdRead(run, figures, from, to) ==
  [run EXCEPT !.data = [d \in AdDays |-> IF d \in from..to THEN figures[d] ELSE run.data[d]]]

\* Mutant: the request asks for the job of an earlier run that is not known to have failed.
AdPostedOrResumed(run) ==
  IF run.row \in {"pending", "completed"} THEN [run EXCEPT !.pc = "save"]
  ELSE [run EXCEPT !.job = [AdNoJob EXCEPT !.state = "queued"], !.pc = "save"]

\* A job is made; that of Yandex Market is not written down.
AdPosted(run) ==
  LET new == [run EXCEPT !.job = [AdNoJob EXCEPT !.state = "queued"],
                            !.row = "none"] IN
  IF adKind = "ym" THEN [new EXCEPT !.pc = "poll", !.left = AdTimeout]
  ELSE [new EXCEPT !.pc = "save"]

\* fetch_report and generate_and_fetch_report: any other state of the job means to ask again.
AdPolled(run) ==
  CASE run.job.state = "queued" -> run
    [] run.job.state = "ok"     -> [run EXCEPT !.pc = "download"]
    [] run.job.state = "failed" -> [run EXCEPT !.pc = "refused"]

AdDownloaded(run) ==
  LET read == AdRead(run, run.job.made, run.at, AdStretchEnd(run)) IN
  IF adKind = "sku" THEN [read EXCEPT !.pc = "done"]
  ELSE IF AdStretchEnd(run) < run.to THEN [read EXCEPT !.at = AdStretchEnd(run) + 1, !.pc = "post"]
  ELSE [read EXCEPT !.pc = "insert"]

AdAnswer(r) ==
  /\ adRun[r].asking /\ ~AdRefused(r)
  /\ LET run == [adRun[r] EXCEPT !.asking = FALSE, !.tries = 0, !.lost = 0] IN
     adRun' = [adRun EXCEPT ![r] =
       CASE run.pc = "campaigns" -> [run EXCEPT !.pc = "post"]
         [] run.pc = "stats"     -> [AdRead(run, adCost, run.at, run.to) EXCEPT !.pc = "insert"]
         [] run.pc = "post"      -> AdPosted(run)
         [] run.pc = "poll"      -> AdPolled(run)
         [] run.pc = "download"  -> AdDownloaded(run)]
  /\ UNCHANGED <<adKind, adToday, adCost, adStored, adMark, adLock, adTicks, adFaults>>

\* The deadline is over.
AdTimesOut(r) ==
  /\ adRun[r].pc = "poll" /\ ~adRun[r].asking /\ adRun[r].left = 0
  /\ AdEnds(r, "timeout")
  /\ UNCHANGED <<adKind, adToday, adCost, adStored, adMark, adTicks, adFaults>>

-----------------------------------------------------------------------------
(* What is written *)

\* save_job_state
AdSave(r) ==
  /\ \/ /\ adRun[r].pc = "save"
        /\ adRun' = [adRun EXCEPT ![r] = [adRun[r] EXCEPT !.pc = "poll", !.row = "pending",
                                                          !.left = AdTimeout]]
        /\ UNCHANGED adLock
     \/ /\ adRun[r].pc = "done"
        /\ adRun' = [adRun EXCEPT ![r] = [adRun[r] EXCEPT !.pc = "insert", !.row = "completed"]]
        /\ UNCHANGED adLock
     \/ /\ adRun[r].pc = "refused"
        /\ adRun' = [adRun EXCEPT ![r] = [AdEnded(adRun[r], "failed") EXCEPT
                                           !.row = IF adKind = "sku" THEN "failed"
                                                   ELSE adRun[r].row]]
        /\ adLock' = AdFreed(r)
  /\ UNCHANGED <<adKind, adToday, adCost, adStored, adMark, adTicks, adFaults>>

\* insert_rows; _collect makes sure of the lock before it and before the watermark.
AdInsert(r) ==
  LET run == adRun[r]
      read == {d \in AdDays : run.data[d] > 0}
      back == ~run.overlapped /\ \E d \in read : run.data[d] < adStored[d] IN
  /\ run.pc = "insert"
  /\ adKind = "ym" => adLock = r
  /\ adStored' = [d \in AdDays |-> IF d \in read THEN run.data[d] ELSE adStored[d]]
  /\ adRun' = [adRun EXCEPT ![r] =
       [IF adKind = "ym" THEN [run EXCEPT !.pc = "mark"] ELSE AdEnded(run, "success")
         EXCEPT !.back = back]]
  /\ adLock' = IF adKind = "ym" THEN adLock ELSE AdFreed(r)
  /\ UNCHANGED <<adKind, adToday, adCost, adMark, adTicks, adFaults>>

AdSetMark(r) ==
  /\ adRun[r].pc = "mark" /\ adLock = r
  /\ adMark' = adRun[r].began
  /\ AdEnds(r, "success")
  /\ UNCHANGED <<adKind, adToday, adCost, adStored, adTicks, adFaults>>

\* ensure_held raises.
AdLostLock(r) ==
  /\ adRun[r].pc \in {"insert", "mark"} /\ adKind = "ym" /\ adLock # r
  /\ AdEnds(r, "lock_lost")
  /\ UNCHANGED <<adKind, adToday, adCost, adStored, adMark, adTicks, adFaults>>

-----------------------------------------------------------------------------
(* Surroundings *)

\* A request, an insert or the reading of an answer fails: no list of campaigns or an incomplete
\* one, a report without a campaign that was asked for or with a day outside the period.
AdBreak(r) ==
  /\ AdBusy(r) /\ AdFault /\ AdEnds(r, "broken")
  /\ UNCHANGED <<adKind, adToday, adCost, adStored, adMark, adTicks>>

\* The worker dies; its lock stays.
AdCrash(r) ==
  /\ AdBusy(r) /\ AdFault
  /\ adRun' = [adRun EXCEPT ![r] = AdEnded(adRun[r], "crash")]
  /\ UNCHANGED <<adKind, adToday, adCost, adStored, adMark, adLock, adTicks>>

\* A lock that is not renewed any more runs out.
AdLapse ==
  /\ adLock # AdNoRun
  /\ IF AdBusy(adLock) THEN AdFault ELSE UNCHANGED adFaults
  /\ adLock' = AdNoRun
  /\ UNCHANGED <<adKind, adToday, adCost, adStored, adMark, adRun, adTicks>>

\* The marketplace makes the report, or gives up.
AdMake(r) ==
  /\ AdBusy(r) /\ adRun[r].job.state = "queued"
  /\ adRun' = [adRun EXCEPT ![r] =
       [adRun[r] EXCEPT !.job = [state |-> "ok", made |-> adCost]]]
  /\ UNCHANGED <<adKind, adToday, adCost, adStored, adMark, adLock, adTicks, adFaults>>

AdGiveUp(r) ==
  /\ AdBusy(r) /\ adRun[r].job.state = "queued" /\ AdFault
  /\ adRun' = [adRun EXCEPT ![r] =
       [adRun[r] EXCEPT !.job = [state |-> "failed", made |-> adRun[r].job.made]]]
  /\ UNCHANGED <<adKind, adToday, adCost, adStored, adMark, adLock, adTicks>>

AdRevoke(r) ==
  /\ AdBusy(r) /\ adRun[r].good > 0 /\ AdFault
  /\ adRun' = [adRun EXCEPT ![r] =
       [adRun[r] EXCEPT !.good = 0, !.lost = adRun[r].lost + 1]]
  /\ UNCHANGED <<adKind, adToday, adCost, adStored, adMark, adLock, adTicks>>

\* The token runs out under a request that http_client has repeated for longer than the skew; the
\* repetitions carry the headers the request began with.
AdRunsOut(run) == run.asking /\ run.good = 1 /\ run.age + 1 > AdSkew

\* What a tick takes from a run.
AdOlder(run) ==
  [run EXCEPT !.age = IF run.asking THEN run.age + 1 ELSE 0, !.held = Max({0, run.held - 1}),
              !.good = Max({0, run.good - 1}), !.left = Max({0, run.left - 1}),
              !.lost = IF AdRunsOut(run) THEN run.lost + 1 ELSE run.lost]

AdTick ==
  /\ adTicks < MaxAdTicks
  /\ \A r \in AdRuns : adRun[r].asking => adRun[r].age < AdLatency
  /\ \E r \in AdRuns : AdBusy(r)
  /\ adRun' = [r \in AdRuns |-> AdOlder(adRun[r])]
  /\ adTicks' = adTicks + 1
  /\ UNCHANGED <<adKind, adToday, adCost, adStored, adMark, adLock, adFaults>>

AdNewDay ==
  /\ adToday < AdLastDay /\ adToday' = adToday + 1
  /\ UNCHANGED <<adKind, adCost, adStored, adMark, adLock, adRun, adTicks, adFaults>>

\* The figures of the last days are corrected.
AdCorrect(d) ==
  /\ d \in adToday - AdLookback .. adToday /\ adCost[d] < AdVersions
  /\ adCost' = [adCost EXCEPT ![d] = @ + 1]
  /\ UNCHANGED <<adKind, adToday, adStored, adMark, adLock, adRun, adTicks, adFaults>>

AdOwn(r) ==
  \/ AdAsk(r) \/ AdUnauthorized(r) \/ AdAnswer(r) \/ AdTimesOut(r) \/ AdSave(r)
  \/ AdInsert(r) \/ AdSetMark(r) \/ AdLostLock(r)

\* A task of the beat reads its days, one that is called by hand a single day (target_day).
AdPeriods == {<<AdFrom, AdTo>>} \cup
             {<<d, d>> : d \in IF adKind = "ym" THEN {} ELSE 1..adToday - 1}

AdNext ==
  \/ \E r \in AdRuns, p \in AdPeriods : AdBegin(r, p[1], p[2])
  \/ \E r \in AdRuns : AdOwn(r) \/ AdBreak(r) \/ AdCrash(r) \/ AdMake(r) \/ AdGiveUp(r) \/ AdRevoke(r)
  \/ \E d \in AdDays : AdCorrect(d)
  \/ AdLapse \/ AdTick \/ AdNewDay

AdSpec == AdInit /\ [][AdNext]_adVars

\* The task of the beat is taken in the end whatever else is queued, requests are answered, and
\* reports are made; faults, and the minutes that a report is late, are bounded.
AdFairness ==
  /\ \A r \in AdRuns :
       SF_adVars(AdBegin(r, AdFrom, AdTo)) /\ WF_adVars(AdOwn(r)) /\ WF_adVars(AdMake(r))
  /\ WF_adVars(AdLapse /\ ~AdBusy(adLock))

-----------------------------------------------------------------------------
(* Properties *)

\* A run is refused only because its token was revoked, or ran out under a request that took longer
\* than the skew: once when it asks for a report, twice within one request otherwise.
AdRefusedForCause ==
  \A r \in AdRuns :
    /\ adRun[r].end = "refused_post" => adRun[r].lost >= 1
    /\ adRun[r].end = "refused_get"  => adRun[r].lost >= 2

\* What the table of jobs says of a job is what became of it at the marketplace.
AdRowsTrue ==
  \A r \in AdRuns :
    /\ adRun[r].row = "completed" => adRun[r].job.state = "ok"
    /\ adRun[r].row = "failed"    => adRun[r].job.state = "failed"

\* A run that had no other beside it brings back no figure older than the one stored.
AdNeverBack == \A r \in AdRuns : ~adRun[r].back

AdReportsSound == AdTypeOK /\ AdRefusedForCause /\ AdRowsTrue /\ AdNeverBack

\* In the end the figures stored are those of the marketplace, for the days still read.
AdSettles ==
  <>[](\A d \in AdDays : d \in Max({1, AdLastDay - AdLookback})..AdTo => adStored[d] = adCost[d])
=============================================================================
