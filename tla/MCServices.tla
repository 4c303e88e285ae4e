------------------------------ MODULE MCServices ------------------------------
(* The services that have to come to an end, side by side in one run: `part`  *)
(* is the one that moves, and the rest stay in their initial states.  LiveSpec *)
(* has, for each service, the fairness of its own workers and clocks.         *)
EXTENDS ActionLedger, ExportJob, Webhooks, QueryCache, HttpClient, Rebuild, Reviews, Migrations

VARIABLE part
allVars == <<part, vars, exportVars, hookVars, qcVars, hcVars, rbVars, rvVars, mgVars>>

AllInit ==
  /\ part \in {"ledger", "exports", "webhooks", "cache", "client", "rebuild", "reviews", "migrations"}
  /\ Init /\ ExportInit /\ HookInit /\ QcInit /\ HcInit /\ RbInit /\ RvInit /\ MgInit
  /\ part = "ledger" \/ \A u \in Rules : mode[u] = "off"

Only(p) ==
  /\ part = p /\ UNCHANGED part
  /\ IF p = "ledger" THEN TRUE ELSE UNCHANGED vars
  /\ IF p = "exports" THEN TRUE ELSE UNCHANGED exportVars
  /\ IF p = "webhooks" THEN TRUE ELSE UNCHANGED hookVars
  /\ IF p = "cache" THEN TRUE ELSE UNCHANGED qcVars
  /\ IF p = "client" THEN TRUE ELSE UNCHANGED hcVars
  /\ IF p = "rebuild" THEN TRUE ELSE UNCHANGED rbVars
  /\ IF p = "reviews" THEN TRUE ELSE UNCHANGED rvVars
  /\ IF p = "migrations" THEN TRUE ELSE UNCHANGED mgVars

AllNext ==
  \/ Only("ledger") /\ Next
  \/ Only("exports") /\ ExportNext
  \/ Only("webhooks") /\ HookNext
  \/ Only("cache") /\ QcNext
  \/ Only("client") /\ HcNext
  \/ Only("rebuild") /\ RbNext
  \/ Only("reviews") /\ RvNext
  \/ Only("migrations") /\ MgNext

AllSpec == AllInit /\ [][AllNext]_allVars

-----------------------------------------------------------------------------
(* Fairness: workers run on, and clocks.                                   *)

\* Redis drops a key whose TTL is over.
LedgerFair ==
  /\ \A r \in Runs : WF_vars(part = "ledger" /\ RunStep(r))
  /\ WF_vars(part = "ledger" /\ LockExpires)
\* Files age and are pruned.
ExportFair ==
  /\ \A w \in ExportWorkers : WF_exportVars(part = "exports" /\ ExportStep(w))
  /\ \A f \in ExportFile : /\ WF_exportVars(part = "exports" /\ ExportAges(f))
                           /\ WF_exportVars(part = "exports" /\ PruneExport(f))
HookFair == \A w \in HookWorkers : WF_hookVars(part = "webhooks" /\ HookStep(w))
QcFair == \A r \in QcReaders : WF_qcVars(part = "cache" /\ QcStep(r))
\* Requests time out and pauses end; the task goes on calling.
HcFair ==
  /\ WF_hcVars(part = "client" /\ HcStep) /\ WF_hcVars(part = "client" /\ HcCall)
  /\ SF_hcVars(part = "client" /\ HcTick)
\* Beat starts the rebuild of the regular window again and again, if not every time.
RbFair ==
  /\ \A t \in RbTask : /\ WF_rbVars(part = "rebuild" /\ RbStep(t))
                       /\ SF_rbVars(part = "rebuild" /\ RbStart(t, RbRecent))
  /\ WF_rbVars(part = "rebuild" /\ RbLockExpires)
\* Beat starts the task every quarter of an hour, and a failure becomes old.
RvFair ==
  /\ \A t \in RvThreads : WF_rvVars(part = "reviews" /\ RvStep(t))
  /\ WF_rvVars(part = "reviews" /\ \E t \in RvRuns : RvStart(t))
  /\ \A r \in RvReviews : WF_rvVars(part = "reviews" /\ RvRetryDue(r))
  /\ WF_rvVars(part = "reviews" /\ RvLockExpires)
\* Each deployment applies what is pending, again after a failure.
MgFair ==
  /\ WF_mgVars(part = "migrations" /\ MgLockAges)
  /\ \A r \in MgRunners :
        /\ WF_mgVars(part = "migrations" /\ MgStep(r))
        /\ WF_mgVars(part = "migrations" /\ \E t \in 1..MgVersions : MgStart(r, "apply", t))

LiveSpec ==
  /\ AllSpec
  /\ LedgerFair /\ ExportFair /\ HookFair /\ QcFair /\ HcFair /\ RbFair /\ RvFair /\ MgFair

\* EveryWantedAnswered, of the behaviours of the part it is about: a review that the rules
\* answer gets its reply in the end, after refusals, crashes and lost answers.
ReviewsAnswered == part = "reviews" => EveryWantedAnswered

\* A rebuild loses no day of its window, and RecentComesBack of the behaviours of its part: the
\* days of the regular window come back after rebuilds that broke off, and today has classes.
RebuildsKept == [](RbTypeOK /\ WindowRestored) /\ (part = "rebuild" => RecentComesBack)

\* What is begun comes to an end: a request of the cache, a client after an outage, a lock of
\* the migrations whose runner is dead, every delivery of the repricer's task.
ServicesSettle ==
  /\ QcAnswers /\ GetsThroughAgain /\ LockEnds
  /\ part = "ledger" => RunsEnd
=============================================================================
