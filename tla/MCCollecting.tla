------------------------------ MODULE MCCollecting ------------------------------
(* Collection, side by side in one run: windows with a watermark, lists read  *)
(* page by page, reports on request, and the rows made of an answer.  `part`   *)
(* is the one that moves, the rest stay in their initial states.              *)
EXTENDS MCCollector, Feeds, AdReports, RawRows

VARIABLE part
allVars == <<part, vars, fdVars, adVars, rrVars>>

AllInit ==
  /\ part \in {"collect", "feeds", "reports", "rows"}
  /\ Init /\ FdInit /\ AdInit /\ RrInit
  /\ part = "collect" \/ style = "wb"
  /\ part = "feeds" \/ (fdReader = "ids" /\ fdListed = FdItem \ {FdLast})
  /\ part = "reports" \/ adKind = "sku"
  /\ part = "rows" \/ rrTable = "wb_sales"

Only(p) ==
  /\ part = p /\ UNCHANGED part
  /\ IF p = "collect" THEN TRUE ELSE UNCHANGED vars
  /\ IF p = "feeds" THEN TRUE ELSE UNCHANGED fdVars
  /\ IF p = "reports" THEN TRUE ELSE UNCHANGED adVars
  /\ IF p = "rows" THEN TRUE ELSE UNCHANGED rrVars

AllNext ==
  \/ Only("collect") /\ Next
  \/ Only("feeds") /\ FdNext
  \/ Only("reports") /\ AdNext
  \/ Only("rows") /\ RrNext

AllSpec == AllInit /\ [][AllNext]_allVars

-----------------------------------------------------------------------------
(* Fairness: of live workers, the beat, the API and the expiry of locks.     *)

CollectFair ==
  /\ WF_vars(part = "collect" /\ LockExpires)
  /\ \A r \in Runs : WF_vars(part = "collect" /\ Collect(r))
  /\ SF_vars(part = "collect" /\ \E r \in Runs : Acquire(r, "incremental"))
FeedsFair ==
  /\ WF_fdVars(part = "feeds" /\ FdBegin) /\ WF_fdVars(part = "feeds" /\ FdAsk)
  /\ WF_fdVars(part = "feeds" /\ FdStore)
\* The task of the beat is taken in the end; a report is late for a bounded time.
ReportsFair ==
  /\ \A r \in AdRuns : /\ SF_adVars(part = "reports" /\ AdBegin(r, AdFrom, AdTo))
                       /\ WF_adVars(part = "reports" /\ AdOwn(r))
                       /\ WF_adVars(part = "reports" /\ AdMake(r))
  /\ WF_adVars(part = "reports" /\ AdLapse /\ ~AdBusy(adLock))

CollectingSpec == AllSpec /\ CollectFair /\ FeedsFair /\ ReportsFair

\* What a marketplace has comes to be stored, whatever crashes, late answers and refusals there
\* were: every version of every object, every item that stays listed, the figures of every day
\* that is still read.
CollectingSettles ==
  /\ part = "collect" => AllCollected
  /\ part = "feeds" => FeedSettles
  /\ part = "reports" => AdSettles

\* Runs, objects and runs of reports are told apart by nothing but what they hold.
MCAlike == {p @@ q @@ a : p \in Permutations(Runs), q \in Permutations(Objects),
                          a \in Permutations(AdRuns)}
=============================================================================
