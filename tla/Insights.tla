-------------------------------- MODULE Insights --------------------------------
(***************************************************************************)
(* The tasks a user should act on (workers/app/tasks/insights.py,          *)
(* common/insights.py, insights_service.py): the generator recommends from *)
(* the marts and makes a task for what has none, users close tasks and     *)
(* open them again.                                                        *)
(*                                                                         *)
(* Runs of the generator hold no lock.  One organization; a day is the     *)
(* unit of time, and InQuietDays stands for DISMISS_SUPPRESSION_DAYS.      *)
(* Titles and the digest are left out.                                     *)
(***************************************************************************)
EXTENDS Integers, FiniteSets

CONSTANTS
  InSubjects,       \* dedupe_key: a trigger and what it is about
  InTriggerOf,      \* of a subject: "turnover", "stagnant" or "bad_ad"
  InFacts,          \* what the marts may say of a subject
  InRuns, InTasks,  \* runs of the generator at the same time; task_id
  NoSubject,
  InQuietDays, MaxInDay, MaxInPatches

ASSUME InAssumption ==
  /\ NoSubject \notin InSubjects /\ InQuietDays \in Nat
  /\ MaxInDay \in Nat \ {0} /\ MaxInPatches \in Nat
  /\ InTriggerOf \in [InSubjects -> {"turnover", "stagnant", "bad_ad"}]

VARIABLES
  inTask,        \* per task_id: its last row, or none
  inRun,
  inDay, inPatches,
  inFate,        \* per task: what became of the event that announces it; kept for checking
  inCause        \* why a subject may have a task too many; kept for checking

inVars == <<inTask, inRun, inDay, inPatches, inFate, inCause>>

InNoTask == [subject |-> NoSubject, status |-> "none", resolved |-> 0, since |-> 0]
InIdle == [pc |-> "idle", todo |-> {}, done |-> {}, known |-> {}, made |-> {}, quiet |-> {}]
InActive == {"open", "in_progress"}      \* ACTIVE_STATUSES
InClosed == {"resolved", "dismissed"}    \* _CLOSED_STATUSES

\* raced: another run made a task after this one had asked which there are; reopened: a closed task
\* was opened again; resolvedFirst: a task was dismissed that had been resolved earlier; noise: a
\* task was made although one had been dismissed in the last days.
InTypeOK ==
  /\ \A t \in InTasks : /\ inTask[t].subject \in InSubjects \cup {NoSubject}
                        /\ inTask[t].status \in InActive \cup InClosed \cup {"none"}
  /\ \A r \in InRuns : /\ inRun[r].pc \in {"idle", "scan", "ask", "insert"}
                       /\ inRun[r].todo \subseteq InSubjects /\ inRun[r].made \subseteq InTasks
  /\ inFate \in [InTasks -> {"none", "made", "announced", "lost"}]
  /\ inCause.raced \subseteq InSubjects /\ inCause.reopened \subseteq InSubjects
  /\ inCause.resolvedFirst \subseteq InSubjects /\ inCause.noise \subseteq InSubjects
  /\ inDay \in 1..MaxInDay /\ inPatches \in 0..MaxInPatches

InInit ==
  /\ inTask = [t \in InTasks |-> InNoTask] /\ inFate = [t \in InTasks |-> "none"]
  /\ inRun = [r \in InRuns |-> InIdle]
  /\ inDay = 1 /\ inPatches = 0
  /\ inCause = [raced |-> {}, reopened |-> {}, resolvedFirst |-> {}, noise |-> {}]

-----------------------------------------------------------------------------
(* A run *)

InTriggers == {InTriggerOf[s] : s \in InSubjects}
\* The last 14 full days of sales against the stock of the latest day, a class C article that
\* lies about, a campaign that costs and sells nothing.  A subject without sales has no turnover.
InRecommended(trigger, fact) ==
  CASE trigger = "turnover" -> fact.sold > 0 /\ fact.stock * 14 < 10 * fact.sold
    [] trigger = "stagnant" -> fact.class = "C" /\ fact.stock > 100
    [] trigger = "bad_ad" -> fact.cost > 0 /\ fact.orders = 0
InFound(trigger, facts) ==
  {s \in InSubjects : InTriggerOf[s] = trigger /\ InRecommended(trigger, facts[s])}

InGoes(r, run) ==
  /\ inRun' = [inRun EXCEPT ![r] = run]
  /\ UNCHANGED <<inTask, inDay, inPatches, inFate, inCause>>

InStart(r) ==
  /\ inRun[r].pc = "idle"
  /\ InGoes(r, [InIdle EXCEPT !.pc = "scan"])

\* The triggers one after another, each on what the marts say then; one that fails is passed over.
InScan(r) ==
  /\ inRun[r].pc = "scan"
  /\ LET left == InTriggers \ inRun[r].done
     IN \/ /\ left = {}
           /\ InGoes(r, [inRun[r] EXCEPT !.pc = "ask", !.done = {}])
        \/ \E trigger \in left, facts \in [InSubjects -> InFacts] :
             InGoes(r, [inRun[r] EXCEPT !.done = @ \cup {trigger},
                                        !.todo = @ \cup InFound(trigger, facts)])
        \/ \E trigger \in left : InGoes(r, [inRun[r] EXCEPT !.done = @ \cup {trigger}])

InOf(s) == {t \in InTasks : inTask[t].subject = s}

\* Mutant: what was dismissed is not asked for.
InKnownActive ==
  {s \in InSubjects : \E t \in InOf(s) : inTask[t].status \in InActive}

InKnown ==
  {s \in InSubjects : \E t \in InOf(s) :
     \/ inTask[t].status \in InActive
     \/ inTask[t].status = "dismissed" /\ inTask[t].resolved >= inDay - InQuietDays}
\* What should be left alone: the last dismissal counts, not what the row says of it.
InQuiet ==
  {s \in InSubjects : \E t \in InOf(s) :
     inTask[t].status = "dismissed" /\ inTask[t].since >= inDay - InQuietDays}

InAsk(r) ==
  /\ inRun[r].pc = "ask"
  /\ InGoes(r, [inRun[r] EXCEPT !.pc = "insert", !.known = InKnown, !.quiet = InQuiet])

\* A recommendation after another: passed over when its key is known, else a new task.
InPass(r, s) ==
  /\ inRun[r].pc = "insert" /\ s \in inRun[r].todo /\ s \in inRun[r].known
  /\ InGoes(r, [inRun[r] EXCEPT !.todo = @ \ {s}])

InInsert(r, s) ==
  /\ inRun[r].pc = "insert" /\ s \in inRun[r].todo /\ s \notin inRun[r].known
  /\ \E t \in InTasks :
       /\ inTask[t] = InNoTask
       /\ inTask' = [inTask EXCEPT ![t] = [InNoTask EXCEPT !.subject = s, !.status = "open"]]
       /\ inFate' = [inFate EXCEPT ![t] = "made"]
       /\ inRun' = [u \in InRuns |->
                      IF u = r THEN [inRun[r] EXCEPT !.todo = @ \ {s}, !.known = @ \cup {s},
                                                     !.made = @ \cup {t}]
                      ELSE inRun[u]]
       /\ inCause' = [inCause EXCEPT
            !.raced = @ \cup {x \in {s} : \E u \in InRuns \ {r} : inRun[u].pc = "insert"},
            !.noise = @ \cup ({s} \cap inRun[r].quiet)]
  /\ UNCHANGED <<inDay, inPatches>>

\* One event for all tasks of the run; what becomes of it is in Webhooks.
InAnnounce(r) ==
  /\ inRun[r].pc = "insert" /\ inRun[r].todo = {}
  /\ inRun' = [inRun EXCEPT ![r] = InIdle]
  /\ inFate' = [t \in InTasks |-> IF t \in inRun[r].made THEN "announced" ELSE inFate[t]]
  /\ UNCHANGED <<inTask, inDay, inPatches, inCause>>

\* The worker dies, or a query fails, which ends the run.
InDie(r) ==
  /\ inRun[r].pc # "idle"
  /\ inRun' = [inRun EXCEPT ![r] = InIdle]
  /\ inFate' = [t \in InTasks |-> IF t \in inRun[r].made THEN "lost" ELSE inFate[t]]
  /\ UNCHANGED <<inTask, inDay, inPatches, inCause>>

-----------------------------------------------------------------------------
(* Users, the clock *)

\* A closed task keeps the day it was first closed; an opened one has none.
InResolved(t, status) ==
  IF status \notin InClosed THEN 0
  ELSE IF inTask[t].resolved # 0 THEN inTask[t].resolved ELSE inDay
InPatch(t, status) ==
  /\ inTask[t] # InNoTask /\ inPatches < MaxInPatches /\ inPatches' = inPatches + 1
  /\ inTask' = [inTask EXCEPT ![t].status = status, ![t].resolved = InResolved(t, status),
                              ![t].since = IF status = "dismissed" /\ inTask[t].status = status
                                           THEN inTask[t].since ELSE inDay]
  /\ LET s == inTask[t].subject
     IN inCause' = [inCause EXCEPT
          !.reopened = IF inTask[t].status \in InClosed /\ status \in InActive
                       THEN @ \cup {s} ELSE @,
          !.resolvedFirst = IF inTask[t].status = "resolved" /\ status = "dismissed"
                            THEN @ \cup {s} ELSE @]
  /\ UNCHANGED <<inRun, inDay, inFate>>

InTick ==
  /\ inDay < MaxInDay /\ inDay' = inDay + 1
  /\ UNCHANGED <<inTask, inRun, inPatches, inFate, inCause>>

InNext ==
  \/ \E r \in InRuns : InStart(r) \/ InScan(r) \/ InAsk(r) \/ InAnnounce(r) \/ InDie(r)
  \/ \E r \in InRuns, s \in InSubjects : InPass(r, s) \/ InInsert(r, s)
  \/ \E t \in InTasks, status \in InActive \cup InClosed : InPatch(t, status)
  \/ InTick

InSpec == InInit /\ [][InNext]_inVars

-----------------------------------------------------------------------------
(* Properties *)

\* A subject has one open task, whatever is recommended again, unless two runs made it side by
\* side or a user opened a closed one again.
OneTaskPerSubject ==
  \A s \in InSubjects \ (inCause.raced \cup inCause.reopened) :
    Cardinality({t \in InOf(s) : inTask[t].status \in InActive}) <= 1

\* What was dismissed is not recommended again in the days after, unless the task had been resolved
\* before it was dismissed: its days count from then.
DismissedStaysQuiet == inCause.noise \subseteq inCause.resolvedFirst

\* A task is closed exactly when it says since when.
ClosedSaysWhen ==
  \A t \in InTasks : (inTask[t].status \in InClosed) <=> (inTask[t].resolved # 0)

\* Every task belongs to a run that goes on, or was announced, or its run died.
EveryTaskAccounted ==
  \A t \in InTasks :
    /\ inTask[t] = InNoTask <=> inFate[t] = "none"
    /\ inFate[t] = "made" <=> \E r \in InRuns : t \in inRun[r].made

\* What users are asked to do is what is left to do.
InsightsSound ==
  InTypeOK /\ OneTaskPerSubject /\ DismissedStaysQuiet /\ ClosedSaysWhen /\ EveryTaskAccounted
=============================================================================
