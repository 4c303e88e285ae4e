---------------------------- MODULE ActionLedger ----------------------------
(***************************************************************************)
(* One task that evaluates rules against a marketplace: the repricer       *)
(* (workers/app/tasks/repricer.py) or the bidder (workers/app/tasks/       *)
(* bidder.py), with the guard rails of workers/app/utils/                  *)
(* marketplace_actions.py around every change it sends.                    *)
(*                                                                         *)
(* A run is one delivery of the Celery task.  It takes the Redis lock of   *)
(* its task (TTL 900 s, never renewed), reads the active rules once, and   *)
(* goes through them: it plans a change, looks the change up in the table  *)
(* sys_marketplace_actions, writes a pending marker, calls the             *)
(* marketplace, and writes the outcome.  Runs interleave at every await on *)
(* Redis, ClickHouse or the marketplace; a run may crash anywhere; the     *)
(* lock may run out under a run that is still going (LeaseMayLapse); an    *)
(* insert may raise, before or after the row is stored (StoreMayFail).     *)
(*                                                                         *)
(* What a rule asks for is any value at any time: the planning itself is   *)
(* modelled by Repricer and PricePlan.                                     *)
(***************************************************************************)
EXTENDS Naturals, FiniteSets

CONSTANTS
  Runs,            \* deliveries of the task
  Rules,           \* what a change is addressed to: (rule, marketplace, account, target)
  Supported,       \* the rules with a marketplace API and credentials (executor is not None)
  Values,          \* the values a rule may ask for
  NoRun,           \* nobody holds the lock
  NoKey,           \* a run that is executing no change
  MaxDay,          \* bound: the UTC days modelled
  Budget,          \* MARKETPLACE_ACTIONS_MAX_PER_RUN
  LeaseMayLapse,   \* whether a run may outlast the TTL of its lock
  StoreMayFail     \* whether a ClickHouse insert may raise

ASSUME RunsFinite     == IsFiniteSet(Runs)
ASSUME NoRunIsNoRun   == NoRun \notin Runs
ASSUME DaysAreNumbers == MaxDay \in Nat \ {0}
ASSUME BudgetPositive == Budget \in Nat \ {0}
ASSUME FlagsAreFlags  == LeaseMayLapse \in BOOLEAN /\ StoreMayFail \in BOOLEAN
ASSUME SupportedRules == Supported \subseteq Rules

VARIABLES
  lock,      \* the run whose token is in Redis, or NoRun
  day,       \* the UTC date
  mode,      \* per rule: "off" (inactive), "dry" or "live"
  ledger,    \* the rows of sys_marketplace_actions
  calls,     \* the calls that reached the marketplace, with what became of each
  pc,        \* per run: where it is
  todo,      \* per run: the rules it has read and not yet evaluated
  budget,    \* per run: live calls it may still make
  enabled,   \* per run: MARKETPLACE_ACTIONS_ENABLED in its process
  key,       \* per run: the idempotency key it is executing, or NoKey
  status     \* per run: the status it is about to record

vars == <<lock, day, mode, ledger, calls, pc, todo, budget, enabled, key, status>>
\* what a run reads and writes outside its own process
shared == <<lock, day, mode, ledger, calls>>

-----------------------------------------------------------------------------
Modes == {"off", "dry", "live"}
Statuses == {"simulated", "blocked", "unsupported", "pending", "applied", "failed"}
Places == {"new", "fetch", "loop", "decide", "mark", "call", "wait", "record",
           "done", "skipped", "crashed"}
Ended == {"done", "skipped", "crashed"}

\* PlannedAction.idempotency_key: rule, target, value, dry or live, UTC day.
Key == [rule : Rules, value : Values, dry : BOOLEAN, day : 1..MaxDay]
\* A run evaluates a rule once, so <<run, key>> names one attempt.
Row == [run : Runs, key : Key, status : Statuses]
Call == [run : Runs, key : Key,
         outcome : {"inflight", "accepted", "rejected", "timeout"}]

\* The attempts at k that wrote status s: countIf(status = s) over the key.
Attempts(k, s) == {r \in Runs : [run |-> r, key |-> k, status |-> s] \in ledger}

\* Mutant: only finished rows count, a marker without an outcome does not.
AlreadyRecordedIgnoresMarkers(k) ==
  \E s \in {"simulated", "blocked", "applied"} : Attempts(k, s) # {}

\* _already_recorded: done, simulated, blocked, or possibly sent.
AlreadyRecorded(k) ==
  \/ \E s \in {"simulated", "blocked", "applied"} : Attempts(k, s) # {}
  \/ Cardinality(Attempts(k, "pending")) > Cardinality(Attempts(k, "failed"))

\* _record: append one row.
Append1(r, s) == ledger \cup {[run |-> r, key |-> key[r], status |-> s]}

Init ==
  /\ lock = NoRun
  /\ day = 1
  /\ mode \in [Rules -> Modes]
  /\ ledger = {}
  /\ calls = {}
  /\ pc = [r \in Runs |-> "new"]
  /\ todo = [r \in Runs |-> {}]
  /\ budget = [r \in Runs |-> Budget]
  /\ enabled = [r \in Runs |-> FALSE]
  /\ key = [r \in Runs |-> NoKey]
  /\ status = [r \in Runs |-> "pending"]

-----------------------------------------------------------------------------
(* The run *)

\* SET key token NX EX 900, in a worker process whose kill switch is on or off.
Acquire(r, on) ==
  /\ pc[r] = "new"
  /\ lock = NoRun
  /\ lock' = r
  /\ enabled' = [enabled EXCEPT ![r] = on]
  /\ pc' = [pc EXCEPT ![r] = "fetch"]
  /\ UNCHANGED <<day, mode, ledger, calls, todo, budget, key, status>>

\* LockNotAcquiredError: the delivery is acknowledged and returns "skipped".
Skip(r) ==
  /\ pc[r] = "new"
  /\ lock # NoRun
  /\ pc' = [pc EXCEPT ![r] = "skipped"]
  /\ UNCHANGED <<shared, todo, budget, enabled, key, status>>

\* fetch_active_rules: the rules and their dry_run flags as they are now.
FetchRules(r) ==
  /\ pc[r] = "fetch"
  /\ todo' = [todo EXCEPT ![r] =
                {[rule |-> u, dry |-> (mode[u] = "dry")] : u \in {x \in Rules : mode[x] # "off"}}]
  /\ pc' = [pc EXCEPT ![r] = "loop"]
  /\ UNCHANGED <<shared, budget, enabled, key, status>>

\* The rule needs no change, waits for a snapshot, raises, or is out of budget.
PassOver(r, t) ==
  /\ pc[r] = "loop"
  /\ t \in todo[r]
  /\ todo' = [todo EXCEPT ![r] = @ \ {t}]
  /\ UNCHANGED <<shared, pc, budget, enabled, key, status>>

\* Mutant: the budget is counted but never looked at.
PlanBeyondBudget(r, t, v) ==
  /\ pc[r] = "loop"
  /\ t \in todo[r]
  /\ todo' = [todo EXCEPT ![r] = @ \ {t}]
  /\ key' = [key EXCEPT ![r] = [rule |-> t.rule, value |-> v, dry |-> t.dry, day |-> day]]
  /\ pc' = [pc EXCEPT ![r] = "decide"]
  /\ UNCHANGED <<shared, budget, enabled, status>>

\* The rule asks for value v; execute_action stamps the key with today's date.
Plan(r, t, v) ==
  /\ pc[r] = "loop"
  /\ t \in todo[r]
  /\ t.dry \/ budget[r] > 0
  /\ todo' = [todo EXCEPT ![r] = @ \ {t}]
  /\ key' = [key EXCEPT ![r] = [rule |-> t.rule, value |-> v, dry |-> t.dry, day |-> day]]
  /\ pc' = [pc EXCEPT ![r] = "decide"]
  /\ UNCHANGED <<shared, budget, enabled, status>>

\* skipped_duplicate
Duplicate(r) ==
  /\ pc[r] = "decide"
  /\ AlreadyRecorded(key[r])
  /\ key' = [key EXCEPT ![r] = NoKey]
  /\ pc' = [pc EXCEPT ![r] = "loop"]
  /\ UNCHANGED <<shared, todo, budget, enabled, status>>

\* What becomes of a change that nothing is recorded of.
Verdict(r) ==
  CASE key[r].dry                   -> "simulated"
    [] ~key[r].dry /\ ~enabled[r]   -> "blocked"
    [] ~key[r].dry /\ enabled[r] /\ key[r].rule \notin Supported -> "unsupported"
    [] OTHER                        -> "pending"

Decide(r) ==
  /\ pc[r] = "decide"
  /\ ~AlreadyRecorded(key[r])
  /\ status' = [status EXCEPT ![r] = Verdict(r)]
  /\ pc' = [pc EXCEPT ![r] = IF Verdict(r) = "pending" THEN "mark" ELSE "record"]
  /\ UNCHANGED <<shared, todo, budget, enabled, key>>

\* Mutant: the marketplace is called without the marker.
MarkNothing(r) ==
  /\ pc[r] = "mark"
  /\ pc' = [pc EXCEPT ![r] = "call"]
  /\ UNCHANGED <<shared, todo, budget, enabled, key, status>>

\* The marker that must be in the table before the marketplace is called.
MarkPending(r) ==
  /\ pc[r] = "mark"
  /\ ledger' = Append1(r, "pending")
  /\ pc' = [pc EXCEPT ![r] = "call"]
  /\ UNCHANGED <<lock, day, mode, calls, todo, budget, enabled, key, status>>

\* executor(): the request leaves the process.
Send(r) ==
  /\ pc[r] = "call"
  /\ calls' = calls \cup {[run |-> r, key |-> key[r], outcome |-> "inflight"]}
  /\ pc' = [pc EXCEPT ![r] = "wait"]
  /\ UNCHANGED <<lock, day, mode, ledger, todo, budget, enabled, key, status>>

\* Mutant: no error from the marketplace, so the change counts as applied.
AnswerOptimistic(r, o) ==
  /\ pc[r] = "wait"
  /\ calls' = (calls \ {[run |-> r, key |-> key[r], outcome |-> "inflight"]})
                \cup {[run |-> r, key |-> key[r], outcome |-> o]}
  /\ status' = [status EXCEPT ![r] = IF o # "rejected" THEN "applied" ELSE "failed"]
  /\ pc' = [pc EXCEPT ![r] = "record"]
  /\ UNCHANGED <<lock, day, mode, ledger, todo, budget, enabled, key>>

\* ActionResult: accepted, refused, or an exception such as a timeout, after
\* which nobody knows whether the marketplace acted; both of these are failed.
Answer(r, o) ==
  /\ pc[r] = "wait"
  /\ calls' = (calls \ {[run |-> r, key |-> key[r], outcome |-> "inflight"]})
                \cup {[run |-> r, key |-> key[r], outcome |-> o]}
  /\ status' = [status EXCEPT ![r] = IF o = "accepted" THEN "applied" ELSE "failed"]
  /\ pc' = [pc EXCEPT ![r] = "record"]
  /\ UNCHANGED <<lock, day, mode, ledger, todo, budget, enabled, key>>

\* The terminal row, then the budget of the run.
Record(r) ==
  /\ pc[r] = "record"
  /\ ledger' = Append1(r, status[r])
  /\ budget' = [budget EXCEPT ![r] = IF status[r] \in {"applied", "failed"} THEN @ - 1 ELSE @]
  /\ key' = [key EXCEPT ![r] = NoKey]
  /\ status' = [status EXCEPT ![r] = "pending"]
  /\ pc' = [pc EXCEPT ![r] = "loop"]
  /\ UNCHANGED <<lock, day, mode, calls, todo, enabled>>

\* _record raises, with the row stored or not; the rule's "except Exception"
\* swallows it and the run goes on with the next rule.
StoreFails(r, stored) ==
  /\ StoreMayFail
  /\ pc[r] \in {"mark", "record"}
  /\ ledger' = IF stored
               THEN Append1(r, IF pc[r] = "mark" THEN "pending" ELSE status[r])
               ELSE ledger
  /\ key' = [key EXCEPT ![r] = NoKey]
  /\ status' = [status EXCEPT ![r] = "pending"]
  /\ pc' = [pc EXCEPT ![r] = "loop"]
  /\ UNCHANGED <<lock, day, mode, calls, todo, budget, enabled>>

\* release_lock: delete the Redis key only if it still holds this run's token.
Released(r) == IF lock = r THEN NoRun ELSE lock

\* The loop is over, or reading the rules raised: lock_scope releases the lock.
Finish(r) ==
  /\ \/ pc[r] = "loop" /\ todo[r] = {}
     \/ pc[r] = "fetch" /\ StoreMayFail
  /\ lock' = Released(r)
  /\ pc' = [pc EXCEPT ![r] = "done"]
  /\ budget' = [budget EXCEPT ![r] = Budget]
  /\ enabled' = [enabled EXCEPT ![r] = FALSE]
  /\ UNCHANGED <<day, mode, ledger, calls, todo, key, status>>

\* The worker dies: its memory is gone, nothing is released, and what is in Redis
\* and ClickHouse stays.
Crash(r) ==
  /\ pc[r] \notin {"new"} \cup Ended
  /\ pc' = [pc EXCEPT ![r] = "crashed"]
  /\ enabled' = [enabled EXCEPT ![r] = FALSE]
  /\ todo' = [todo EXCEPT ![r] = {}]
  /\ budget' = [budget EXCEPT ![r] = Budget]
  /\ key' = [key EXCEPT ![r] = NoKey]
  /\ status' = [status EXCEPT ![r] = "pending"]
  /\ UNCHANGED shared

-----------------------------------------------------------------------------
(* Around the run *)

\* The TTL of the Redis key runs out: always possible once its holder is dead.
LockExpires ==
  /\ lock # NoRun
  /\ LeaseMayLapse \/ pc[lock] \in Ended
  /\ lock' = NoRun
  /\ UNCHANGED <<day, mode, ledger, calls, pc, todo, budget, enabled, key, status>>

NextDay ==
  /\ day < MaxDay
  /\ day' = day + 1
  /\ UNCHANGED <<lock, mode, ledger, calls, pc, todo, budget, enabled, key, status>>

\* A user switches a rule off, to dry-run or live.
SetMode(u, m) ==
  /\ m # mode[u]
  /\ mode' = [mode EXCEPT ![u] = m]
  /\ UNCHANGED <<lock, day, ledger, calls, pc, todo, budget, enabled, key, status>>

RunStep(r) ==
  \/ \E on \in BOOLEAN : Acquire(r, on)
  \/ Skip(r) \/ FetchRules(r)
  \/ \E t \in todo[r] : PassOver(r, t)
  \/ \E t \in todo[r], v \in Values : Plan(r, t, v)
  \/ Duplicate(r) \/ Decide(r) \/ MarkPending(r) \/ Send(r)
  \/ \E o \in {"accepted", "rejected", "timeout"} : Answer(r, o)
  \/ Record(r)
  \/ \E stored \in BOOLEAN : StoreFails(r, stored)
  \/ Finish(r)

Next ==
  \/ \E r \in Runs : RunStep(r) \/ Crash(r)
  \/ LockExpires
  \/ NextDay
  \/ \E u \in Rules, m \in Modes : SetMode(u, m)

Spec == Init /\ [][Next]_vars

\* A worker that is not dead goes on with its run, and Redis drops a key whose
\* TTL is over.
Fairness == (\A r \in Runs : WF_vars(RunStep(r))) /\ WF_vars(LockExpires)
FairSpec == Spec /\ Fairness

-----------------------------------------------------------------------------
(* Properties *)

TypeOK ==
  /\ lock \in Runs \cup {NoRun}
  /\ day \in 1..MaxDay
  /\ mode \in [Rules -> Modes]
  /\ ledger \subseteq Row
  /\ calls \subseteq Call
  /\ pc \in [Runs -> Places]
  /\ todo \in [Runs -> SUBSET [rule : Rules, dry : BOOLEAN]]
  /\ budget \in [Runs -> Nat]
  /\ enabled \in [Runs -> BOOLEAN]
  /\ key \in [Runs -> Key \cup {NoKey}]
  /\ status \in [Runs -> Statuses]

\* The attempt a call belongs to has written s.
Wrote(c, s) == [run |-> c.run, key |-> c.key, status |-> s] \in ledger

\* The audit trail is complete: whatever was sent to a marketplace, in whatever
\* order runs interleave, crash or fail to write, its pending marker was in the
\* table first (execute_action lines 176-177), and it was a live change.
AuditComplete == \A c \in calls : Wrote(c, "pending") /\ ~c.key.dry

\* The audit trail is truthful: an applied or failed row stands for a call that
\* was answered that way, never for one that was not made or is still open.
AuditTruthful ==
  \A w \in ledger :
    /\ w.status = "applied" =>
         [run |-> w.run, key |-> w.key, outcome |-> "accepted"] \in calls
    /\ w.status = "failed" =>
         \E o \in {"rejected", "timeout"} :
           [run |-> w.run, key |-> w.key, outcome |-> o] \in calls

\* Of the calls made for one idempotency key all but one were recorded as
\* failed: a change that was applied, or whose worker died mid-call, is not sent
\* again (the guarantee of _already_recorded).
SentOnce ==
  \A c, d \in calls :
    c.key = d.key /\ ~Wrote(c, "failed") /\ ~Wrote(d, "failed") => c = d

\* docs/marketplace_actions.md: at most MARKETPLACE_ACTIONS_MAX_PER_RUN live
\* calls per run.
BudgetKept == \A r \in Runs : Cardinality({c \in calls : c.run = r}) <= Budget

\* Two runs are never in their critical section together.
Active(r) == pc[r] \notin {"new"} \cup Ended
Exclusive == \A r, s \in Runs : Active(r) /\ Active(s) => r = s

\* The ledger implements ActionContract: an attempt is open from the request
\* until the failed row, and accepted when the marketplace says so.
OpenKeys == {c.key : c \in {d \in calls : d.outcome # "accepted" /\ ~Wrote(d, "failed")}}
AcceptedKeys == {c.key : c \in {d \in calls : d.outcome = "accepted"}}
Contract == INSTANCE ActionContract
              WITH Changes <- Key, open <- OpenKeys, accepted <- AcceptedKeys
\* Every step of the task, however many runs there are and wherever they crash,
\* is a step of the contract or changes nothing the contract speaks of.
KeepsContract == Contract!Spec

\* Whatever crashes, the lock is free again and again: a dead run does not stop
\* the task for good.
LockFreedAgain == []<>(lock = NoRun)
\* Every run that is delivered ends, unless its worker dies.
RunsEnd == \A r \in Runs : <>(pc[r] \in Ended)

\* However runs overlap, no run makes more calls than its budget, and states are of their type.
LedgerSound == TypeOK /\ BudgetKept
=============================================================================
