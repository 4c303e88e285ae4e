------------------------------- MODULE Webhooks -------------------------------
(***************************************************************************)
(* Webhook delivery (workers/app/tasks/webhooks.py).  An event is a        *)
(* dispatch message; dispatch_event turns it into one deliver message per  *)
(* subscription; deliver_to_subscription makes one attempt, queues the     *)
(* next one and writes the attempt into webhook_logs.  A worker that dies  *)
(* leaves its message to be delivered again, whatever it has done by then. *)
(***************************************************************************)
EXTENDS Naturals, FiniteSets

CONSTANTS
  HookSubs,        \* subscriptions of one organization
  HookWorkers,     \* worker processes of the webhooks queue
  HookIds,         \* event ids there are to draw from
  HookAttempts,    \* MAX_DELIVERY_ATTEMPTS
  MaxHookEvents,   \* bound: events emitted
  MaxHookFaults    \* bound: crashes, refusing broker, failing inserts

NoHook == "none"

ASSUME HookAssumption == /\ NoHook \notin HookIds
                         /\ HookAttempts \in Nat \ {0}
                         /\ MaxHookEvents \in Nat /\ MaxHookFaults \in Nat

\* dispatch: one per event; deliver: one per subscription and attempt.
HookMessage ==
  [type: {"dispatch"}, id: HookIds \cup {NoHook}, sub: {NoHook}, attempt: {0}]
    \cup [type: {"deliver"}, id: HookIds, sub: HookSubs, attempt: 1..HookAttempts]

VARIABLES
  hookState,       \* what webhook_subscriptions says of each subscription
  hookQueue,       \* messages that wait in the broker, with their number
  hookRuns,        \* what each worker is doing
  hookHits,        \* requests that reached the receiver, by subscription and id
  hookLog,         \* final rows of webhook_logs
  hookDue,         \* history: what dispatch_event has found to be delivered
  hookLost,        \* history: deliveries given up by an exception
  hookEmitted,     \* history: number of events emitted
  hookUsed,        \* ids drawn so far
  hookFaults       \* faults so far

hookVars == <<hookState, hookQueue, hookRuns, hookHits, hookLog, hookDue, hookLost,
              hookEmitted, hookUsed, hookFaults>>

(* deaf: active, and wants other events; unreadable: active, and its secret cannot *)
(* be decrypted.                                                                   *)
HookSubState == {"active", "deaf", "unreadable", "inactive"}
Deliver(s, id, n) == [type |-> "deliver", id |-> id, sub |-> s, attempt |-> n]
Dispatch(id) == [type |-> "dispatch", id |-> id, sub |-> NoHook, attempt |-> 0]

HookIdle == [pc |-> "idle", msg |-> Dispatch(NoHook), id |-> NoHook, todo |-> {}]
HookPlace == {"idle", "fanout", "sending", "failed", "final", "logged"}

HookTypeOK ==
  /\ hookState \in [HookSubs -> HookSubState]
  /\ hookQueue \in [HookMessage -> Nat]
  /\ hookRuns \in [HookWorkers -> [pc: HookPlace, msg: HookMessage,
                                   id: HookIds \cup {NoHook}, todo: SUBSET HookSubs]]
  /\ hookHits \in [HookSubs \X HookIds -> Nat]
  /\ hookLog \subseteq HookSubs \X HookIds
  /\ hookDue \subseteq HookSubs \X HookIds
  /\ hookLost \subseteq HookSubs \X HookIds
  /\ hookEmitted \in 0..MaxHookEvents
  /\ hookUsed \subseteq HookIds
  /\ hookFaults \in 0..MaxHookFaults

HookInit ==
  /\ hookState = [s \in HookSubs |-> "active"]
  /\ hookQueue = [m \in HookMessage |-> 0]
  /\ hookRuns = [w \in HookWorkers |-> HookIdle]
  /\ hookHits = [p \in HookSubs \X HookIds |-> 0]
  /\ hookLog = {} /\ hookDue = {} /\ hookLost = {}
  /\ hookEmitted = 0 /\ hookUsed = {} /\ hookFaults = 0

HookFault == hookFaults < MaxHookFaults /\ hookFaults' = hookFaults + 1

HookAt(w, pc) == hookRuns[w].pc = pc
HookGoes(w, pc) == hookRuns' = [hookRuns EXCEPT ![w].pc = pc]
HookEnds(w) == hookRuns' = [hookRuns EXCEPT ![w] = HookIdle]
HookTarget(w) == <<hookRuns[w].msg.sub, hookRuns[w].msg.id>>

Enqueued(m) == hookQueue' = [hookQueue EXCEPT ![m] = @ + 1]

\* The message of an event carries its id.
EventMessage(id) == Dispatch(id)

\* Mutant: a message is acknowledged when it is taken.
MessageGone(m) == UNCHANGED hookQueue

\* acks_late: the message of a dead worker is delivered again.
MessageReturned(m) == Enqueued(m)

-----------------------------------------------------------------------------
(* emit_event, in the API and in the workers: the id is drawn before the event *)
(* is queued; a refusal of the broker is logged and forgotten.                 *)
EmitEvent(id) ==
  /\ id \notin hookUsed
  /\ hookEmitted < MaxHookEvents
  /\ hookEmitted' = hookEmitted + 1
  /\ hookUsed' = hookUsed \cup {id}
  /\ \/ Enqueued(EventMessage(id)) /\ UNCHANGED hookFaults
     \/ HookFault /\ UNCHANGED hookQueue
  /\ UNCHANGED <<hookState, hookRuns, hookHits, hookLog, hookDue, hookLost>>

\* The API: activate, deactivate, change the events, rotate the secret or its key.
ChangeSubscription(s, state) ==
  /\ state # hookState[s]
  /\ hookState' = [hookState EXCEPT ![s] = state]
  /\ UNCHANGED <<hookQueue, hookRuns, hookHits, hookLog, hookDue, hookLost, hookEmitted,
                 hookUsed, hookFaults>>

-----------------------------------------------------------------------------
(* dispatch_event *)

HookWanted == {s \in HookSubs : hookState[s] \notin {"inactive", "deaf"}}

\* event_id or uuid4()
DispatchEvent(w, m) ==
  /\ HookAt(w, "idle")
  /\ m.type = "dispatch"
  /\ hookQueue[m] > 0
  /\ hookQueue' = [hookQueue EXCEPT ![m] = @ - 1]
  /\ \E id \in IF m.id # NoHook THEN {m.id} ELSE HookIds \ hookUsed :
       /\ hookRuns' = [hookRuns EXCEPT ![w] = [pc |-> "fanout", msg |-> m, id |-> id,
                                               todo |-> HookWanted]]
       /\ hookUsed' = hookUsed \cup {id}
       /\ hookDue' = hookDue \cup HookWanted \X {id}
  /\ UNCHANGED <<hookState, hookHits, hookLog, hookLost, hookEmitted, hookFaults>>

\* One send_task of the loop.
FanOut(w) ==
  /\ HookAt(w, "fanout")
  /\ \E s \in hookRuns[w].todo :
       /\ Enqueued(Deliver(s, hookRuns[w].id, 1))
       /\ hookRuns' = [hookRuns EXCEPT ![w].todo = @ \ {s}]
  /\ UNCHANGED <<hookState, hookHits, hookLog, hookDue, hookLost, hookEmitted, hookUsed,
                 hookFaults>>

\* A send_task of the loop raises: the rest of the subscriptions get nothing.
FanOutFails(w) ==
  /\ HookAt(w, "fanout")
  /\ hookRuns[w].todo # {}
  /\ HookFault
  /\ hookLost' = hookLost \cup hookRuns[w].todo \X {hookRuns[w].id}
  /\ HookEnds(w)
  /\ UNCHANGED <<hookState, hookQueue, hookHits, hookLog, hookDue, hookEmitted, hookUsed>>

-----------------------------------------------------------------------------
(* deliver_to_subscription *)

\* Skipped when inactive or gone, dead_letter when the secret cannot be read.
LoadSubscription(w, m) ==
  /\ HookAt(w, "idle")
  /\ m.type = "deliver"
  /\ hookQueue[m] > 0
  /\ hookQueue' = [hookQueue EXCEPT ![m] = @ - 1]
  /\ hookRuns' = [hookRuns EXCEPT ![w] =
       [pc |-> IF hookState[m.sub] \in {"inactive", "unreadable"} THEN "final" ELSE "sending",
        msg |-> m, id |-> m.id, todo |-> {}]]
  /\ UNCHANGED <<hookState, hookHits, hookLog, hookDue, hookLost, hookEmitted, hookUsed,
                 hookFaults>>

\* blocked: the address is refused before a request is made, and not tried again.
\* failed: an error, an answer other than 2xx, or an answer that is not seen.
SendSigned(w) ==
  /\ HookAt(w, "sending")
  /\ \E outcome \in {"delivered", "refused", "unanswered", "unreachable", "blocked"} :
       /\ HookGoes(w, IF outcome \in {"delivered", "blocked"} THEN "final" ELSE "failed")
       /\ hookHits' = IF outcome \in {"unreachable", "blocked"} THEN hookHits
                      ELSE [hookHits EXCEPT ![HookTarget(w)] = @ + 1]
  /\ UNCHANGED <<hookState, hookQueue, hookLog, hookDue, hookLost, hookEmitted, hookUsed,
                 hookFaults>>

\* attempt < MAX_DELIVERY_ATTEMPTS
NextAttempt(n) == IF n < HookAttempts THEN {n + 1} ELSE {}

\* Mutant: the next attempt is announced in the log and never queued.
QueueRetryForgotten(m, n) == UNCHANGED hookQueue

QueueRetry(m, n) == Enqueued(Deliver(m.sub, m.id, n))

\* The next attempt is queued before this one is logged; the last one becomes dead_letter.
ScheduleRetry(w) ==
  LET m == hookRuns[w].msg
      next == NextAttempt(m.attempt) IN
  /\ HookAt(w, "failed")
  /\ IF next = {} THEN HookGoes(w, "final") /\ UNCHANGED hookQueue
     ELSE /\ \E n \in next : QueueRetry(m, n)
          /\ HookGoes(w, "logged")
  /\ UNCHANGED <<hookState, hookHits, hookLog, hookDue, hookLost, hookEmitted, hookUsed,
                 hookFaults>>

\* The broker refuses the next attempt: the exception ends the task before the log.
RetryRefused(w) ==
  /\ HookAt(w, "failed")
  /\ NextAttempt(hookRuns[w].msg.attempt) # {}
  /\ HookFault
  /\ hookLost' = hookLost \cup {HookTarget(w)}
  /\ HookEnds(w)
  /\ UNCHANGED <<hookState, hookQueue, hookHits, hookLog, hookDue, hookEmitted, hookUsed>>

LogAttempt(w) ==
  /\ HookAt(w, "final")
  /\ \/ hookLog' = hookLog \cup {HookTarget(w)} /\ UNCHANGED <<hookLost, hookFaults>>
     \/ HookFault /\ hookLost' = hookLost \cup {HookTarget(w)} /\ UNCHANGED hookLog
  /\ HookGoes(w, "logged")
  /\ UNCHANGED <<hookState, hookQueue, hookHits, hookDue, hookEmitted, hookUsed>>

-----------------------------------------------------------------------------
\* The row retrying, which nothing depends on, is part of this step; the message is
\* acknowledged at the end of the task, whatever it was.
Acknowledge(w) ==
  /\ \/ HookAt(w, "logged")
     \/ HookAt(w, "fanout") /\ hookRuns[w].todo = {}
  /\ HookEnds(w)
  /\ UNCHANGED <<hookState, hookQueue, hookHits, hookLog, hookDue, hookLost, hookEmitted,
                 hookUsed, hookFaults>>

\* The message of a dead worker is delivered again; what a dispatch still had to send is
\* what the next one finds.
HookCrash(w) ==
  /\ ~HookAt(w, "idle")
  /\ HookFault
  /\ MessageReturned(hookRuns[w].msg)
  /\ hookDue' = hookDue \ (hookRuns[w].todo \X {hookRuns[w].id})
  /\ HookEnds(w)
  /\ UNCHANGED <<hookState, hookHits, hookLog, hookLost, hookEmitted, hookUsed>>

HookStep(w) ==
  \/ \E m \in HookMessage : DispatchEvent(w, m) \/ LoadSubscription(w, m)
  \/ FanOut(w) \/ SendSigned(w) \/ ScheduleRetry(w) \/ LogAttempt(w) \/ Acknowledge(w)

HookMishap(w) == FanOutFails(w) \/ RetryRefused(w) \/ HookCrash(w)

HookNext ==
  \/ \E id \in HookIds : EmitEvent(id)
  \/ \E s \in HookSubs, state \in HookSubState : ChangeSubscription(s, state)
  \/ \E w \in HookWorkers : HookStep(w) \/ HookMishap(w)

HookSpec == HookInit /\ [][HookNext]_hookVars

-----------------------------------------------------------------------------
(* Properties. *)

\* What a subscription was found to be owed is always somewhere: with the dispatcher, in
\* the queue, with a worker, in the log for good, or lost with an exception on record.
Carried(s, id) ==
  \/ <<s, id>> \in hookLog \cup hookLost
  \/ \E m \in HookMessage : m.type = "deliver" /\ m.sub = s /\ m.id = id /\ hookQueue[m] > 0
  \/ \E w \in HookWorkers : /\ hookRuns[w].id = id
                            /\ \/ s \in hookRuns[w].todo
                               \/ hookRuns[w].msg.sub = s

NothingDropped == \A p \in hookDue : Carried(p[1], p[2])

\* Six attempts in total: only a death of a worker or a failure makes it more, and each of
\* them no more than another six.
AttemptsBounded ==
  \A p \in HookSubs \X HookIds : hookHits[p] <= HookAttempts * (1 + hookFaults)

\* A receiver that knows each id once gets each event once: a repeated dispatch does not
\* give an event another id.
IdsKept ==
  \A s \in HookSubs : Cardinality({id \in HookIds : hookHits[<<s, id>>] > 0}) <= hookEmitted

\* Every delivery that is owed comes to a final row or is lost with an exception, and none is
\* attempted without bound on the way.
HookSettles ==
  /\ AttemptsBounded /\ [][AttemptsBounded']_hookVars
  /\ \A p \in HookSubs \X HookIds :
       p \in hookDue ~> p \in hookLog \cup hookLost \/ p \notin hookDue

\* No delivery is dropped or sent under another id.
HooksSound == HookTypeOK /\ NothingDropped /\ IdsKept
=============================================================================
