------------------------------ MODULE Reviews -------------------------------
(***************************************************************************)
(* Replies to reviews: the task that collects reviews and answers the ones *)
(* without text (workers/app/tasks/reviews.py), replies typed on the page  *)
(* (backend/app/services/review_service.py), the reply log                 *)
(* (common/review_store.py) and the requests that send a reply             *)
(* (collectors/reviews.py over collectors/common/http_client.py).          *)
(***************************************************************************)
EXTENDS Naturals, FiniteSets

CONSTANTS
  RvReviews,        \* unanswered reviews without text, numbered from the oldest
  RvWanted,         \* those whose rating has a mode, and a text to send
  RvRuns,           \* tasks that may be under way at once
  RvHand,           \* the thread of a reply typed on the page
  RvNoRun,
  RvBudget,         \* REVIEW_AUTO_REPLIES_PER_RUN
  RvAttempts,       \* max_attempts of JsonHttpClient
  MaxRvFaults,      \* bound: crashes, answers lost, locks that expire under a run
  MaxRvRefusals,    \* bound: requests refused, or lost on the way out
  MaxRvByHand       \* bound: replies typed

ASSUME RvAssumption ==
  /\ RvReviews \subseteq Nat \ {0} /\ RvWanted \subseteq RvReviews
  /\ IsFiniteSet(RvRuns) /\ RvHand \notin RvRuns /\ RvNoRun \notin RvRuns
  /\ RvBudget \in Nat \ {0} /\ RvAttempts \in Nat \ {0}
  /\ MaxRvFaults \in Nat /\ MaxRvRefusals \in Nat /\ MaxRvByHand \in Nat

VARIABLES
  rvReplies,        \* review -> replies the marketplace holds
  rvStored,         \* review -> is_answered in fct_review
  rvLog,            \* review -> what sys_review_reply says: "stale" is a failure past FAILED_RETRY_HOURS
  rvThread,         \* runs and the reply typed
  rvLock,           \* run whose lock it is
  rvFaults, rvRefusals,
  rvByHand          \* review -> replies typed for it

rvVars == <<rvReplies, rvStored, rvLog, rvThread, rvLock, rvFaults, rvRefusals, rvByHand>>

RvThreads == RvRuns \cup {RvHand}
RvNoReview == 0
\* queue: what a run has still to answer; review: the one in hand.
RvIdle == [pc |-> "idle", seen |-> {}, queue |-> {}, review |-> RvNoReview, attempt |-> 1, ok |-> FALSE]

RvTypeOK ==
  /\ rvReplies \in [RvReviews -> Nat]
  /\ rvStored \in [RvReviews -> BOOLEAN]
  /\ rvLog \in [RvReviews -> {"none", "failed", "stale", "sent"}]
  /\ rvThread \in [RvThreads -> [pc: {"idle", "fetch", "insert", "list", "next", "send", "record"},
                                 seen: SUBSET RvReviews, queue: SUBSET RvReviews,
                                 review: RvReviews \cup {RvNoReview}, attempt: 1..RvAttempts, ok: BOOLEAN]]
  /\ rvLock \in RvRuns \cup {RvNoRun}
  /\ rvFaults \in 0..MaxRvFaults /\ rvRefusals \in 0..MaxRvRefusals
  /\ rvByHand \in [RvReviews -> 0..MaxRvByHand]

RvInit ==
  /\ rvReplies = [r \in RvReviews |-> 0] /\ rvStored = [r \in RvReviews |-> FALSE]
  /\ rvLog = [r \in RvReviews |-> "none"]
  /\ rvThread = [t \in RvThreads |-> RvIdle]
  /\ rvLock = RvNoRun
  /\ rvFaults = 0 /\ rvRefusals = 0
  /\ rvByHand = [r \in RvReviews |-> 0]

RvFault == rvFaults < MaxRvFaults /\ rvFaults' = rvFaults + 1

\* sync_reviews under the lock; a run that finds it held is skipped.
RvStart(t) ==
  /\ rvThread[t].pc = "idle" /\ rvLock = RvNoRun
  /\ rvLock' = t
  /\ rvThread' = [rvThread EXCEPT ![t].pc = "fetch"]
  /\ UNCHANGED <<rvReplies, rvStored, rvLog, rvFaults, rvRefusals, rvByHand>>

\* collect_wb and its siblings ask the marketplace which reviews are answered; on an error the
\* run goes on with what is stored.
RvFetch(t) ==
  /\ rvThread[t].pc = "fetch"
  /\ rvThread' = [rvThread EXCEPT ![t].pc = "insert", ![t].seen = {r \in RvReviews : rvReplies[r] > 0}]
  /\ UNCHANGED <<rvReplies, rvStored, rvLog, rvLock, rvFaults, rvRefusals, rvByHand>>

RvFetchFails(t) ==
  /\ rvThread[t].pc = "fetch"
  /\ rvThread' = [rvThread EXCEPT ![t].pc = "list"]
  /\ UNCHANGED <<rvReplies, rvStored, rvLog, rvLock, rvFaults, rvRefusals, rvByHand>>

\* A run of another second may have stored newer rows; they are kept, an answer is not taken back.
RvInsert(t) ==
  /\ rvThread[t].pc = "insert"
  /\ rvStored' = [r \in RvReviews |-> rvStored[r] \/ r \in rvThread[t].seen]
  /\ rvThread' = [rvThread EXCEPT ![t].pc = "list", ![t].seen = {}]
  /\ UNCHANGED <<rvReplies, rvLog, rvLock, rvFaults, rvRefusals, rvByHand>>

\* pending_auto_reviews: unanswered, no reply sent, none that failed lately; the oldest first.
\* Mutant: a reply that was sent does not keep the review off the list.
RvDueWhateverSent(r) == TRUE
\* Mutant: a reply that failed is not tried again.
RvDueOnce(r) == rvLog[r] = "none"
RvDue(r) == rvLog[r] \in {"none", "stale"}
RvPending == {r \in RvReviews : ~rvStored[r] /\ RvDue(r)}

RvList(t) ==
  /\ rvThread[t].pc = "list"
  /\ rvThread' = [rvThread EXCEPT ![t].pc = "next",
       ![t].queue = {r \in RvPending : Cardinality({s \in RvPending : s < r}) < RvBudget}]
  /\ UNCHANGED <<rvReplies, rvStored, rvLog, rvLock, rvFaults, rvRefusals, rvByHand>>

\* A review whose rating is off, or that has no text to send, is passed over and not recorded.
RvChoose(t) ==
  /\ rvThread[t].pc = "next"
  /\ \E r \in rvThread[t].queue :
       /\ \A s \in rvThread[t].queue : r <= s
       /\ rvThread' = [rvThread EXCEPT ![t].queue = @ \ {r},
                         ![t].review = IF r \in RvWanted THEN r ELSE RvNoReview,
                         ![t].pc = IF r \in RvWanted THEN "send" ELSE "next"]
  /\ UNCHANGED <<rvReplies, rvStored, rvLog, rvLock, rvFaults, rvRefusals, rvByHand>>

\* send_reply: one request of _request.
RvAccepted(t) ==
  LET r == rvThread[t].review IN
  /\ rvThread[t].pc = "send"
  /\ rvReplies' = [rvReplies EXCEPT ![r] = @ + 1]
  /\ rvThread' = [rvThread EXCEPT ![t].pc = "record", ![t].ok = TRUE]
  /\ UNCHANGED <<rvStored, rvLog, rvLock, rvFaults, rvRefusals, rvByHand>>

\* After a transport error the request is repeated, up to max_attempts.
RvRepeat(t) ==
  IF rvThread[t].attempt < RvAttempts THEN rvThread' = [rvThread EXCEPT ![t].attempt = @ + 1]
  ELSE rvThread' = [rvThread EXCEPT ![t].pc = "record", ![t].ok = FALSE]

\* Nothing arrived, or the marketplace refused it.
RvRefused(t) ==
  /\ rvThread[t].pc = "send"
  /\ rvRefusals < MaxRvRefusals /\ rvRefusals' = rvRefusals + 1
  /\ \/ RvRepeat(t)
     \/ rvThread' = [rvThread EXCEPT ![t].pc = "record", ![t].ok = FALSE]
  /\ UNCHANGED <<rvReplies, rvStored, rvLog, rvLock, rvFaults, rvByHand>>

\* The reply arrived and the answer was lost: to the client that is a transport error too.
RvAnswerLost(t) ==
  /\ rvThread[t].pc = "send"
  /\ RvFault
  /\ rvReplies' = [rvReplies EXCEPT ![rvThread[t].review] = @ + 1]
  /\ RvRepeat(t)
  /\ UNCHANGED <<rvStored, rvLog, rvLock, rvRefusals, rvByHand>>

\* record_reply.  A sent row hides every failure of the review, before or after it.
RvRecord(t) ==
  LET r == rvThread[t].review IN
  /\ rvThread[t].pc = "record"
  /\ rvLog' = [rvLog EXCEPT ![r] = IF rvThread[t].ok \/ @ = "sent" THEN "sent" ELSE "failed"]
  /\ rvThread' = [rvThread EXCEPT ![t] = [RvIdle EXCEPT !.pc = IF t = RvHand THEN "idle" ELSE "next",
                                                        !.queue = rvThread[t].queue]]
  /\ UNCHANGED <<rvReplies, rvStored, rvLock, rvFaults, rvRefusals, rvByHand>>

\* release_lock, of a lock that is still this run's.
RvEnd(t) ==
  /\ rvThread[t].pc = "next" /\ rvThread[t].queue = {}
  /\ rvThread' = [rvThread EXCEPT ![t] = RvIdle]
  /\ rvLock' = IF rvLock = t THEN RvNoRun ELSE rvLock
  /\ UNCHANGED <<rvReplies, rvStored, rvLog, rvFaults, rvRefusals, rvByHand>>

RvStep(t) ==
  \/ RvFetch(t) \/ RvFetchFails(t) \/ RvInsert(t) \/ RvList(t) \/ RvChoose(t)
  \/ RvAccepted(t) \/ RvRefused(t) \/ RvAnswerLost(t) \/ RvRecord(t) \/ RvEnd(t)

\* reply: a person answers a review of the page, answered or not.
RvReplyByHand(r) ==
  /\ rvThread[RvHand].pc = "idle"
  /\ rvByHand[r] < MaxRvByHand
  /\ rvByHand' = [rvByHand EXCEPT ![r] = @ + 1]
  /\ rvThread' = [rvThread EXCEPT ![RvHand] = [RvIdle EXCEPT !.pc = "send", !.review = r]]
  /\ UNCHANGED <<rvReplies, rvStored, rvLog, rvLock, rvFaults, rvRefusals>>

\* The worker dies; its lock stays until the TTL is over.
RvCrash(t) ==
  /\ rvThread[t].pc # "idle"
  /\ RvFault
  /\ rvThread' = [rvThread EXCEPT ![t] = RvIdle]
  /\ UNCHANGED <<rvReplies, rvStored, rvLog, rvLock, rvRefusals, rvByHand>>

\* ttl_seconds without renewal: the lock of a dead run ends, and one of a run that takes long.
RvLockExpires ==
  /\ rvLock # RvNoRun
  /\ rvLock' = RvNoRun
  /\ IF rvThread[rvLock].pc = "idle" THEN UNCHANGED rvFaults ELSE RvFault
  /\ UNCHANGED <<rvReplies, rvStored, rvLog, rvThread, rvRefusals, rvByHand>>

RvRetryDue(r) ==
  /\ rvLog[r] = "failed"
  /\ rvLog' = [rvLog EXCEPT ![r] = "stale"]
  /\ UNCHANGED <<rvReplies, rvStored, rvThread, rvLock, rvFaults, rvRefusals, rvByHand>>

RvNext ==
  \/ \E t \in RvRuns : RvStart(t)
  \/ \E t \in RvThreads : RvStep(t) \/ RvCrash(t)
  \/ \E r \in RvReviews : RvReplyByHand(r) \/ RvRetryDue(r)
  \/ RvLockExpires

RvSpec == RvInit /\ [][RvNext]_rvVars

-----------------------------------------------------------------------------

\* A reply beyond the first one and those a person typed has a cause: an answer that was lost,
\* a worker that died before it recorded the reply, or a lock that ran out under a long run; and
\* each of these costs a review at most one reply.  The collection, the reply log and the pause
\* after a failure together hold this, whichever of them lags behind.
DuplicatesHaveCauses == \A r \in RvReviews : rvReplies[r] <= 1 + rvByHand[r] + rvFaults

\* What the reviews, their replies and the runs that send them must be together.
ReviewsSound == RvTypeOK /\ DuplicatesHaveCauses

\* A review whose rating has a mode is answered in the end, after refusals, crashes and lost
\* answers, as long as reviews that are passed over leave room in the list of a run.
EveryWantedAnswered == \A r \in RvWanted : <>(rvReplies[r] > 0)

\* One reply per review, as the changelog has it.
OneReplyPerReview == \A r \in RvReviews : rvByHand[r] = 0 => rvReplies[r] <= 1
=============================================================================
