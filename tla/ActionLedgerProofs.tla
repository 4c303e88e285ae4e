------------------------- MODULE ActionLedgerProofs -------------------------
(***************************************************************************)
(* What holds of ActionLedger for any number of deliveries, any rules,     *)
(* values and days.  AuditTrail needs nothing of the environment: locks    *)
(* may lapse and inserts may fail.  SingleSend is about the configuration  *)
(* in which no run outlasts its lock.                                      *)
(***************************************************************************)
EXTENDS ActionLedger, FiniteSetTheorems, TLAPS

Busy(r) == pc[r] \in {"decide", "mark", "call", "wait", "record"}

\* A run that executes a change has a key for it, and budget left if the change
\* is live; only a live change is marked, sent, or recorded as applied or failed.
BusyHasKey ==
  \A r \in Runs :
    /\ Busy(r) => key[r] \in Key /\ (key[r].dry \/ budget[r] > 0)
    /\ \/ pc[r] \in {"mark", "call", "wait"}
       \/ pc[r] = "record" /\ status[r] \in {"applied", "failed"}
       => ~key[r].dry

\* What a run knows of its own change at each place.
MarkedInv ==
  \A r \in Runs :
    /\ pc[r] \in {"call", "wait"} =>
         [run |-> r, key |-> key[r], status |-> "pending"] \in ledger
    /\ pc[r] = "wait" => [run |-> r, key |-> key[r], outcome |-> "inflight"] \in calls
    /\ pc[r] = "record" /\ status[r] = "applied" =>
         [run |-> r, key |-> key[r], outcome |-> "accepted"] \in calls
    /\ pc[r] = "record" /\ status[r] = "failed" =>
         \E o \in {"rejected", "timeout"} :
           [run |-> r, key |-> key[r], outcome |-> o] \in calls

AuditInv == TypeOK /\ BusyHasKey /\ MarkedInv /\ AuditComplete /\ AuditTruthful

-----------------------------------------------------------------------------
\* The state the task starts in satisfies the audit invariant: no rows, no calls.
LEMMA AuditInit == Init => AuditInv
  BY DaysAreNumbers, BudgetPositive
  DEF Init, AuditInv, TypeOK, BusyHasKey, Busy, MarkedInv, AuditComplete, AuditTruthful,
      Modes, Places, Statuses

\* The rows and calls stay well-typed, and the run-local variables with them.
LEMMA TypeStep == TypeOK /\ BusyHasKey /\ [Next]_vars => TypeOK' /\ BusyHasKey'
<1> SUFFICES ASSUME TypeOK, BusyHasKey, [Next]_vars PROVE TypeOK' /\ BusyHasKey'
  OBVIOUS
<1> USE DEF TypeOK, BusyHasKey, Busy, shared, Modes, Places, Statuses, Ended
<1>1. ASSUME NEW r \in Runs, RunStep(r) PROVE TypeOK' /\ BusyHasKey'
  <2>1. ASSUME NEW on \in BOOLEAN, Acquire(r, on) PROVE TypeOK' /\ BusyHasKey'
    BY <2>1 DEF Acquire
  <2>2. CASE Skip(r)
    BY <2>2 DEF Skip
  <2>3. CASE FetchRules(r)
    <3> DEFINE entry(u) == [rule |-> u, dry |-> (mode[u] = "dry")]
               Entries == [rule : Rules, dry : BOOLEAN]
    <3>1. {entry(u) : u \in {x \in Rules : mode[x] # "off"}} \subseteq Entries
      <4>1. \A u \in Rules : entry(u) \in Entries
        BY Zenon
      <4> HIDE DEF entry, Entries
      <4>2. QED BY <4>1
    <3>2. todo' \in [Runs -> SUBSET [rule : Rules, dry : BOOLEAN]]
      BY <2>3, <3>1 DEF FetchRules
    <3>3. QED BY <2>3, <3>2 DEF FetchRules
  <2>4. ASSUME NEW t \in todo[r], PassOver(r, t) PROVE TypeOK' /\ BusyHasKey'
    BY <2>4 DEF PassOver
  <2>5. ASSUME NEW t \in todo[r], NEW v \in Values, Plan(r, t, v)
        PROVE  TypeOK' /\ BusyHasKey'
    <3>1. [rule |-> t.rule, value |-> v, dry |-> t.dry, day |-> day] \in Key
      BY <2>5 DEF Key
    <3>2. QED BY <2>5, <3>1 DEF Plan
  <2>6. CASE Duplicate(r)
    BY <2>6 DEF Duplicate
  <2>7. CASE Decide(r)
    <3>1. /\ Verdict(r) \in Statuses \ {"applied", "failed"}
          /\ Verdict(r) = "pending" => ~key[r].dry
      BY <2>7 DEF Verdict, Decide, Key
    <3>2. QED BY <2>7, <3>1 DEF Decide
  <2>8. CASE MarkPending(r)
    BY <2>8 DEF MarkPending, Append1, Row
  <2>9. CASE Send(r)
    BY <2>9 DEF Send, Call
  <2>10. ASSUME NEW o \in {"accepted", "rejected", "timeout"}, Answer(r, o)
         PROVE  TypeOK' /\ BusyHasKey'
    <3>1. calls' \subseteq Call
      BY <2>10 DEF Answer, Call
    <3>2. QED BY <2>10, <3>1 DEF Answer
  <2>11. CASE Record(r)
    <3>1. ledger' \subseteq Row
      BY <2>11 DEF Record, Append1, Row
    <3>2. budget' \in [Runs -> Nat]
      BY <2>11 DEF Record
    <3>3. QED BY <2>11, <3>1, <3>2 DEF Record
  <2>12. ASSUME NEW stored \in BOOLEAN, StoreFails(r, stored) PROVE TypeOK' /\ BusyHasKey'
    <3>1. ledger' \subseteq Row
      BY <2>12 DEF StoreFails, Append1, Row
    <3>2. QED BY <2>12, <3>1 DEF StoreFails
  <2>13. CASE Finish(r)
    BY <2>13, BudgetPositive DEF Finish, Released
  <2>14. QED
    BY <1>1, <2>1, <2>2, <2>3, <2>4, <2>5, <2>6, <2>7, <2>8, <2>9, <2>10, <2>11, <2>12,
       <2>13 DEF RunStep
<1>2. ASSUME NEW r \in Runs, Crash(r) PROVE TypeOK' /\ BusyHasKey'
  BY <1>2, BudgetPositive DEF Crash
<1>3. CASE LockExpires
  BY <1>3 DEF LockExpires
<1>4. CASE NextDay
  BY <1>4, DaysAreNumbers DEF NextDay
<1>5. ASSUME NEW u \in Rules, NEW m \in Modes, SetMode(u, m) PROVE TypeOK' /\ BusyHasKey'
  BY <1>5 DEF SetMode
<1>6. CASE UNCHANGED vars
  BY <1>6 DEF vars
<1>7. QED
  BY <1>1, <1>2, <1>3, <1>4, <1>5, <1>6 DEF Next

\* The audit trail survives every step of every run: only Send and Answer touch
\* the calls, and each finds the row or the call it needs in place.
LEMMA AuditStep == AuditInv /\ [Next]_vars => AuditInv'
<1> SUFFICES ASSUME AuditInv, [Next]_vars PROVE AuditInv'
  OBVIOUS
<1>1. TypeOK /\ BusyHasKey /\ TypeOK' /\ BusyHasKey'
  BY TypeStep DEF AuditInv
<1>2. MarkedInv /\ AuditComplete /\ AuditTruthful
  BY DEF AuditInv
<1> DEFINE Goal == MarkedInv' /\ AuditComplete' /\ AuditTruthful'
<1> SUFFICES Goal
  BY <1>1 DEF AuditInv
<1> USE DEF MarkedInv, AuditComplete, AuditTruthful, Wrote, shared
<1>3. ASSUME NEW r \in Runs, RunStep(r) PROVE Goal
  <2>1. ASSUME NEW on \in BOOLEAN, Acquire(r, on) PROVE Goal
    BY <1>1, <1>2, <2>1 DEF Acquire, TypeOK
  <2>2. CASE Skip(r)
    BY <1>1, <1>2, <2>2 DEF Skip, TypeOK
  <2>3. CASE FetchRules(r)
    BY <1>1, <1>2, <2>3 DEF FetchRules, TypeOK
  <2>4. ASSUME NEW t \in todo[r], PassOver(r, t) PROVE Goal
    BY <1>1, <1>2, <2>4 DEF PassOver, TypeOK
  <2>5. ASSUME NEW t \in todo[r], NEW v \in Values, Plan(r, t, v) PROVE Goal
    BY <1>1, <1>2, <2>5 DEF Plan, TypeOK
  <2>6. CASE Duplicate(r)
    BY <1>1, <1>2, <2>6 DEF Duplicate, TypeOK
  <2>7. CASE Decide(r)
    <3>1. Verdict(r) \notin {"applied", "failed"}
      BY DEF Verdict
    <3>2. QED BY <1>1, <1>2, <2>7, <3>1 DEF Decide, TypeOK
  <2>8. CASE MarkPending(r)
    <3>1. ledger \subseteq ledger' /\ calls' = calls
      BY <2>8 DEF MarkPending, Append1
    <3>2. AuditComplete' /\ AuditTruthful'
      BY <1>2, <2>8, <3>1 DEF MarkPending, Append1
    <3>3. ASSUME NEW s \in Runs PROVE MarkedInv!(s)'
      <4>1. CASE s = r
        BY <1>1, <2>8, <4>1 DEF MarkPending, Append1, TypeOK
      <4>2. CASE s # r
        BY <1>1, <1>2, <2>8, <3>1, <4>2 DEF MarkPending, TypeOK
      <4>3. QED BY <4>1, <4>2
    <3>4. QED BY <3>2, <3>3
  <2>9. CASE Send(r)
    <3>1. calls \subseteq calls' /\ ledger' = ledger
      BY <2>9 DEF Send
    <3>2. AuditComplete'
      <4> SUFFICES ASSUME NEW c \in calls'
                   PROVE  /\ [run |-> c.run, key |-> c.key, status |-> "pending"] \in ledger
                          /\ ~c.key.dry
        BY <3>1
      <4>1. CASE c \in calls
        BY <1>2, <4>1
      <4>2. CASE c = [run |-> r, key |-> key[r], outcome |-> "inflight"]
        <5>1. c.run = r /\ c.key = key[r]
          BY <4>2
        <5>2. QED BY <1>1, <1>2, <2>9, <5>1 DEF Send, BusyHasKey
      <4>3. QED BY <2>9, <4>1, <4>2 DEF Send
    <3>3. AuditTruthful'
      BY <1>2, <3>1
    <3>4. ASSUME NEW s \in Runs PROVE MarkedInv!(s)'
      <4>1. CASE s = r
        BY <1>1, <1>2, <2>9, <4>1 DEF Send, TypeOK
      <4>2. CASE s # r
        BY <1>1, <1>2, <2>9, <3>1, <4>2 DEF Send, TypeOK
      <4>3. QED BY <4>1, <4>2
    <3>5. QED BY <3>2, <3>3, <3>4
  <2>10. ASSUME NEW o \in {"accepted", "rejected", "timeout"}, Answer(r, o) PROVE Goal
    <3> DEFINE mine(x) == [run |-> r, key |-> key[r], outcome |-> x]
    <3>1. calls' = (calls \ {mine("inflight")}) \cup {mine(o)}
      BY <2>10 DEF Answer
    <3>2. AuditComplete'
      <4>1. ~key[r].dry /\ [run |-> r, key |-> key[r], status |-> "pending"] \in ledger
        BY <1>1, <1>2, <2>10 DEF Answer, BusyHasKey
      <4>2. mine(o).run = r /\ mine(o).key = key[r]
        OBVIOUS
      <4>3. QED BY <1>2, <2>10, <3>1, <4>1, <4>2 DEF Answer
    <3>3. \A c \in calls : c.outcome # "inflight" => c \in calls'
      BY <3>1
    <3>4. AuditTruthful'
      BY <1>2, <2>10, <3>3 DEF Answer
    <3>5. MarkedInv'
      <4> SUFFICES ASSUME NEW s \in Runs PROVE MarkedInv!(s)'
        OBVIOUS
      <4>1. CASE s = r
        BY <1>1, <1>2, <2>10, <3>1, <4>1 DEF Answer, TypeOK
      <4>2. CASE s # r
        <5>1. pc'[s] = pc[s] /\ status'[s] = status[s] /\ key' = key /\ ledger' = ledger
          BY <1>1, <2>10, <4>2 DEF Answer, TypeOK
        <5>2. \A x \in {"inflight", "accepted", "rejected", "timeout"} :
                 [run |-> s, key |-> key[s], outcome |-> x] \in calls
                 => [run |-> s, key |-> key[s], outcome |-> x] \in calls'
          BY <3>1, <4>2
        <5>3. QED BY <1>2, <5>1, <5>2
      <4>3. QED BY <4>1, <4>2
    <3>6. QED BY <3>2, <3>4, <3>5
  <2>11. CASE Record(r)
    <3>1. ledger \subseteq ledger' /\ calls' = calls
      BY <2>11 DEF Record, Append1
    <3>2. AuditComplete'
      BY <1>2, <3>1
    <3>5. AuditTruthful'
      <4>1. SUFFICES ASSUME NEW w \in ledger'
                     PROVE  /\ w.status = "applied" =>
                                 [run |-> w.run, key |-> w.key, outcome |-> "accepted"] \in calls
                            /\ w.status = "failed" =>
                                 \E o \in {"rejected", "timeout"} :
                                   [run |-> w.run, key |-> w.key, outcome |-> o] \in calls
        BY <3>1
      <4>2. CASE w \in ledger
        BY <1>2, <4>2
      <4>3. CASE w \notin ledger
        <5>1. w = [run |-> r, key |-> key[r],
                   status |-> status[r]]
          BY <4>3, <2>11 DEF Record, Append1
        <5>2. /\ w.run = r /\ w.key = key[r]
              /\ w.status = status[r]
          BY <5>1
        <5>3. QED BY <1>2, <2>11, <5>2 DEF Record
      <4>4. QED BY <4>2, <4>3
    <3>3. ASSUME NEW s \in Runs PROVE MarkedInv!(s)'
      BY <1>1, <1>2, <2>11, <3>1 DEF Record, TypeOK
    <3>4. QED BY <3>2, <3>3, <3>5
  <2>12. ASSUME NEW stored \in BOOLEAN, StoreFails(r, stored) PROVE Goal
    <3>1. ledger \subseteq ledger' /\ calls' = calls
      BY <2>12 DEF StoreFails, Append1
    <3>2. AuditComplete'
      BY <1>2, <3>1
    <3>5. AuditTruthful'
      <4>1. SUFFICES ASSUME NEW w \in ledger'
                     PROVE  /\ w.status = "applied" =>
                                 [run |-> w.run, key |-> w.key, outcome |-> "accepted"] \in calls
                            /\ w.status = "failed" =>
                                 \E o \in {"rejected", "timeout"} :
                                   [run |-> w.run, key |-> w.key, outcome |-> o] \in calls
        BY <3>1
      <4>2. CASE w \in ledger
        BY <1>2, <4>2
      <4>3. CASE w \notin ledger
        <5>1. w = [run |-> r, key |-> key[r],
                   status |-> IF pc[r] = "mark" THEN "pending" ELSE status[r]]
          BY <4>3, <2>12 DEF StoreFails, Append1
        <5>2. /\ w.run = r /\ w.key = key[r]
              /\ w.status = IF pc[r] = "mark" THEN "pending" ELSE status[r]
          BY <5>1
        <5>3. QED BY <1>2, <2>12, <5>2 DEF StoreFails
      <4>4. QED BY <4>2, <4>3
    <3>3. ASSUME NEW s \in Runs PROVE MarkedInv!(s)'
      BY <1>1, <1>2, <2>12, <3>1 DEF StoreFails, TypeOK
    <3>4. QED BY <3>2, <3>3, <3>5
  <2>13. CASE Finish(r)
    BY <1>1, <1>2, <2>13 DEF Finish, TypeOK
  <2>14. QED
    BY <1>3, <2>1, <2>2, <2>3, <2>4, <2>5, <2>6, <2>7, <2>8, <2>9, <2>10, <2>11, <2>12,
       <2>13 DEF RunStep
<1>4. ASSUME NEW r \in Runs, Crash(r) PROVE Goal
  BY <1>1, <1>2, <1>4 DEF Crash, TypeOK
<1>5. CASE LockExpires
  BY <1>2, <1>5 DEF LockExpires
<1>6. CASE NextDay
  BY <1>2, <1>6 DEF NextDay
<1>7. ASSUME NEW u \in Rules, NEW m \in Modes, SetMode(u, m) PROVE Goal
  BY <1>2, <1>7 DEF SetMode
<1>8. CASE UNCHANGED vars
  BY <1>2, <1>8 DEF vars
<1>9. QED
  BY <1>3, <1>4, <1>5, <1>6, <1>7, <1>8 DEF Next

\* Type correctness of the task, for any number of runs, rules, values and days.
THEOREM TypeCorrect == Spec => []TypeOK
<1>1. AuditInv => TypeOK
  BY DEF AuditInv
<1>2. QED BY <1>1, AuditInit, AuditStep, PTL DEF Spec

\* However runs interleave, crash, lose their lock or fail to write: every call to a
\* marketplace is preceded by its pending row (execute_action lines 168-182).
THEOREM AuditTrail == Spec => []AuditComplete
<1>1. AuditInv => AuditComplete
  BY DEF AuditInv
<1>2. QED BY <1>1, AuditInit, AuditStep, PTL DEF Spec

\* However runs interleave, crash, lose their lock or fail to write: every applied or
\* failed row stands for a call answered that way (execute_action lines 168-182).
THEOREM RecordsTruthful == Spec => []AuditTruthful
<1>1. AuditInv => AuditTruthful
  BY DEF AuditInv
<1>2. QED BY <1>1, AuditInit, AuditStep, PTL DEF Spec

-----------------------------------------------------------------------------
(* The budget of a run *)

\* The calls of a run.
MadeBy(r) == {c \in calls : c.run = r}
\* The call under way, or answered and not yet taken from the budget.
Uncounted(r) == pc[r] = "wait" \/ (pc[r] = "record" /\ status[r] \in {"applied", "failed"})

\* What a run has called, and what it may still call, is its budget.
BudgetInv ==
  \A r \in Runs :
    /\ IsFiniteSet(MadeBy(r))
    /\ Cardinality(MadeBy(r)) + (IF pc[r] \in Ended THEN 0 ELSE budget[r])
         <= Budget + (IF Uncounted(r) THEN 1 ELSE 0)

\* A call is added by Send and given its outcome by Answer; both are of the run that steps.
LEMMA OthersCalls ==
  ASSUME NEW r \in Runs, RunStep(r) \/ Crash(r), NEW s \in Runs \ {r}
  PROVE  MadeBy(s)' = MadeBy(s)
  BY DEF RunStep, Acquire, Skip, FetchRules, PassOver, Plan, Duplicate, Decide, MarkPending,
         Send, Answer, Record, StoreFails, Finish, Crash, shared, MadeBy

\* One element makes a set larger by one at most.
LEMMA OneMore ==
  ASSUME NEW S, NEW x, IsFiniteSet(S)
  PROVE  /\ IsFiniteSet(S \cup {x})
         /\ Cardinality(S \cup {x}) \in Nat /\ Cardinality(S) \in Nat
         /\ Cardinality(S \cup {x}) <= Cardinality(S) + 1
<1>1. /\ IsFiniteSet(S \cup {x})
      /\ Cardinality(S \cup {x}) = IF x \in S THEN Cardinality(S) ELSE Cardinality(S) + 1
  BY FS_AddElement
<1>2. Cardinality(S) \in Nat
  BY FS_CardinalityType
<1>. QED BY <1>1, <1>2

\* Only Send makes a call more, and it is of the run that then waits.
LEMMA BudgetStep ==
  ASSUME ~StoreMayFail, AuditInv, BudgetInv, [Next]_vars
  PROVE  BudgetInv'
<1> USE BudgetPositive DEF Ended, Places, Statuses
<1>0. TypeOK /\ BusyHasKey /\ MarkedInv
  BY DEF AuditInv
<1> DEFINE Spent(r) ==
      /\ IsFiniteSet(MadeBy(r))
      /\ Cardinality(MadeBy(r)) + (IF pc[r] \in Ended THEN 0 ELSE budget[r])
           <= Budget + (IF Uncounted(r) THEN 1 ELSE 0)
<1>1. \A r \in Runs : Spent(r) /\ Cardinality(MadeBy(r)) \in Nat
  BY FS_CardinalityType DEF BudgetInv
<1>2. ASSUME NEW r \in Runs, RunStep(r) \/ Crash(r) PROVE BudgetInv'
  <2> DEFINE n == Cardinality(MadeBy(r))
  <2>1. ASSUME NEW s \in Runs \ {r} PROVE Spent(s)'
    <3>1. pc'[s] = pc[s] /\ budget'[s] = budget[s] /\ status'[s] = status[s]
      BY <1>0, <1>2
      DEF TypeOK, RunStep, Acquire, Skip, FetchRules, PassOver, Plan, Duplicate, Decide,
          MarkPending, Send, Answer, Record, StoreFails, Finish, Crash, shared
    <3>2. MadeBy(s)' = MadeBy(s)
      BY <1>2, OthersCalls
    <3>. QED BY <1>1, <3>1, <3>2 DEF Uncounted
  <2>2. Spent(r)'
    <3> SUFFICES /\ IsFiniteSet(MadeBy(r)')
                 /\ Cardinality(MadeBy(r)') + (IF pc'[r] \in Ended THEN 0 ELSE budget'[r])
                      <= Budget + (IF Uncounted(r)' THEN 1 ELSE 0)
      OBVIOUS
    <3>0. /\ IsFiniteSet(MadeBy(r)) /\ n \in Nat /\ budget[r] \in Nat
          /\ n + (IF pc[r] \in Ended THEN 0 ELSE budget[r])
               <= Budget + (IF Uncounted(r) THEN 1 ELSE 0)
      BY <1>0, <1>1 DEF TypeOK
    <3>1. CASE Send(r)
      <4> DEFINE c == [run |-> r, key |-> key[r], outcome |-> "inflight"]
      <4>1. MadeBy(r)' = MadeBy(r) \cup {c}
        BY <3>1 DEF Send, MadeBy
      <4>2. IsFiniteSet(MadeBy(r) \cup {c}) /\ Cardinality(MadeBy(r) \cup {c}) <= n + 1
            /\ Cardinality(MadeBy(r) \cup {c}) \in Nat
        BY <3>0, OneMore
      <4>3. /\ pc[r] = "call" /\ pc'[r] = "wait" /\ budget'[r] = budget[r]
        BY <3>1, <1>0 DEF Send, TypeOK
      <4>. QED BY <3>0, <4>1, <4>2, <4>3 DEF Uncounted
    <3>2. ASSUME NEW o \in {"accepted", "rejected", "timeout"}, Answer(r, o) PROVE Spent(r)'
      <4> DEFINE c == [run |-> r, key |-> key[r], outcome |-> "inflight"]
                 d == [run |-> r, key |-> key[r], outcome |-> o]
                 S == MadeBy(r) \ {c}
      <4>1. MadeBy(r)' = S \cup {d}
        BY <3>2 DEF Answer, MadeBy
      <4>2. c \in MadeBy(r)
        BY <1>0, <3>2 DEF MarkedInv, Answer, MadeBy
      <4>3. IsFiniteSet(S) /\ Cardinality(S) = n - 1
        BY <3>0, <4>2, FS_RemoveElement
      <4>4. IsFiniteSet(S \cup {d}) /\ Cardinality(S \cup {d}) <= n
            /\ Cardinality(S \cup {d}) \in Nat
        <5>1. Cardinality(S) = n - 1 /\ n \in Nat
          BY <3>0, <4>3
        <5>2. /\ IsFiniteSet(S \cup {d})
              /\ Cardinality(S \cup {d}) \in Nat /\ Cardinality(S) \in Nat
              /\ Cardinality(S \cup {d}) <= Cardinality(S) + 1
          <6> HIDE DEF d, S, n
          <6>. QED BY <4>3, OneMore
        <5> HIDE DEF d, S, n
        <5>. QED BY <5>1, <5>2
      <4>5. /\ pc[r] = "wait" /\ pc'[r] = "record" /\ budget'[r] = budget[r]
            /\ status'[r] \in {"applied", "failed"}
        BY <3>2, <1>0 DEF Answer, TypeOK
      <4>. QED BY <3>0, <4>1, <4>4, <4>5 DEF Uncounted
    <3>3. CASE Crash(r)
      <4>1. MadeBy(r)' = MadeBy(r) /\ pc'[r] = "crashed" /\ pc[r] \notin Ended
        BY <3>3, <1>0 DEF Crash, shared, MadeBy, TypeOK
      <4>2. Uncounted(r) => budget[r] > 0
        BY <1>0 DEF BusyHasKey, Busy, Uncounted
      <4>. QED BY <3>0, <4>1, <4>2 DEF Uncounted
    <3>4. CASE Record(r)
      <4>1. /\ MadeBy(r)' = MadeBy(r) /\ pc'[r] = "loop" /\ pc[r] = "record"
            /\ budget'[r] = IF status[r] \in {"applied", "failed"} THEN budget[r] - 1 ELSE budget[r]
        BY <3>4, <1>0 DEF Record, MadeBy, TypeOK
      <4>. QED BY <3>0, <4>1 DEF Uncounted
    <3>5. CASE Finish(r)
      <4>1. MadeBy(r)' = MadeBy(r) /\ pc'[r] = "done" /\ pc[r] \in {"loop", "fetch"}
        BY <3>5, <1>0 DEF Finish, MadeBy, TypeOK
      <4>. QED BY <3>0, <4>1 DEF Uncounted
    <3>6. CASE Decide(r)
      <4>1. Verdict(r) \notin {"applied", "failed"}
        BY DEF Verdict
      <4>2. /\ MadeBy(r)' = MadeBy(r) /\ budget'[r] = budget[r] /\ pc[r] = "decide"
            /\ pc'[r] \in {"mark", "record"} /\ status'[r] = Verdict(r)
        BY <3>6, <1>0 DEF Decide, shared, MadeBy, TypeOK
      <4>. QED BY <3>0, <4>1, <4>2 DEF Uncounted
    <3>7. CASE \/ \E on \in BOOLEAN : Acquire(r, on)
               \/ Skip(r) \/ FetchRules(r) \/ Duplicate(r) \/ MarkPending(r)
               \/ \E t \in todo[r] : PassOver(r, t)
               \/ \E t \in todo[r], v \in Values : Plan(r, t, v)
      <4>1. /\ MadeBy(r)' = MadeBy(r) /\ budget'[r] = budget[r] /\ pc[r] \in Places \ Ended
            /\ pc[r] \notin {"wait", "record"} /\ pc'[r] \notin {"wait", "record"}
        BY <3>7, <1>0
        DEF Acquire, Skip, FetchRules, Duplicate, MarkPending, PassOver, Plan, shared, MadeBy, TypeOK
      <4>. QED BY <3>0, <4>1 DEF Uncounted
    <3>. QED BY <1>2, <3>1, <3>2, <3>3, <3>4, <3>5, <3>6, <3>7 DEF RunStep, StoreFails
  <2>. QED BY <2>1, <2>2 DEF BudgetInv
<1>3. CASE LockExpires \/ NextDay \/ UNCHANGED vars \/ \E u \in Rules, m \in Modes : SetMode(u, m)
  <2>1. calls' = calls /\ pc' = pc /\ budget' = budget /\ status' = status
    BY <1>3 DEF LockExpires, NextDay, SetMode, vars
  <2>. QED BY <2>1 DEF BudgetInv, MadeBy, Uncounted
<1>. QED BY <1>2, <1>3 DEF Next

\* While every row is stored, no run makes more calls than its budget, however many runs
\* overlap and wherever they crash, and the state is of its type.
THEOREM BudgetHolds == ~StoreMayFail => (Spec => []LedgerSound)
<1> SUFFICES ASSUME ~StoreMayFail PROVE Spec => []LedgerSound
  OBVIOUS
<1>1. Init => BudgetInv
  BY FS_EmptySet, BudgetPositive DEF Init, BudgetInv, MadeBy, Uncounted, Ended
<1>2. AuditInv /\ BudgetInv /\ [Next]_vars => BudgetInv'
  BY BudgetStep
<1>3. AuditInv /\ BudgetInv => LedgerSound
  <2> SUFFICES ASSUME AuditInv, BudgetInv, NEW r \in Runs
               PROVE  Cardinality(MadeBy(r)) <= Budget
    BY DEF LedgerSound, BudgetKept, AuditInv, MadeBy
  <2>1. Uncounted(r) => budget[r] > 0 /\ pc[r] \notin Ended
    BY DEF AuditInv, BusyHasKey, Busy, Uncounted, Ended
  <2>. QED BY <2>1, FS_CardinalityType, BudgetPositive DEF AuditInv, TypeOK, BudgetInv, Ended
<1>. QED BY <1>1, <1>2, <1>3, AuditInit, AuditStep, PTL DEF Spec

-----------------------------------------------------------------------------
(* Runs that do not outlast their lock *)

\* A run that is in its loop holds the lock.
HoldsLock == \A r \in Runs : Active(r) => lock = r

\* What a run has written so far is about rules it has finished with, and about
\* the rule it is executing only the pending marker.
Fresh ==
  \A r \in Runs :
    /\ pc[r] \in {"new", "fetch"} => \A w \in ledger : w.run # r
    /\ pc[r] \in {"decide", "mark"} => \A w \in ledger : w.run = r => w.key # key[r]
    /\ pc[r] \in {"call", "wait", "record"} =>
         \A w \in ledger : w.run = r /\ w.key = key[r] => w.status = "pending"
    /\ \A t \in todo[r], w \in ledger : w.run = r => w.key.rule # t.rule
    /\ Busy(r) => \A t \in todo[r] : key[r].rule # t.rule
    /\ \A t, u \in todo[r] : t.rule = u.rule => t = u

\* A change that is about to be sent has only failed calls behind it.
Cleared ==
  \A r \in Runs : pc[r] \in {"mark", "call"} =>
    \A c \in calls : c.key = key[r] => Wrote(c, "failed")

\* An attempt makes one call.
OneCall == \A c, d \in calls : c.run = d.run /\ c.key = d.key => c = d

SerialInv == AuditInv /\ HoldsLock /\ Fresh /\ Cleared /\ SentOnce /\ OneCall

\* What _already_recorded establishes when it finds nothing: since every failed row has
\* its pending row, as many failed as pending rows means that every call so far has failed.
LEMMA NothingOpen ==
  ASSUME AuditInv, NEW k \in Key, ~AlreadyRecorded(k)
  PROVE  \A c \in calls : c.key = k => Wrote(c, "failed")
<1> DEFINE P == Attempts(k, "pending")
           F == Attempts(k, "failed")
<1>1. IsFiniteSet(P) /\ IsFiniteSet(F)
  <2>1. P \subseteq Runs /\ F \subseteq Runs
    BY DEF Attempts
  <2>2. QED BY <2>1, RunsFinite, FS_Subset
<1>2. F \subseteq P
  <2> SUFFICES ASSUME NEW r \in F PROVE r \in P
    OBVIOUS
  <2> DEFINE w == [run |-> r, key |-> k, status |-> "failed"]
  <2>1. w \in ledger /\ w.run = r /\ w.key = k /\ w.status = "failed" /\ r \in Runs
    BY DEF Attempts
  <2>2. PICK o \in {"rejected", "timeout"} : [run |-> r, key |-> k, outcome |-> o] \in calls
    BY <2>1 DEF AuditInv, AuditTruthful
  <2>3. [run |-> r, key |-> k, status |-> "pending"] \in ledger
    <3> DEFINE c == [run |-> r, key |-> k, outcome |-> o]
    <3>1. c \in calls /\ c.run = r /\ c.key = k
      BY <2>2
    <3>2. [run |-> c.run, key |-> c.key, status |-> "pending"] \in ledger
      BY <3>1 DEF AuditInv, AuditComplete, Wrote
    <3>3. QED BY <3>1, <3>2
  <2>4. QED BY <2>1, <2>3 DEF Attempts
<1>3. Cardinality(P) <= Cardinality(F)
  <2>1. Cardinality(P) \in Nat /\ Cardinality(F) \in Nat
    BY <1>1, FS_CardinalityType
  <2>2. ~(Cardinality(P) > Cardinality(F))
    BY DEF AlreadyRecorded
  <2>3. QED BY <2>1, <2>2
<1>4. P = F
  <2>1. Cardinality(F) <= Cardinality(P) /\ (Cardinality(F) = Cardinality(P) => F = P)
    BY <1>1, <1>2, FS_Subset
  <2>2. Cardinality(P) \in Nat /\ Cardinality(F) \in Nat
    BY <1>1, FS_CardinalityType
  <2>3. QED BY <1>3, <2>1, <2>2
<1>5. TAKE c \in calls
<1>6. HAVE c.key = k
<1>7. c.run \in P
  <2>1. c.run \in Runs
    BY DEF AuditInv, TypeOK, Call
  <2>2. QED BY <1>6, <2>1 DEF AuditInv, AuditComplete, Wrote, Attempts
<1>8. QED BY <1>4, <1>6, <1>7 DEF Attempts, Wrote

\* Only a run that has the lock is in its loop, as long as no lock lapses under one.
LEMMA HoldsLockStep ==
  ~LeaseMayLapse /\ TypeOK /\ HoldsLock /\ [Next]_vars => HoldsLock'
<1> SUFFICES ASSUME ~LeaseMayLapse, TypeOK, HoldsLock, [Next]_vars PROVE HoldsLock'
  OBVIOUS
<1> USE NoRunIsNoRun DEF HoldsLock, Active, Ended, TypeOK, shared
<1>1. ASSUME NEW r \in Runs, RunStep(r) PROVE HoldsLock'
  <2>1. ASSUME NEW on \in BOOLEAN, Acquire(r, on) PROVE HoldsLock'
    BY <2>1 DEF Acquire
  <2>2. CASE Skip(r)
    BY <2>2 DEF Skip
  <2>3. CASE Finish(r)
    BY <2>3 DEF Finish, Released
  <2>4. CASE lock' = lock /\ \A s \in Runs : Active(s)' => Active(s)
    BY <2>4
  <2>5. ASSUME NEW t \in todo[r], PassOver(r, t) PROVE HoldsLock'
    BY <2>4, <2>5 DEF PassOver
  <2>6. ASSUME NEW t \in todo[r], NEW v \in Values, Plan(r, t, v) PROVE HoldsLock'
    BY <2>4, <2>6 DEF Plan
  <2>7. CASE FetchRules(r) \/ Duplicate(r) \/ MarkPending(r) \/ Send(r) \/ Record(r)
    BY <2>4, <2>7 DEF FetchRules, Duplicate, MarkPending, Send, Record
  <2>8. CASE Decide(r)
    BY <2>4, <2>8 DEF Decide
  <2>9. ASSUME NEW o \in {"accepted", "rejected", "timeout"}, Answer(r, o) PROVE HoldsLock'
    BY <2>4, <2>9 DEF Answer
  <2>10. ASSUME NEW stored \in BOOLEAN, StoreFails(r, stored) PROVE HoldsLock'
    BY <2>4, <2>10 DEF StoreFails
  <2>11. QED
    BY <1>1, <2>1, <2>2, <2>3, <2>5, <2>6, <2>7, <2>8, <2>9, <2>10 DEF RunStep
<1>2. ASSUME NEW r \in Runs, Crash(r) PROVE HoldsLock'
  BY <1>2 DEF Crash
<1>3. CASE LockExpires
  BY <1>3 DEF LockExpires
<1>4. CASE NextDay
  BY <1>4 DEF NextDay
<1>5. ASSUME NEW u \in Rules, NEW m \in Modes, SetMode(u, m) PROVE HoldsLock'
  BY <1>5 DEF SetMode
<1>6. CASE UNCHANGED vars
  BY <1>6 DEF vars
<1>7. QED
  BY <1>1, <1>2, <1>3, <1>4, <1>5, <1>6 DEF Next

\* A run evaluates each rule once, so what it writes is new to its own rows.
LEMMA FreshStep == TypeOK /\ BusyHasKey /\ Fresh /\ [Next]_vars => Fresh'
<1> SUFFICES ASSUME TypeOK, BusyHasKey, Fresh, [Next]_vars, NEW s \in Runs PROVE Fresh!(s)'
  BY DEF Fresh
<1>1. Fresh!(s)
  BY DEF Fresh
<1> USE DEF Busy, shared, TypeOK
\* Another run's step adds at most a row of its own and leaves s alone.
<1>2. CASE /\ pc'[s] = pc[s] /\ key'[s] = key[s] /\ todo'[s] = todo[s]
           /\ \A w \in ledger' : w \in ledger \/ w.run # s
  <2>1. \A w \in ledger' : w.run = s => w \in ledger
    BY <1>2
  <2>2. QED BY <1>1, <1>2, <2>1
<1>3. ASSUME NEW r \in Runs, RunStep(r) PROVE Fresh!(s)'
  <2>1. ASSUME NEW on \in BOOLEAN, Acquire(r, on) PROVE Fresh!(s)'
    BY <1>1, <2>1 DEF Acquire
  <2>2. CASE Skip(r)
    BY <1>1, <2>2 DEF Skip
  <2>3. CASE FetchRules(r)
    <3>1. CASE s = r
      <4>1. \A w \in ledger : w.run # r
        BY <1>1, <2>3, <3>1 DEF FetchRules
      <4>2. \A t, u \in todo'[r] : t.rule = u.rule => t = u
        BY <2>3 DEF FetchRules
      <4>3. QED BY <2>3, <3>1, <4>1, <4>2 DEF FetchRules
    <3>2. CASE s # r
      BY <1>2, <2>3, <3>2 DEF FetchRules
    <3>3. QED BY <3>1, <3>2
  <2>4. ASSUME NEW t \in todo[r], PassOver(r, t) PROVE Fresh!(s)'
    BY <1>1, <2>4 DEF PassOver
  <2>5. ASSUME NEW t \in todo[r], NEW v \in Values, Plan(r, t, v) PROVE Fresh!(s)'
    <3>1. CASE s = r
      <4>1. key'[r].rule = t.rule /\ todo'[r] = todo[r] \ {t} /\ pc'[r] = "decide"
            /\ ledger' = ledger
        BY <2>5 DEF Plan
      <4>2. \A w \in ledger : w.run = r => w.key.rule # t.rule
        BY <1>1, <3>1
      <4>3. \A u \in todo[r] : u # t => u.rule # t.rule
        BY <1>1, <3>1
      <4>4. QED BY <1>1, <3>1, <4>1, <4>2, <4>3
    <3>2. CASE s # r
      BY <1>2, <2>5, <3>2 DEF Plan
    <3>3. QED BY <3>1, <3>2
  <2>6. CASE Duplicate(r)
    BY <1>1, <2>6 DEF Duplicate
  <2>7. CASE Decide(r)
    BY <1>1, <2>7 DEF Decide
  <2>8. CASE MarkPending(r)
    <3> DEFINE new == [run |-> r, key |-> key[r], status |-> "pending"]
    <3>1. ledger' = ledger \cup {new} /\ new.run = r /\ new.key = key[r] /\ new.status = "pending"
      BY <2>8 DEF MarkPending, Append1
    <3> HIDE DEF new
    <3>2. CASE s = r
      BY <1>1, <2>8, <3>1, <3>2 DEF MarkPending
    <3>3. CASE s # r
      BY <1>2, <2>8, <3>1, <3>3 DEF MarkPending
    <3>4. QED BY <3>2, <3>3
  <2>9. CASE Send(r)
    BY <1>1, <2>9 DEF Send
  <2>10. ASSUME NEW o \in {"accepted", "rejected", "timeout"}, Answer(r, o) PROVE Fresh!(s)'
    BY <1>1, <2>10 DEF Answer
  <2>11. CASE Record(r)
    <3> DEFINE new == [run |-> r, key |-> key[r], status |-> status[r]]
    <3>1. ledger' = ledger \cup {new} /\ new.run = r /\ new.key = key[r]
      BY <2>11 DEF Record, Append1
    <3> HIDE DEF new
    <3>2. CASE s = r
      BY <1>1, <2>11, <3>1, <3>2 DEF Record
    <3>3. CASE s # r
      BY <1>2, <2>11, <3>1, <3>3 DEF Record
    <3>4. QED BY <3>2, <3>3
  <2>12. ASSUME NEW stored \in BOOLEAN, StoreFails(r, stored) PROVE Fresh!(s)'
    <3> DEFINE new == [run |-> r, key |-> key[r],
                       status |-> IF pc[r] = "mark" THEN "pending" ELSE status[r]]
    <3>1. ledger' \subseteq ledger \cup {new} /\ new.run = r /\ new.key = key[r]
      BY <2>12 DEF StoreFails, Append1
    <3> HIDE DEF new
    <3>2. CASE s = r
      BY <1>1, <2>12, <3>1, <3>2 DEF StoreFails
    <3>3. CASE s # r
      BY <1>2, <2>12, <3>1, <3>3 DEF StoreFails
    <3>4. QED BY <3>2, <3>3
  <2>13. CASE Finish(r)
    BY <1>1, <2>13 DEF Finish
  <2>14. QED
    BY <1>3, <2>1, <2>2, <2>3, <2>4, <2>5, <2>6, <2>7, <2>8, <2>9, <2>10, <2>11, <2>12,
       <2>13 DEF RunStep
<1>4. ASSUME NEW r \in Runs, Crash(r) PROVE Fresh!(s)'
  BY <1>1, <1>4 DEF Crash
<1>5. CASE LockExpires
  BY <1>1, <1>5 DEF LockExpires
<1>6. CASE NextDay
  BY <1>1, <1>6 DEF NextDay
<1>7. ASSUME NEW u \in Rules, NEW m \in Modes, SetMode(u, m) PROVE Fresh!(s)'
  BY <1>1, <1>7 DEF SetMode
<1>8. CASE UNCHANGED vars
  BY <1>1, <1>8 DEF vars
<1>9. QED
  BY <1>3, <1>4, <1>5, <1>6, <1>7, <1>8 DEF Next

\* A change is cleared when the run decides to send it, and no other run calls the
\* marketplace before this one has.
LEMMA ClearedStep ==
  AuditInv /\ HoldsLock /\ Cleared /\ [Next]_vars => Cleared'
<1> SUFFICES ASSUME AuditInv, HoldsLock, Cleared, [Next]_vars,
                    NEW s \in Runs, pc'[s] \in {"mark", "call"},
                    NEW c \in calls', c.key = key'[s]
             PROVE  Wrote(c, "failed")'
  BY DEF Cleared
<1>1. \A d \in calls : Wrote(d, "failed") => Wrote(d, "failed")'
  <2>1. ledger \subseteq ledger'
    BY DEF Next, RunStep, Acquire, Skip, FetchRules, PassOver, Plan, Duplicate, Decide,
           MarkPending, Send, Answer, Record, StoreFails, Finish, Crash, LockExpires, NextDay,
           SetMode, vars, shared, Append1
  <2>2. QED BY <2>1 DEF Wrote
<1>2. CASE Decide(s)
  <2>1. key[s] \in Key /\ ~AlreadyRecorded(key[s]) /\ calls' = calls /\ key' = key
    BY <1>2 DEF Decide, AuditInv, BusyHasKey, Busy, shared
  <2>2. QED BY <1>1, <2>1, NothingOpen
<1>3. CASE pc[s] \in {"mark", "call"} /\ key'[s] = key[s] /\ calls' = calls
  BY <1>1, <1>3 DEF Cleared
<1> USE DEF AuditInv, TypeOK, HoldsLock, Active, Ended, shared
<1>4. ASSUME NEW r \in Runs, RunStep(r) PROVE Wrote(c, "failed")'
  <2>1. CASE r = s
    <3>1. pc[s] \in {"decide", "mark", "call"} \/ pc'[s] \notin {"mark", "call"}
      BY <1>4, <2>1
      DEF RunStep, Acquire, Skip, FetchRules, PassOver, Plan, Duplicate, Decide, MarkPending,
          Send, Answer, Record, StoreFails, Finish
    <3>2. CASE MarkPending(s)
      BY <1>3, <3>2 DEF MarkPending
    <3>3. Decide(s) \/ MarkPending(s)
      BY <1>4, <2>1, <3>1
      DEF RunStep, Acquire, Skip, FetchRules, PassOver, Plan, Duplicate, MarkPending,
          Send, Answer, Record, StoreFails, Finish
    <3>4. QED BY <1>2, <3>2, <3>3
  <2>2. CASE r # s
    <3>1. pc[s] = pc'[s] /\ key[s] = key'[s]
      BY <1>4, <2>2
      DEF RunStep, Acquire, Skip, FetchRules, PassOver, Plan, Duplicate, Decide, MarkPending,
          Send, Answer, Record, StoreFails, Finish
    <3>2. lock = s /\ lock # r
      BY <2>2, <3>1
    <3>3. pc[r] \in {"new"} \cup Ended
      BY <3>2
    <3>4. calls' = calls
      BY <1>4, <3>3
      DEF RunStep, Acquire, Skip, FetchRules, PassOver, Plan, Duplicate, Decide, MarkPending,
          Send, Answer, Record, StoreFails, Finish
    <3>5. QED BY <1>3, <3>1, <3>4
  <2>3. QED BY <2>1, <2>2
<1>5. ASSUME NEW r \in Runs, Crash(r) PROVE Wrote(c, "failed")'
  BY <1>3, <1>5 DEF Crash
<1>6. CASE LockExpires
  BY <1>3, <1>6 DEF LockExpires
<1>7. CASE NextDay
  BY <1>3, <1>7 DEF NextDay
<1>8. ASSUME NEW u \in Rules, NEW m \in Modes, SetMode(u, m) PROVE Wrote(c, "failed")'
  BY <1>3, <1>8 DEF SetMode
<1>9. CASE UNCHANGED vars
  BY <1>3, <1>9 DEF vars
<1>10. QED
  BY <1>4, <1>5, <1>6, <1>7, <1>8, <1>9 DEF Next

\* A step that makes no call and takes no row away keeps SentOnce.
LEMMA SentOnceQuiet ==
  ASSUME SentOnce, calls' = calls, ledger \subseteq ledger'
  PROVE  SentOnce'
BY DEF SentOnce, Wrote

\* Only a cleared change is sent, and an answer replaces the call it belongs to.
LEMMA SentOnceStep ==
  AuditInv /\ Fresh /\ Cleared /\ SentOnce /\ [Next]_vars => SentOnce'
<1> SUFFICES ASSUME AuditInv, Fresh, Cleared, SentOnce, [Next]_vars PROVE SentOnce'
  OBVIOUS
<1>1. ASSUME NEW r \in Runs, Send(r) PROVE SentOnce'
  <2> DEFINE new == [run |-> r, key |-> key[r], outcome |-> "inflight"]
  <2>1. calls' = calls \cup {new} /\ ledger' = ledger /\ new.key = key[r]
    BY <1>1 DEF Send
  <2>2. \A c \in calls : c.key = key[r] => Wrote(c, "failed")
    BY <1>1 DEF Cleared, Send
  <2> HIDE DEF new
  <2>3. QED BY <2>1, <2>2 DEF SentOnce, Wrote
<1>2. ASSUME NEW r \in Runs, NEW o \in {"accepted", "rejected", "timeout"}, Answer(r, o)
      PROVE  SentOnce'
  <2> DEFINE old == [run |-> r, key |-> key[r], outcome |-> "inflight"]
             new == [run |-> r, key |-> key[r], outcome |-> o]
  <2>1. /\ calls' = (calls \ {old}) \cup {new} /\ ledger' = ledger
        /\ old.run = r /\ old.key = key[r] /\ new.key = key[r]
    BY <1>2 DEF Answer
  <2>2. old \in calls
    BY <1>2 DEF Answer, AuditInv, MarkedInv
  <2>3. ~Wrote(old, "failed")
    <3> DEFINE w == [run |-> r, key |-> key[r], status |-> "failed"]
    <3>1. w.run = r /\ w.key = key[r] /\ w.status = "failed"
      OBVIOUS
    <3>2. w \notin ledger
      BY <1>2, <3>1 DEF Fresh, Answer
    <3>3. QED BY <3>2 DEF Wrote
  <2> HIDE DEF old, new
  <2>4. \A c \in calls : c.key = key[r] /\ c # old => Wrote(c, "failed")
    BY <2>1, <2>2, <2>3 DEF SentOnce
  <2>5. QED BY <2>1, <2>4 DEF SentOnce, Wrote
<1> USE SentOnceQuiet DEF shared
<1>3. ASSUME NEW r \in Runs, RunStep(r) PROVE SentOnce'
  <2>1. CASE \E on \in BOOLEAN : Acquire(r, on)
    BY <2>1 DEF Acquire
  <2>2. CASE Skip(r) \/ FetchRules(r) \/ Duplicate(r) \/ Decide(r)
    BY <2>2 DEF Skip, FetchRules, Duplicate, Decide
  <2>3. CASE \E t \in todo[r] : PassOver(r, t)
    BY <2>3 DEF PassOver
  <2>4. CASE \E t \in todo[r], v \in Values : Plan(r, t, v)
    BY <2>4 DEF Plan
  <2>5. CASE MarkPending(r) \/ Record(r) \/ Finish(r)
    BY <2>5 DEF MarkPending, Record, Finish, Append1
  <2>6. CASE \E stored \in BOOLEAN : StoreFails(r, stored)
    BY <2>6 DEF StoreFails, Append1
  <2>7. QED
    BY <1>1, <1>2, <1>3, <2>1, <2>2, <2>3, <2>4, <2>5, <2>6 DEF RunStep
<1>4. CASE \E r \in Runs : Crash(r)
  BY <1>4 DEF Crash
<1>5. CASE LockExpires \/ NextDay \/ \E u \in Rules, m \in Modes : SetMode(u, m)
  BY <1>5 DEF LockExpires, NextDay, SetMode
<1>6. CASE UNCHANGED vars
  BY <1>6 DEF vars
<1>7. QED
  BY <1>3, <1>4, <1>5, <1>6 DEF Next

\* When a run is about to send, it has no call under its key yet: that call would have
\* failed, and its failed row would be this run's own.
LEMMA NotSentYet ==
  ASSUME Fresh, Cleared, NEW r \in Runs, pc[r] = "call", NEW c \in calls,
         c.run = r, c.key = key[r]
  PROVE  FALSE
<1> DEFINE w == [run |-> c.run, key |-> c.key, status |-> "failed"]
<1>1. w \in ledger
  BY DEF Cleared, Wrote
<1>2. w.run = r /\ w.key = key[r] /\ w.status = "failed"
  OBVIOUS
<1>3. QED BY <1>1, <1>2 DEF Fresh

LEMMA OneCallStep == AuditInv /\ Fresh /\ Cleared /\ OneCall /\ [Next]_vars => OneCall'
<1> SUFFICES ASSUME AuditInv, Fresh, Cleared, OneCall, [Next]_vars PROVE OneCall'
  OBVIOUS
<1> USE DEF OneCall, shared
<1>1. ASSUME NEW r \in Runs, Send(r) PROVE OneCall'
  <2> DEFINE new == [run |-> r, key |-> key[r], outcome |-> "inflight"]
  <2>1. calls' = calls \cup {new} /\ new.run = r /\ new.key = key[r] /\ pc[r] = "call"
    BY <1>1 DEF Send
  <2>2. \A c \in calls : ~(c.run = r /\ c.key = key[r])
    BY <2>1, NotSentYet
  <2> HIDE DEF new
  <2>3. QED BY <2>1, <2>2
<1>2. ASSUME NEW r \in Runs, NEW o \in {"accepted", "rejected", "timeout"}, Answer(r, o)
      PROVE  OneCall'
  <2> DEFINE old == [run |-> r, key |-> key[r], outcome |-> "inflight"]
             new == [run |-> r, key |-> key[r], outcome |-> o]
  <2>1. /\ calls' = (calls \ {old}) \cup {new}
        /\ old.run = r /\ old.key = key[r] /\ new.run = r /\ new.key = key[r]
    BY <1>2 DEF Answer
  <2>2. old \in calls
    BY <1>2 DEF Answer, AuditInv, MarkedInv
  <2> HIDE DEF old, new
  <2>3. QED BY <2>1, <2>2
<1>3. CASE calls' = calls
  BY <1>3
<1>4. QED
  BY <1>1, <1>2, <1>3
  DEF Next, RunStep, Acquire, Skip, FetchRules, PassOver, Plan, Duplicate, Decide,
      MarkPending, Record, StoreFails, Finish, Crash, LockExpires, NextDay, SetMode, vars

\* The start of the task satisfies the invariant of serial runs.
LEMMA SerialInit == Init => SerialInv
<1>1. Init => AuditInv
  BY AuditInit
<1>2. Init => HoldsLock /\ Fresh /\ Cleared /\ SentOnce /\ OneCall
  BY DEF Init, HoldsLock, Active, Ended, Fresh, Busy, Cleared, SentOnce, OneCall
<1>3. QED BY <1>1, <1>2 DEF SerialInv

LEMMA SerialStep == ~LeaseMayLapse /\ SerialInv /\ [Next]_vars => SerialInv'
<1>1. AuditInv => TypeOK /\ BusyHasKey
  BY DEF AuditInv
<1>2. QED
  BY <1>1, AuditStep, HoldsLockStep, FreshStep, ClearedStep, SentOnceStep,
     OneCallStep DEF SerialInv

\* As long as no run outlasts its lock, a change that was applied, or whose outcome never
\* became known, is not sent again under its key: not after a crash at any point, not by
\* the next run, not when ClickHouse loses or refuses a row (_already_recorded).
THEOREM SingleSend == ~LeaseMayLapse => (Spec => []SentOnce)
<1> SUFFICES ASSUME ~LeaseMayLapse PROVE Spec => []SentOnce
  OBVIOUS
<1>1. SerialInv /\ [Next]_vars => SerialInv'
  BY SerialStep
<1>2. SerialInv => SentOnce
  BY DEF SerialInv
<1>3. QED BY <1>1, <1>2, SerialInit, PTL DEF Spec

\* As long as no run outlasts its lock, two runs are never past acquire_lock together.
THEOREM MutualExclusion == ~LeaseMayLapse => (Spec => []Exclusive)
<1> SUFFICES ASSUME ~LeaseMayLapse PROVE Spec => []Exclusive
  OBVIOUS
<1>1. SerialInv /\ [Next]_vars => SerialInv'
  BY SerialStep
<1>2. SerialInv => Exclusive
  BY DEF SerialInv, HoldsLock, Exclusive
<1>3. QED BY <1>1, <1>2, SerialInit, PTL DEF Spec

-----------------------------------------------------------------------------
(* The ledger implements its contract *)

\* The change the contract sees: the calls, and which of them have a failed row.
ContractVars == <<OpenKeys, AcceptedKeys>>

\* An accepted call never gets a failed row: its run would have had two calls.
LEMMA AcceptedNotFailed ==
  ASSUME SerialInv, NEW c \in calls, c.outcome = "accepted"
  PROVE  ~Wrote(c, "failed")
<1> SUFFICES ASSUME Wrote(c, "failed") PROVE FALSE
  OBVIOUS
<1> DEFINE w == [run |-> c.run, key |-> c.key, status |-> "failed"]
<1>1. w \in ledger /\ w.run = c.run /\ w.key = c.key /\ w.status = "failed"
  BY DEF Wrote
<1>2. PICK o \in {"rejected", "timeout"} :
        [run |-> c.run, key |-> c.key, outcome |-> o] \in calls
  BY <1>1 DEF SerialInv, AuditInv, AuditTruthful
<1> DEFINE d == [run |-> c.run, key |-> c.key, outcome |-> o]
<1>3. d \in calls /\ d.run = c.run /\ d.key = c.key /\ d.outcome # "accepted"
  BY <1>2
<1>4. QED BY <1>3 DEF SerialInv, OneCall

LEMMA SendIsAttempt ==
  ASSUME SerialInv, NEW r \in Runs, Send(r)
  PROVE  Contract!Attempt(key[r])
<1> DEFINE new == [run |-> r, key |-> key[r], outcome |-> "inflight"]
<1>1. /\ calls' = calls \cup {new} /\ ledger' = ledger
      /\ new.run = r /\ new.key = key[r] /\ new.outcome = "inflight"
  BY DEF Send, shared
<1>2. \A c \in calls : c.key = key[r] => Wrote(c, "failed")
  BY DEF SerialInv, Cleared, Send
<1>3. key[r] \notin OpenKeys
  BY <1>2 DEF OpenKeys
<1>4. key[r] \notin AcceptedKeys
  BY <1>2, AcceptedNotFailed DEF AcceptedKeys
<1>5. ~Wrote(new, "failed")
  <2> DEFINE w == [run |-> r, key |-> key[r], status |-> "failed"]
  <2>1. w.run = r /\ w.key = key[r] /\ w.status = "failed"
    OBVIOUS
  <2>2. w \notin ledger
    BY <2>1 DEF SerialInv, Fresh, Send
  <2>3. QED BY <1>1, <2>2 DEF Wrote
<1> HIDE DEF new
<1>6. OpenKeys' = OpenKeys \cup {key[r]}
  BY <1>1, <1>5 DEF OpenKeys, Wrote
<1>7. AcceptedKeys' = AcceptedKeys
  BY <1>1 DEF AcceptedKeys
<1>8. QED BY <1>3, <1>4, <1>6, <1>7 DEF Contract!Attempt

\* What a waiting run's call looks like to the contract: open, and alone under its key.
LEMMA WaitingCall ==
  ASSUME SerialInv, NEW r \in Runs, pc[r] = "wait" \/ pc[r] = "record",
         NEW c \in calls, c.run = r, c.key = key[r]
  PROVE  /\ ~Wrote(c, "failed")
         /\ \A d \in calls : d.key = key[r] /\ d # c => Wrote(d, "failed")
<1> DEFINE w == [run |-> r, key |-> key[r], status |-> "failed"]
<1>1. w.run = r /\ w.key = key[r] /\ w.status = "failed"
  OBVIOUS
<1>2. w \notin ledger
  BY <1>1 DEF SerialInv, Fresh
<1>3. QED BY <1>2 DEF Wrote, SerialInv, SentOnce

LEMMA AnswerIsAccept ==
  ASSUME SerialInv, NEW r \in Runs, NEW o \in {"accepted", "rejected", "timeout"},
         Answer(r, o)
  PROVE  IF o = "accepted" THEN Contract!Accept(key[r]) ELSE UNCHANGED ContractVars
<1> DEFINE old == [run |-> r, key |-> key[r], outcome |-> "inflight"]
           new == [run |-> r, key |-> key[r], outcome |-> o]
<1>1. /\ calls' = (calls \ {old}) \cup {new} /\ ledger' = ledger
      /\ old.run = r /\ old.key = key[r] /\ old.outcome = "inflight"
      /\ new.run = r /\ new.key = key[r] /\ new.outcome = o
  BY DEF Answer, shared
<1>2. old \in calls
  BY DEF Answer, SerialInv, AuditInv, MarkedInv
<1>3. /\ ~Wrote(old, "failed") /\ ~Wrote(new, "failed")
      /\ \A d \in calls : d.key = key[r] /\ d # old => Wrote(d, "failed")
  BY <1>1, <1>2, WaitingCall DEF Answer, Wrote
<1> HIDE DEF old, new
<1>4. key[r] \in OpenKeys
  BY <1>1, <1>2, <1>3 DEF OpenKeys
<1>5. CASE o = "accepted"
  <2>1. OpenKeys' = OpenKeys \ {key[r]}
    BY <1>1, <1>2, <1>3, <1>5 DEF OpenKeys, Wrote
  <2>2. AcceptedKeys' = AcceptedKeys \cup {key[r]}
    BY <1>1, <1>5 DEF AcceptedKeys
  <2>3. QED BY <1>4, <1>5, <2>1, <2>2 DEF Contract!Accept
<1>6. CASE o # "accepted"
  <2>1. OpenKeys' = OpenKeys
    BY <1>1, <1>2, <1>3, <1>6 DEF OpenKeys, Wrote
  <2>2. AcceptedKeys' = AcceptedKeys
    BY <1>1, <1>6 DEF AcceptedKeys
  <2>3. QED BY <1>6, <2>1, <2>2 DEF ContractVars
<1>7. QED BY <1>5, <1>6

\* A failed row closes the attempt of its run; any other row changes nothing.
LEMMA RowIsFail ==
  ASSUME SerialInv, NEW r \in Runs, pc[r] \in {"mark", "record"},
         NEW s \in Statuses, s = "failed" => pc[r] = "record" /\ status[r] = "failed",
         ledger' = ledger \cup {[run |-> r, key |-> key[r], status |-> s]},
         calls' = calls
  PROVE  Contract!Fail(key[r]) \/ UNCHANGED ContractVars
<1> DEFINE new == [run |-> r, key |-> key[r], status |-> s]
<1>1. AcceptedKeys' = AcceptedKeys
  BY DEF AcceptedKeys
<1>2. CASE s # "failed"
  <2>1. \A c \in calls : Wrote(c, "failed")' <=> Wrote(c, "failed")
    BY <1>2 DEF Wrote
  <2>2. QED BY <1>1, <2>1 DEF OpenKeys, ContractVars
<1>3. CASE s = "failed"
  <2>1. PICK o \in {"rejected", "timeout"} :
          [run |-> r, key |-> key[r], outcome |-> o] \in calls
    BY <1>3 DEF SerialInv, AuditInv, MarkedInv
  <2>2. PICK mine \in calls :
          mine.run = r /\ mine.key = key[r] /\ mine.outcome # "accepted"
    BY <2>1
  <2>3. Wrote(mine, "failed")'
    BY <1>3, <2>2 DEF Wrote
  <2>4. /\ ~Wrote(mine, "failed")
        /\ \A d \in calls : d.key = key[r] /\ d # mine => Wrote(d, "failed")
    BY <1>3, <2>2, WaitingCall
  <2>5. \A c \in calls : c # mine => (Wrote(c, "failed")' <=> Wrote(c, "failed"))
    <3> SUFFICES ASSUME NEW c \in calls, c # mine
                 PROVE  Wrote(c, "failed")' <=> Wrote(c, "failed")
      OBVIOUS
    <3>1. CASE c.key = key[r]
      BY <2>4, <3>1 DEF Wrote
    <3>2. CASE c.key # key[r]
      BY <3>2 DEF Wrote
    <3>3. QED BY <3>1, <3>2
  <2>6. key[r] \in OpenKeys
    BY <2>2, <2>4 DEF OpenKeys
  <2>7. OpenKeys' = OpenKeys \ {key[r]}
    BY <2>2, <2>3, <2>4, <2>5 DEF OpenKeys
  <2>8. QED BY <1>1, <2>6, <2>7 DEF Contract!Fail
<1>4. QED BY <1>2, <1>3

\* Whatever neither calls the marketplace nor writes a row is a stutter of the contract.
LEMMA QuietStep ==
  ASSUME calls' = calls, ledger' = ledger
  PROVE  UNCHANGED ContractVars
BY DEF ContractVars, OpenKeys, AcceptedKeys, Wrote

LEMMA ContractStep ==
  SerialInv /\ [Next]_vars => [Contract!Next]_ContractVars
<1> SUFFICES ASSUME SerialInv, [Next]_vars PROVE [Contract!Next]_ContractVars
  OBVIOUS
<1> USE DEF shared
<1>1. ASSUME NEW r \in Runs, RunStep(r) PROVE [Contract!Next]_ContractVars
  <2>1. \A k \in Key : Contract!Attempt(k) \/ Contract!Accept(k) \/ Contract!Fail(k)
                       => [Contract!Next]_ContractVars
    BY DEF Contract!Next
  <2>2. Busy(r) => key[r] \in Key
    BY DEF SerialInv, AuditInv, BusyHasKey
  <2>3. CASE Send(r)
    <3>1. key[r] \in Key
      BY <2>2, <2>3 DEF Busy, Send
    <3>2. QED BY <2>1, <2>3, <3>1, SendIsAttempt
  <2>4. ASSUME NEW o \in {"accepted", "rejected", "timeout"}, Answer(r, o)
        PROVE  [Contract!Next]_ContractVars
    <3>1. key[r] \in Key
      BY <2>2, <2>4 DEF Busy, Answer
    <3>2. QED BY <2>1, <2>4, <3>1, AnswerIsAccept
  <2>5. ASSUME NEW s \in Statuses, s = "failed" => pc[r] = "record" /\ status[r] = "failed",
               pc[r] \in {"mark", "record"}, calls' = calls,
               ledger' = ledger \cup {[run |-> r, key |-> key[r], status |-> s]}
        PROVE  [Contract!Next]_ContractVars
    <3>1. key[r] \in Key
      BY <2>2, <2>5 DEF Busy
    <3>2. Contract!Fail(key[r]) \/ UNCHANGED ContractVars
      BY <2>5, RowIsFail
    <3>3. QED BY <2>1, <3>1, <3>2
  <2>6. CASE MarkPending(r)
    BY <2>5, <2>6 DEF MarkPending, Append1, Statuses
  <2>7. CASE Record(r)
    <3>1. status[r] \in Statuses
      BY DEF SerialInv, AuditInv, TypeOK
    <3>2. QED BY <2>5, <2>7, <3>1 DEF Record, Append1
  <2>8. ASSUME NEW stored \in BOOLEAN, StoreFails(r, stored)
        PROVE  [Contract!Next]_ContractVars
    <3>1. status[r] \in Statuses /\ "pending" \in Statuses
      BY DEF SerialInv, AuditInv, TypeOK, Statuses
    <3>2. CASE ~stored
      BY <2>8, <3>2, QuietStep DEF StoreFails
    <3>3. CASE stored /\ pc[r] = "mark"
      BY <2>5, <2>8, <3>1, <3>3 DEF StoreFails, Append1
    <3>4. CASE stored /\ pc[r] = "record"
      BY <2>5, <2>8, <3>1, <3>4 DEF StoreFails, Append1
    <3>5. QED BY <2>8, <3>2, <3>3, <3>4 DEF StoreFails
  <2>9. CASE calls' = calls /\ ledger' = ledger
    BY <2>9, QuietStep
  <2>10. QED
    BY <1>1, <2>3, <2>4, <2>6, <2>7, <2>8, <2>9
    DEF RunStep, Acquire, Skip, FetchRules, PassOver, Plan, Duplicate, Decide, Finish
<1>2. CASE calls' = calls /\ ledger' = ledger
  BY <1>2, QuietStep
<1>3. QED
  BY <1>1, <1>2 DEF Next, Crash, LockExpires, NextDay, SetMode, vars

\* As long as no run outlasts its lock the task, with all its runs, crashes and failed
\* inserts, implements ActionContract: the detailed ledger keeps the one promise.
THEOREM LedgerImplementsContract == ~LeaseMayLapse => (Spec => KeepsContract)
<1> SUFFICES ASSUME ~LeaseMayLapse PROVE Spec => KeepsContract
  OBVIOUS
<1>1. Init => Contract!Init
  BY DEF Init, Contract!Init, OpenKeys, AcceptedKeys
<1>2. SerialInv /\ [Next]_vars => SerialInv'
  BY SerialStep
<1>3. SerialInv /\ [Next]_vars => [Contract!Next]_<<OpenKeys, AcceptedKeys>>
  BY ContractStep DEF ContractVars
<1>4. QED BY <1>1, <1>2, <1>3, SerialInit, PTL DEF Spec, KeepsContract, Contract!Spec
=============================================================================
