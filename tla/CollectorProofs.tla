--------------------------- MODULE CollectorProofs ---------------------------
(***************************************************************************)
(* What Collector guarantees whatever the number of objects and runs, and  *)
(* however many exceptions, crashes and lost locks there are.              *)
(*                                                                         *)
(* The watermark alone makes the history complete: no lock is needed.  A   *)
(* version is Safe below t when it is in the archive or older ones only    *)
(* can still appear; every watermark, and every step of a run from reading *)
(* one to writing the next, keeps a bound below which all is Safe.         *)
(*                                                                         *)
(* The raw table shows the row that was written last, so it needs the lock *)
(* as well: with one run at a time the same bounds hold for it, and what a *)
(* run asks for is never behind a watermark.                               *)
(***************************************************************************)
EXTENDS Collector, TLAPS

\* The API is not later than a run looks back, and no backfill moves the watermark.
OnTime ==
  /\ Styles \subseteq {"wb", "ym"}
  /\ \A s \in Styles : Delay[s] <= Lookback[s]

-----------------------------------------------------------------------------
USE DEF market, store, slots, None, Times, Versions

\* The types the induction needs; TypeOK bounds more than it.
Typed ==
  /\ style \in Styles
  /\ now \in Times
  /\ changed \in [Objects -> Int]
  /\ shown \in [Objects -> Int]
  /\ \A m \in marks : m.ts \in Int
  /\ pc \in [Runs -> Places]
  /\ kind \in [Runs -> {"incremental", "backfill"}]
  /\ from \in [Runs -> Int]
  /\ upto \in [Runs -> Int]
  /\ batch \in [Runs -> SUBSET Versions]

\* Nothing is dated later than now, and nothing is shown before it changes.
Dated ==
  /\ \A o \in Objects : None <= shown[o] /\ shown[o] <= changed[o] /\ changed[o] <= now
  /\ \A m \in marks : m.ts <= now
  /\ \A r \in Runs : upto[r] <= now
  /\ \A r \in Runs : \A v \in batch[r] : v[2] <= now

\* A change that is not shown yet is a recent one.
Pending == \A o \in Objects : changed[o] # shown[o] => now <= changed[o] + Delay[style]

\* What the API shows from before t is in the rows.
Safe(t, rows) == \A o \in Objects : shown[o] # None /\ shown[o] < t => <<o, shown[o]>> \in rows

MarksSafe == \A m \in marks : Safe(m.ts - Lookback[style], archive)

\* The bound a run rests on, from reading the watermark to writing the next one.
RunSafe(r) ==
    /\ kind[r] = "incremental" /\ pc[r] = "fetch" =>
         Safe(from[r], archive) /\ from[r] <= upto[r] - Lookback[style]
    /\ kind[r] = "incremental" /\ pc[r] \in {"fetched", "insert", "archive"} =>
         \A t \in Candidates(r) : Safe(t - Lookback[style], archive \cup batch[r])
    /\ kind[r] = "incremental" /\ pc[r] \in {"stored", "compare", "save"} =>
         Safe(upto[r] - Lookback[style], archive)
    /\ pc[r] \in {"compare", "save"} => kind[r] = "incremental"
    /\ pc[r] = "day" => kind[r] = "backfill"

RunsSafe == \A r \in Runs : RunSafe(r)

IInv == Typed /\ Dated /\ Pending /\ MarksSafe /\ RunsSafe

-----------------------------------------------------------------------------
\* The bounds of constants that every step uses: the delay and the lookback of the
\* style are numbers, and the delay is the smaller one.
LEMMA StyleBounds ==
  ASSUME OnTime, style \in Styles
  PROVE  /\ style \in {"wb", "ym"}
         /\ Delay[style] \in Nat /\ Lookback[style] \in Nat
         /\ Delay[style] <= Lookback[style]
BY DelaysAreNumbers DEF OnTime

\* A candidate is not later than now: it is the time of the run or of one of its rows.
LEMMA CandidatesDated ==
  ASSUME Typed, Dated, NEW r \in Runs, NEW t \in Candidates(r)
  PROVE  t \in Int /\ t <= now
BY DEF Typed, Dated, Candidates

LEMMA InitIInv == ASSUME OnTime PROVE Init => IInv
<1> SUFFICES ASSUME Init PROVE IInv
  OBVIOUS
<1>1. Typed
  BY TimesAreNumbers DEF Init, Typed, Places
<1>2. Dated
  BY DEF Init, Dated
<1>3. Pending /\ MarksSafe
  BY DEF Init, Pending, MarksSafe
<1>4. RunsSafe
  BY DEF Init, RunsSafe, RunSafe
<1>. QED BY <1>1, <1>2, <1>3, <1>4 DEF IInv

-----------------------------------------------------------------------------
\* The three places where a run looks at its lock again.
Rechecks(r) ==
  \/ EnsureHeld(r, "day", "fetch")
  \/ EnsureHeld(r, "fetched", "insert")
  \/ EnsureHeld(r, "stored", IF kind[r] = "backfill" THEN "finish" ELSE "compare")

\* The four ways in which a run ends.
Stop(r) == Finish(r) \/ LockLost(r) \/ Fail(r) \/ Crash(r)

\* Every step is one of fourteen actions or changes nothing.
LEMMA NextCases ==
  ASSUME [Next]_vars
  PROVE  \/ Tick \/ LockExpires \/ LeaseLapses
         \/ \E o \in Objects : Change(o) \/ Show(o)
         \/ \E r \in Runs, k \in {"incremental", "backfill"} : Acquire(r, k)
         \/ \E r \in Runs : \/ Read(r) \/ Rechecks(r) \/ Fetch(r) \/ Insert(r) \/ Archive(r)
                            \/ Compare(r) \/ Save(r) \/ Stop(r)
         \/ UNCHANGED vars
BY DEF Next, Collect, Rechecks, Stop

\* Where a run goes from its rows: a day more only in a backfill of Wildberries, the
\* watermark only from an incremental run.
LEMMA AfterRowsCases ==
  ASSUME OnTime, Typed, NEW r \in Runs
  PROVE  /\ AfterRows(r) \in {"stored", "day", "compare", "finish"}
         /\ AfterRows(r) = "day" => kind[r] = "backfill"
         /\ AfterRows(r) = "compare" => kind[r] = "incremental"
BY StyleBounds DEF Typed, AfterRows, OnTime

\* Every step keeps the types.
LEMMA TypedStep ==
  ASSUME OnTime, Typed, Dated, [Next]_vars
  PROVE  Typed'
<1>1. ASSUME Tick PROVE Typed'
  BY <1>1, TimesAreNumbers DEF Typed, Tick
<1>2. ASSUME LockExpires PROVE Typed'
  BY <1>2 DEF Typed, LockExpires
<1>3. ASSUME LeaseLapses PROVE Typed'
  BY <1>3 DEF Typed, LeaseLapses
<1>4. ASSUME NEW o \in Objects, Change(o) PROVE Typed'
  BY <1>4 DEF Typed, Change
<1>5. ASSUME NEW o \in Objects, Show(o) PROVE Typed'
  BY <1>5 DEF Typed, Show
<1>6. ASSUME NEW r \in Runs, NEW k \in {"incremental", "backfill"}, Acquire(r, k) PROVE Typed'
  BY <1>6 DEF Typed, Acquire, Go, Places
<1>7. ASSUME NEW r \in Runs, Read(r) PROVE Typed'
  BY <1>7, StyleBounds DEF Typed, Watermarks, Read, Go, Places
<1>8. ASSUME NEW r \in Runs, Rechecks(r) PROVE Typed'
  BY <1>8 DEF Typed, Rechecks, EnsureHeld, Go, Places
<1>9. ASSUME NEW r \in Runs, Fetch(r) PROVE Typed'
  BY <1>9 DEF Typed, Fetch, RowsSince, Go, Places
<1>10. ASSUME NEW r \in Runs, Insert(r) PROVE Typed'
  BY <1>10 DEF Typed, Insert, Go, Places
<1>11. ASSUME NEW r \in Runs, Archive(r) PROVE Typed'
  <2>1. pc' \in [Runs -> Places]
    BY <1>11, AfterRowsCases DEF Typed, Archive, Go, Places
  <2>2. from' \in [Runs -> Int] /\ upto' \in [Runs -> Int]
    BY <1>11, CandidatesDated DEF Typed, Archive
  <2>. QED BY <1>11, <2>1, <2>2 DEF Typed, Archive, Go
<1>12. ASSUME NEW r \in Runs, Compare(r) PROVE Typed'
  BY <1>12 DEF Typed, Compare, Go, Places
<1>13. ASSUME NEW r \in Runs, Save(r) PROVE Typed'
  BY <1>13 DEF Typed, Save, Write, Go, Places
<1>14. ASSUME NEW r \in Runs, Stop(r) PROVE Typed'
  BY <1>14 DEF Typed, Stop, Finish, LockLost, Fail, Crash, Forget, Go, Places
<1>15. CASE UNCHANGED vars
  BY <1>15 DEF Typed, vars
<1>. QED
  BY NextCases, <1>1, <1>2, <1>3, <1>4, <1>5, <1>6, <1>7, <1>8, <1>9, <1>10, <1>11, <1>12, <1>13, <1>14, <1>15

\* Every step dates nothing later than now.
LEMMA DatedStep ==
  ASSUME OnTime, Typed, Dated, [Next]_vars
  PROVE  Dated'
<1>1. ASSUME Tick PROVE Dated'
  BY <1>1 DEF Typed, Dated, Tick
<1>2. ASSUME LockExpires PROVE Dated'
  BY <1>2 DEF Typed, Dated, LockExpires
<1>3. ASSUME LeaseLapses PROVE Dated'
  BY <1>3 DEF Typed, Dated, LeaseLapses
<1>4. ASSUME NEW o \in Objects, Change(o) PROVE Dated'
  BY <1>4 DEF Typed, Dated, Change
<1>5. ASSUME NEW o \in Objects, Show(o) PROVE Dated'
  BY <1>5 DEF Typed, Dated, Show
<1>6. ASSUME NEW r \in Runs, NEW k \in {"incremental", "backfill"}, Acquire(r, k) PROVE Dated'
  BY <1>6 DEF Typed, Dated, Acquire, Go, Places
<1>7. ASSUME NEW r \in Runs, Read(r) PROVE Dated'
  BY <1>7, StyleBounds DEF Typed, Dated, Read, Go, Places
<1>8. ASSUME NEW r \in Runs, Rechecks(r) PROVE Dated'
  BY <1>8 DEF Typed, Dated, Rechecks, EnsureHeld, Go, Places
<1>9. ASSUME NEW r \in Runs, Fetch(r) PROVE Dated'
  BY <1>9 DEF Typed, Dated, Fetch, RowsSince, Go, Places
<1>10. ASSUME NEW r \in Runs, Insert(r) PROVE Dated'
  BY <1>10 DEF Typed, Dated, Insert, Go, Places
<1>11. ASSUME NEW r \in Runs, Archive(r) PROVE Dated'
  <2>1. \A q \in Runs : upto'[q] <= now
    BY <1>11, CandidatesDated DEF Typed, Dated, Archive
  <2>. QED BY <1>11, <2>1 DEF Typed, Dated, Archive
<1>12. ASSUME NEW r \in Runs, Compare(r) PROVE Dated'
  BY <1>12 DEF Typed, Dated, Compare, Go, Places
<1>13. ASSUME NEW r \in Runs, Save(r) PROVE Dated'
  BY <1>13 DEF Typed, Dated, Save, Write, Go, Places
<1>14. ASSUME NEW r \in Runs, Stop(r) PROVE Dated'
  BY <1>14 DEF Typed, Dated, Stop, Finish, LockLost, Fail, Crash, Forget, Go, Places
<1>15. CASE UNCHANGED vars
  BY <1>15 DEF Typed, Dated, vars
<1>. QED
  BY NextCases, <1>1, <1>2, <1>3, <1>4, <1>5, <1>6, <1>7, <1>8, <1>9, <1>10, <1>11, <1>12, <1>13, <1>14, <1>15

\* Every step shows a change no later than Delay.
LEMMA PendingStep ==
  ASSUME OnTime, Typed, Dated, Pending, [Next]_vars
  PROVE  Pending'
<1>1. ASSUME Tick PROVE Pending'
  BY <1>1, StyleBounds DEF Typed, Dated, Pending, Tick
<1>2. ASSUME LockExpires PROVE Pending'
  BY <1>2 DEF Typed, Dated, Pending, LockExpires
<1>3. ASSUME LeaseLapses PROVE Pending'
  BY <1>3 DEF Typed, Dated, Pending, LeaseLapses
<1>4. ASSUME NEW o \in Objects, Change(o) PROVE Pending'
  BY <1>4, StyleBounds DEF Typed, Dated, Pending, Change
<1>5. ASSUME NEW o \in Objects, Show(o) PROVE Pending'
  BY <1>5, StyleBounds DEF Typed, Dated, Pending, Show
<1>6. ASSUME NEW r \in Runs, NEW k \in {"incremental", "backfill"}, Acquire(r, k) PROVE Pending'
  BY <1>6 DEF Typed, Dated, Pending, Acquire, Go, Places
<1>7. ASSUME NEW r \in Runs, Read(r) PROVE Pending'
  BY <1>7 DEF Typed, Dated, Pending, Read, Go, Places
<1>8. ASSUME NEW r \in Runs, Rechecks(r) PROVE Pending'
  BY <1>8 DEF Typed, Dated, Pending, Rechecks, EnsureHeld, Go, Places
<1>9. ASSUME NEW r \in Runs, Fetch(r) PROVE Pending'
  BY <1>9 DEF Typed, Dated, Pending, Fetch, RowsSince, Go, Places
<1>10. ASSUME NEW r \in Runs, Insert(r) PROVE Pending'
  BY <1>10 DEF Typed, Dated, Pending, Insert, Go, Places
<1>11. ASSUME NEW r \in Runs, Archive(r) PROVE Pending'
  BY <1>11 DEF Typed, Dated, Pending, Archive, AfterRows, Go, Places
<1>12. ASSUME NEW r \in Runs, Compare(r) PROVE Pending'
  BY <1>12 DEF Typed, Dated, Pending, Compare, Go, Places
<1>13. ASSUME NEW r \in Runs, Save(r) PROVE Pending'
  BY <1>13 DEF Typed, Dated, Pending, Save, Write, Go, Places
<1>14. ASSUME NEW r \in Runs, Stop(r) PROVE Pending'
  BY <1>14 DEF Typed, Dated, Pending, Stop, Finish, LockLost, Fail, Crash, Forget, Go, Places
<1>15. CASE UNCHANGED vars
  BY <1>15 DEF Typed, Dated, Pending, vars
<1>. QED
  BY NextCases, <1>1, <1>2, <1>3, <1>4, <1>5, <1>6, <1>7, <1>8, <1>9, <1>10, <1>11, <1>12, <1>13, <1>14, <1>15

-----------------------------------------------------------------------------
(* Safety below a bound *)

\* The worker, the tables and the clock never take anything back.
LEMMA Growing ==
  ASSUME Typed, [Next]_vars
  PROVE  /\ style' = style
         /\ archive \subseteq archive'
         /\ \/ shown' = shown
            \/ \E o \in Objects : Show(o)
<1> USE DEF Typed
<1>1. CASE Tick \/ LockExpires \/ LeaseLapses
  BY <1>1 DEF Tick, LockExpires, LeaseLapses
<1>2. ASSUME NEW o \in Objects, Change(o) \/ Show(o)
      PROVE  style' = style /\ archive \subseteq archive' /\ (Show(o) \/ shown' = shown)
  BY <1>2 DEF Change, Show
<1>3. ASSUME NEW r \in Runs, NEW k \in {"incremental", "backfill"}, Acquire(r, k)
      PROVE  style' = style /\ archive \subseteq archive' /\ shown' = shown
  BY <1>3 DEF Acquire
<1>4. ASSUME NEW r \in Runs,
             Read(r) \/ Rechecks(r) \/ Fetch(r) \/ Insert(r) \/ Compare(r) \/ Save(r) \/ Stop(r)
      PROVE  style' = style /\ archive \subseteq archive' /\ shown' = shown
  BY <1>4 DEF Read, Rechecks, EnsureHeld, Fetch, Insert, Compare, Save, Stop, Finish, LockLost,
              Fail, Crash
<1>5. ASSUME NEW r \in Runs, Archive(r)
      PROVE  style' = style /\ archive \subseteq archive' /\ shown' = shown
  BY <1>5 DEF Archive
<1>6. CASE UNCHANGED vars
  BY <1>6 DEF vars
<1>. QED BY NextCases, <1>1, <1>2, <1>3, <1>4, <1>5, <1>6

\* What is safe below a time that lies Lookback back stays safe: a version that appears
\* late is not that late.
LEMMA SafeKept ==
  ASSUME OnTime, Typed, Dated, Pending, [Next]_vars,
         NEW rows, NEW t \in Int, t <= now - Lookback[style], Safe(t, rows)
  PROVE  Safe(t, rows)'
<1>1. CASE shown' = shown
  BY <1>1 DEF Safe
<1>2. ASSUME NEW o \in Objects, Show(o) PROVE Safe(t, rows)'
  <2>1. changed[o] >= t
    BY <1>2, StyleBounds DEF Typed, Pending, Show
  <2>. QED BY <1>2, <2>1, StyleBounds DEF Typed, Safe, Show
<1>. QED BY <1>1, <1>2, Growing

\* Fewer rows are safe only where more are.
LEMMA SafeGrows ==
  ASSUME NEW rows, NEW more, rows \subseteq more, NEW t, Safe(t, rows)
  PROVE  Safe(t, more)
BY DEF Safe

\* SafeKept and SafeGrows over a step, with the rows named by their values.
LEMMA SafeStep ==
  ASSUME OnTime, Typed, Dated, Pending, [Next]_vars,
         NEW rows, NEW more, rows \subseteq more,
         NEW t \in Int, t <= now - Lookback[style], Safe(t, rows)
  PROVE  \A o \in Objects : shown'[o] # None /\ shown'[o] < t => <<o, shown'[o]>> \in more
BY SafeKept DEF Safe

\* Every step keeps the watermarks safe: only Save writes one, and it was safe for its run.
LEMMA MarksStep ==
  ASSUME OnTime, IInv, [Next]_vars
  PROVE  MarksSafe'
<1> USE DEF IInv
<1>1. ASSUME NEW m \in marks PROVE Safe(m.ts - Lookback[style], archive)'
  <2>1. m.ts \in Int /\ m.ts <= now /\ Lookback[style] \in Nat /\ now \in Nat
    BY StyleBounds, TimesAreNumbers DEF Typed, Dated
  <2>2. /\ m.ts - Lookback[style] \in Int /\ m.ts - Lookback[style] <= now - Lookback[style]
        /\ Safe(m.ts - Lookback[style], archive)
    BY <2>1 DEF MarksSafe
  <2>3. style' = style /\ archive \subseteq archive'
    BY Growing
  <2>4. \A o \in Objects : shown'[o] # None /\ shown'[o] < m.ts - Lookback[style]
                            => <<o, shown'[o]>> \in archive'
    BY <2>2, <2>3, SafeStep
  <2>. QED BY <2>3, <2>4 DEF Safe
<1>2. ASSUME NEW r \in Runs, Save(r) PROVE MarksSafe'
  <2>1. Safe(upto[r] - Lookback[style], archive)
    BY <1>2 DEF RunsSafe, RunSafe, Save
  <2>. QED BY <1>1, <1>2, <2>1 DEF MarksSafe, Safe, Save, Write
<1>3. ASSUME marks' = marks PROVE MarksSafe'
  BY <1>1, <1>3 DEF MarksSafe
<1>4. (\E r \in Runs : Save(r)) \/ marks' = marks
  BY NextCases DEF Tick, LockExpires, LeaseLapses, Change, Show, Acquire, Read, Rechecks,
     EnsureHeld, Fetch, Insert, Archive, Compare, Stop, Finish, LockLost, Fail, Crash, vars
<1>. QED BY <1>2, <1>3, <1>4

\* A run that does not move keeps its bound, whatever the others do.
LEMMA RunSafeKept ==
  ASSUME OnTime, IInv, [Next]_vars, NEW r \in Runs,
         pc'[r] = pc[r], kind'[r] = kind[r], from'[r] = from[r], upto'[r] = upto[r],
         batch'[r] = batch[r]
  PROVE  RunSafe(r)'
<1> USE DEF IInv
<1>1. /\ RunSafe(r) /\ style' = style /\ archive \subseteq archive'
      /\ Lookback[style] \in Nat /\ now \in Nat
      /\ from[r] \in Int /\ upto[r] \in Int /\ upto[r] <= now
  BY Growing, StyleBounds, TimesAreNumbers DEF RunsSafe, Typed, Dated
<1>2. Candidates(r)' = Candidates(r)
  BY <1>1 DEF Candidates
<1>3. ASSUME kind[r] = "incremental", pc[r] = "fetch"
      PROVE  Safe(from[r], archive)' /\ (from[r] <= upto[r] - Lookback[style])'
  <2>1. Safe(from[r], archive) /\ from[r] <= upto[r] - Lookback[style]
    BY <1>1, <1>3 DEF RunSafe
  <2>2. from[r] <= now - Lookback[style]
    BY <1>1, <2>1
  <2>3. \A o \in Objects : shown'[o] # None /\ shown'[o] < from[r] => <<o, shown'[o]>> \in archive'
    BY <1>1, <2>1, <2>2, SafeStep
  <2>. QED BY <1>1, <2>1, <2>3 DEF Safe
<1>4. ASSUME kind[r] = "incremental", pc[r] \in {"fetched", "insert", "archive"},
             NEW t \in Candidates(r)
      PROVE  Safe(t - Lookback[style], archive \cup batch[r])'
  <2>1. Safe(t - Lookback[style], archive \cup batch[r])
    BY <1>1, <1>4 DEF RunSafe
  <2>2. t \in Int /\ t - Lookback[style] \in Int /\ t - Lookback[style] <= now - Lookback[style]
    BY <1>1, CandidatesDated
  <2>3. archive \cup batch[r] \subseteq archive' \cup batch'[r]
    BY <1>1
  <2>4. \A o \in Objects : shown'[o] # None /\ shown'[o] < t - Lookback[style]
                            => <<o, shown'[o]>> \in archive' \cup batch'[r]
    BY <2>1, <2>2, <2>3, SafeStep
  <2>. QED BY <1>1, <2>4 DEF Safe
<1>5. ASSUME kind[r] = "incremental", pc[r] \in {"stored", "compare", "save"}
      PROVE  Safe(upto[r] - Lookback[style], archive)'
  <2>1. Safe(upto[r] - Lookback[style], archive)
    BY <1>1, <1>5 DEF RunSafe
  <2>2. upto[r] - Lookback[style] \in Int /\ upto[r] - Lookback[style] <= now - Lookback[style]
    BY <1>1
  <2>3. \A o \in Objects : shown'[o] # None /\ shown'[o] < upto[r] - Lookback[style]
                            => <<o, shown'[o]>> \in archive'
    BY <1>1, <2>1, <2>2, SafeStep
  <2>. QED BY <1>1, <2>3 DEF Safe
<1>6. /\ pc[r] \in {"compare", "save"} => kind[r] = "incremental"
      /\ pc[r] = "day" => kind[r] = "backfill"
  BY <1>1 DEF RunSafe
<1>. QED BY <1>2, <1>3, <1>4, <1>5, <1>6 DEF RunSafe

\* The run that moves: each step of it hands the bound on.
LEMMA RunSafeMoved ==
  ASSUME OnTime, IInv, [Next]_vars, NEW r \in Runs,
         \/ \E k \in {"incremental", "backfill"} : Acquire(r, k)
         \/ Read(r) \/ Rechecks(r) \/ Fetch(r) \/ Insert(r) \/ Archive(r)
         \/ Compare(r) \/ Save(r) \/ Stop(r)
  PROVE  RunSafe(r)'
<1> USE DEF IInv
<1>1. /\ RunSafe(r) /\ style \in {"wb", "ym"} /\ Typed'
      /\ Lookback[style] \in Nat /\ now \in Nat
      /\ from[r] \in Int /\ upto[r] \in Int /\ upto[r] <= now
  BY StyleBounds, TypedStep, TimesAreNumbers DEF RunsSafe, Typed, Dated
<1>2. ASSUME NEW k \in {"incremental", "backfill"}, Acquire(r, k) PROVE RunSafe(r)'
  BY <1>2 DEF Typed, RunSafe, Acquire, Go
<1>3. ASSUME Stop(r) PROVE RunSafe(r)'
  BY <1>3 DEF Typed, RunSafe, Stop, Finish, LockLost, Fail, Crash, Forget, Go
<1>4. ASSUME Read(r) PROVE RunSafe(r)'
  <2>1. CASE kind[r] = "backfill"
    BY <1>4, <2>1 DEF Typed, RunSafe, Read, Go
  <2>2. CASE kind[r] = "incremental"
    <3>1. PICK w \in Watermarks : from' = [from EXCEPT ![r] = w - Lookback[style]]
      BY <1>4, <2>2 DEF Read
    <3>2. w \in Int /\ w <= now /\ Safe(w - Lookback[style], archive)
      BY <1>1 DEF Watermarks, Typed, Dated, MarksSafe, Safe
    <3>3. /\ from'[r] = w - Lookback[style] /\ upto'[r] = now
          /\ pc'[r] = "fetch" /\ kind' = kind /\ style' = style /\ shown' = shown
          /\ archive' = archive
      BY <1>4, <2>2, <3>1 DEF Typed, Read, Go
    <3>4. Safe(from[r], archive)' /\ (from[r] <= upto[r] - Lookback[style])'
      BY <1>1, <3>2, <3>3 DEF Safe
    <3>. QED BY <2>2, <3>3, <3>4 DEF RunSafe
  <2>. QED BY <2>1, <2>2 DEF Typed
<1>5. ASSUME Fetch(r) PROVE RunSafe(r)'
  <2>1. /\ pc'[r] \in {"fetched", "insert"} /\ kind' = kind /\ style' = style
        /\ upto' = upto /\ from' = from /\ shown' = shown /\ archive' = archive
        /\ batch'[r] = RowsSince(r)
    BY <1>5 DEF Typed, Fetch, Go
  <2>2. ASSUME kind[r] = "incremental", NEW t \in Candidates(r)'
        PROVE  Safe(t - Lookback[style], archive \cup batch[r])'
    <3>1. t \in Int /\ t <= now /\ (style = "ym" => t = upto[r])
      BY <1>1, <2>1 DEF Typed, Dated, Candidates, RowsSince
    <3>2. Safe(from[r], archive)
      BY <1>1, <1>5, <2>2 DEF RunSafe, Fetch
    <3>3. ASSUME NEW o \in Objects, shown[o] # None, shown[o] < t - Lookback[style]
          PROVE  <<o, shown[o]>> \in archive \cup RowsSince(r)
      <4>1. shown[o] \in Times
        BY <1>1, <3>1, <3>3, TimesAreNumbers DEF Typed, Dated
      <4>. QED BY <1>1, <2>2, <3>1, <3>2, <3>3, <4>1 DEF Safe, RowsSince, Typed
    <3>. QED BY <2>1, <3>3 DEF Safe
  <2>. QED BY <2>1, <2>2 DEF RunSafe
<1>6. ASSUME Rechecks(r) PROVE RunSafe(r)'
  <2>1. /\ kind' = kind /\ style' = style /\ upto' = upto /\ from' = from /\ shown' = shown
        /\ archive' = archive /\ batch' = batch
        /\ \/ pc[r] = "day" /\ pc'[r] = "fetch"
           \/ pc[r] = "fetched" /\ pc'[r] = "insert"
           \/ pc[r] = "stored" /\ pc'[r] = "finish"
           \/ pc[r] = "stored" /\ pc'[r] = "compare" /\ kind[r] # "backfill"
    BY <1>6 DEF Typed, Rechecks, EnsureHeld, Go
  <2>2. Candidates(r)' = Candidates(r)
    BY <2>1 DEF Candidates
  <2>. QED BY <1>1, <2>1, <2>2 DEF RunSafe, Safe, Typed
<1>7. ASSUME Insert(r) PROVE RunSafe(r)'
  <2>1. /\ kind' = kind /\ style' = style /\ upto' = upto /\ from' = from /\ shown' = shown
        /\ archive' = archive /\ batch' = batch /\ pc[r] = "insert" /\ pc'[r] = "archive"
    BY <1>7 DEF Typed, Insert, Go
  <2>2. Candidates(r)' = Candidates(r)
    BY <2>1 DEF Candidates
  <2>. QED BY <1>1, <2>1, <2>2 DEF RunSafe, Safe
<1>8. ASSUME Archive(r) PROVE RunSafe(r)'
  <2>1. /\ kind' = kind /\ style' = style /\ shown' = shown /\ pc[r] = "archive"
        /\ archive' = archive \cup batch[r] /\ pc'[r] = AfterRows(r)
    BY <1>8 DEF Typed, Archive, Go
  <2>2. /\ pc'[r] \in {"stored", "day", "compare", "finish"}
        /\ pc'[r] = "day" => kind'[r] = "backfill"
        /\ pc'[r] = "compare" => kind'[r] = "incremental"
    BY <2>1, AfterRowsCases
  <2>3. ASSUME kind[r] = "incremental", pc'[r] \in {"stored", "compare"}
        PROVE  Safe(upto[r] - Lookback[style], archive)'
    <3>1. PICK t \in Candidates(r) : upto' = [upto EXCEPT ![r] = t]
      BY <1>8, <2>1, <2>3 DEF Archive
    <3>2. Safe(t - Lookback[style], archive \cup batch[r])
      BY <1>1, <2>1, <2>3 DEF RunSafe
    <3>3. upto'[r] = t
      BY <3>1 DEF Typed
    <3>. QED BY <2>1, <3>2, <3>3 DEF Safe
  <2>. QED BY <2>1, <2>2, <2>3 DEF RunSafe
<1>9. ASSUME Compare(r) PROVE RunSafe(r)'
  <2>1. /\ kind' = kind /\ style' = style /\ upto' = upto /\ shown' = shown
        /\ archive' = archive /\ pc[r] = "compare" /\ pc'[r] \in {"save", "finish"}
    BY <1>9 DEF Typed, Compare, Go
  <2>. QED BY <1>1, <2>1 DEF RunSafe, Safe
<1>10. ASSUME Save(r) PROVE RunSafe(r)'
  BY <1>10 DEF Typed, RunSafe, Save, Go
<1>. QED BY <1>2, <1>3, <1>4, <1>5, <1>6, <1>7, <1>8, <1>9, <1>10

\* Every step keeps the bounds of all runs: at most one of them moves.
LEMMA RunsStep ==
  ASSUME OnTime, IInv, [Next]_vars
  PROVE  RunsSafe'
<1> USE DEF IInv
<1> DEFINE Moves(r) == \/ \E k \in {"incremental", "backfill"} : Acquire(r, k)
                       \/ Read(r) \/ Rechecks(r) \/ Fetch(r) \/ Insert(r) \/ Archive(r)
                       \/ Compare(r) \/ Save(r) \/ Stop(r)
           Stays(r) == /\ pc'[r] = pc[r] /\ kind'[r] = kind[r] /\ from'[r] = from[r]
                       /\ upto'[r] = upto[r] /\ batch'[r] = batch[r]
<1>1. CASE UNCHANGED slots
  BY <1>1, RunSafeKept DEF RunsSafe
<1>2. ASSUME NEW r \in Runs, Moves(r) PROVE RunsSafe'
  <2>1. ASSUME NEW q \in Runs, q # r PROVE Stays(q)
    BY <1>2, <2>1 DEF Typed, Acquire, Read, Rechecks, EnsureHeld, Fetch, Insert, Archive,
       Compare, Save, Stop, Finish, LockLost, Fail, Crash, Forget, Go
  <2>2. RunSafe(r)'
    BY <1>2, RunSafeMoved
  <2>. QED BY <2>1, <2>2, RunSafeKept DEF RunsSafe
<1>3. (\E r \in Runs : Moves(r)) \/ UNCHANGED slots
  BY NextCases DEF Tick, LockExpires, LeaseLapses, Change, Show, vars
<1>. QED BY <1>1, <1>2, <1>3

-----------------------------------------------------------------------------
\* Every step keeps the invariant.
LEMMA IInvStep == ASSUME OnTime, IInv, [Next]_vars PROVE IInv'
BY TypedStep, DatedStep, PendingStep, MarksStep, RunsStep DEF IInv

\* IInv is an invariant: Init has it and every step keeps it.
THEOREM Inductive == ASSUME OnTime PROVE Spec => []IInv
<1>1. Init => IInv
  BY InitIInv
<1>2. IInv /\ [Next]_vars => IInv'
  BY IInvStep
<1>. QED BY <1>1, <1>2, PTL DEF Spec

\* insert_rows archives the rows before set_watermark moves past them, so what no later
\* run will ask for is in the history: with any number of runs at once, failures at any
\* step and the lock lost at any time, as long as the API is not later than a run looks
\* back and no backfill moves the watermark.
THEOREM HistoryNeverPassed == ASSUME OnTime PROVE Spec => []HistoryComplete
<1>1. IInv => HistoryComplete
  BY DEF IInv, MarksSafe, Safe, HistoryComplete, Passed
<1>. QED BY <1>1, Inductive, PTL

-----------------------------------------------------------------------------
(* The raw table, while no live run loses its lock *)

\* What the API shows from before t is what the raw table shows.
RawSafe(t) == \A o \in Objects : shown[o] # None /\ shown[o] < t => raw[o] = shown[o]

MarksRaw == \A m \in marks : RawSafe(m.ts - Lookback[style])

\* The run that is going holds the lock.
Alone == \A r \in Runs : pc[r] # "idle" => lock = r

\* What the API shows of o is asked for whatever the watermark.
AskedFor(o) == \A m \in marks : shown[o] >= m.ts - Lookback[style]

\* The rows of a run hold one version of an object, its newest one or one that is asked
\* for again, and the bound of RunSafe is a bound for the raw table as well.
RunRaw(r) ==
    /\ \A o \in Objects, s, t \in Times : <<o, s>> \in batch[r] /\ <<o, t>> \in batch[r] => s = t
    /\ pc[r] \in {"fetched", "insert"} =>
         \A o \in Objects, t \in Times : <<o, t>> \in batch[r] => shown[o] = t \/ AskedFor(o)
    /\ kind[r] = "incremental" /\ pc[r] = "fetch" => RawSafe(from[r])
    /\ kind[r] = "incremental" /\ pc[r] \in {"fetched", "insert"} =>
         \A t \in Candidates(r), o \in Objects : shown[o] # None /\ shown[o] < t - Lookback[style] =>
            \/ <<o, shown[o]>> \in batch[r]
            \/ raw[o] = shown[o] /\ \A s \in Times : <<o, s>> \notin batch[r]
    /\ kind[r] = "incremental" /\ pc[r] = "archive" =>
         \A t \in Candidates(r) : RawSafe(t - Lookback[style])
    /\ kind[r] = "incremental" /\ pc[r] \in {"stored", "compare", "save"} =>
         RawSafe(upto[r] - Lookback[style])

RunsRaw == \A r \in Runs : RunRaw(r)

RInv == TypeOK /\ Alone /\ MarksRaw /\ RunsRaw

\* At the beginning there are no rows and no runs.
LEMMA InitRInv == ASSUME OnTime PROVE Init => RInv
<1> SUFFICES ASSUME Init PROVE RInv
  OBVIOUS
<1>1. TypeOK
  BY TimesAreNumbers DEF Init, TypeOK, Places
<1>2. Alone /\ MarksRaw /\ RunsRaw
  BY DEF Init, Alone, MarksRaw, RunsRaw, RunRaw
<1>. QED BY <1>1, <1>2 DEF RInv

\* Every step keeps the states of their type.
LEMMA TypeOKStep ==
  ASSUME OnTime, TypeOK, [Next]_vars
  PROVE  TypeOK'
<1> USE TimesAreNumbers DEF TypeOK
<1>1. CASE Tick \/ LockExpires \/ LeaseLapses
  BY <1>1 DEF Tick, LockExpires, LeaseLapses
<1>2. ASSUME NEW o \in Objects, Change(o) PROVE TypeOK'
  BY <1>2 DEF Change
<1>3. ASSUME NEW o \in Objects, Show(o) PROVE TypeOK'
  BY <1>3 DEF Show
<1>4. ASSUME NEW r \in Runs, NEW k \in {"incremental", "backfill"}, Acquire(r, k) PROVE TypeOK'
  BY <1>4 DEF Acquire, Go, Places
<1>5. ASSUME NEW r \in Runs, Read(r) PROVE TypeOK'
  <2>1. from' \in [Runs -> Int]
    BY <1>5, StyleBounds DEF Watermarks, Read
  <2>. QED BY <1>5, <2>1 DEF Read, Go, Places
<1>6. ASSUME NEW r \in Runs, Rechecks(r) PROVE TypeOK'
  BY <1>6 DEF Rechecks, EnsureHeld, Go, Places
<1>7. ASSUME NEW r \in Runs, Fetch(r) PROVE TypeOK'
  BY <1>7 DEF Fetch, RowsSince, Go, Places
<1>8. ASSUME NEW r \in Runs, Insert(r) PROVE TypeOK'
  <2>1. raw' \in [Objects -> Times \cup {None}]
    BY <1>8 DEF Insert, Overwrite
  <2>. QED BY <1>8, <2>1 DEF Insert, Go, Places
<1>9. ASSUME NEW r \in Runs, Archive(r) PROVE TypeOK'
  <2>1. pc' \in [Runs -> Places]
    BY <1>9, StyleBounds DEF Archive, AfterRows, Go, Places, OnTime
  <2>2. Candidates(r) \subseteq Times
    BY DEF Candidates
  <2>3. from' \in [Runs -> Int] /\ upto' \in [Runs -> Times]
    BY <1>9, <2>2 DEF Archive
  <2>. QED BY <1>9, <2>1, <2>3 DEF Archive
<1>10. ASSUME NEW r \in Runs, Compare(r) PROVE TypeOK'
  BY <1>10 DEF Compare, Go, Places
<1>11. ASSUME NEW r \in Runs, Save(r) PROVE TypeOK'
  BY <1>11 DEF Save, Write, Go, Places
<1>12. ASSUME NEW r \in Runs, Stop(r) PROVE TypeOK'
  BY <1>12 DEF Stop, Finish, LockLost, Fail, Crash, Forget, Released, Go, Places
<1>13. CASE UNCHANGED vars
  BY <1>13 DEF vars
<1>. QED
  BY NextCases, <1>1, <1>2, <1>3, <1>4, <1>5, <1>6, <1>7, <1>8, <1>9, <1>10, <1>11, <1>12, <1>13

\* Every step leaves the lock with the run that is going.
LEMMA AloneStep ==
  ASSUME ~LeaseMayLapse, TypeOK, Alone, [Next]_vars
  PROVE  Alone'
<1> USE NoRunIsNoRun DEF TypeOK, Alone
<1>1. CASE Tick \/ LockExpires \/ LeaseLapses \/ UNCHANGED vars
  BY <1>1 DEF Tick, LockExpires, LeaseLapses, vars
<1>2. ASSUME NEW o \in Objects, Change(o) \/ Show(o) PROVE Alone'
  BY <1>2 DEF Change, Show
<1>3. ASSUME NEW r \in Runs, NEW k \in {"incremental", "backfill"}, Acquire(r, k) PROVE Alone'
  BY <1>3 DEF Acquire, Go
<1>4. ASSUME NEW r \in Runs,
             Read(r) \/ Rechecks(r) \/ Fetch(r) \/ Insert(r) \/ Archive(r) \/ Compare(r) \/ Save(r)
      PROVE  Alone'
  <2>1. pc[r] # "idle" /\ lock' = lock /\ \A q \in Runs \ {r} : pc'[q] = pc[q]
    BY <1>4 DEF Read, Rechecks, EnsureHeld, Fetch, Insert, Archive, Compare, Save, Go
  <2>. QED BY <2>1
<1>5. ASSUME NEW r \in Runs, Stop(r) PROVE Alone'
  <2>1. pc[r] # "idle" /\ pc'[r] = "idle" /\ \A q \in Runs \ {r} : pc'[q] = pc[q]
    BY <1>5 DEF Stop, Finish, LockLost, Fail, Crash, Forget, Go
  <2>2. \A q \in Runs \ {r} : pc[q] = "idle"
    BY <2>1
  <2>. QED BY <2>1, <2>2
<1>. QED BY NextCases, <1>1, <1>2, <1>3, <1>4, <1>5

-----------------------------------------------------------------------------
\* What is safe in the raw table below a time that lies Lookback back stays safe when
\* the table does not change.
LEMMA RawKept ==
  ASSUME OnTime, Typed, Dated, Pending, [Next]_vars, raw' = raw,
         NEW t \in Int, t <= now - Lookback[style], RawSafe(t)
  PROVE  \A o \in Objects : shown'[o] # None /\ shown'[o] < t => raw'[o] = shown'[o]
<1>1. CASE shown' = shown
  BY <1>1 DEF RawSafe
<1>2. ASSUME NEW o \in Objects, Show(o)
      PROVE  \A p \in Objects : shown'[p] # None /\ shown'[p] < t => raw'[p] = shown'[p]
  <2>1. changed[o] >= t
    BY <1>2, StyleBounds DEF Typed, Pending, Show
  <2>. QED BY <1>2, <2>1, StyleBounds DEF Typed, RawSafe, Show
<1>. QED BY <1>1, <1>2, Growing

\* A step of the marketplace or the lock keeps what the raw table promises.
LEMMA RawOutside ==
  ASSUME OnTime, IInv, RInv, [Next]_vars, UNCHANGED <<store, slots>>
  PROVE  MarksRaw' /\ RunsRaw'
<1> USE DEF IInv, RInv
<1>1. style' = style /\ style \in {"wb", "ym"} /\ Lookback[style] \in Nat /\ now \in Nat
  BY Growing, StyleBounds, TimesAreNumbers DEF Typed
<1>2. ASSUME NEW t \in Int, t <= now, RawSafe(t - Lookback[style])
      PROVE  RawSafe(t - Lookback[style])'
  <2>1. t - Lookback[style] \in Int /\ t - Lookback[style] <= now - Lookback[style]
    BY <1>1, <1>2
  <2>. QED BY <1>1, <1>2, <2>1, RawKept DEF RawSafe
<1>3. MarksRaw'
  BY <1>1, <1>2 DEF MarksRaw, Typed, Dated
<1>4. ASSUME NEW o \in Objects, shown'[o] # shown[o]
      PROVE  shown'[o] \in Int /\ shown'[o] >= now - Lookback[style]
  <2>1. shown'[o] = changed[o] /\ changed[o] # shown[o]
    BY <1>4, Growing DEF Show, Typed
  <2>. QED BY <1>1, <2>1, StyleBounds DEF Typed, Pending
<1>5. ASSUME NEW r \in Runs PROVE RunRaw(r)'
  <2>1. /\ RunRaw(r) /\ RunSafe(r)
        /\ from[r] \in Int /\ upto[r] \in Int /\ upto[r] <= now
    BY DEF RunsRaw, RunsSafe, Typed, Dated
  <2>2. Candidates(r)' = Candidates(r)
    BY <1>1 DEF Candidates
  <2>3. ASSUME pc[r] \in {"fetched", "insert"}, NEW o \in Objects, NEW t \in Times,
               <<o, t>> \in batch[r]
        PROVE  shown'[o] = t \/ AskedFor(o)'
    <3>1. CASE shown'[o] = shown[o]
      BY <1>1, <2>1, <2>3, <3>1 DEF RunRaw, AskedFor
    <3>2. CASE shown'[o] # shown[o]
      BY <1>1, <1>4, <3>2 DEF AskedFor, Typed, Dated
    <3>. QED BY <3>1, <3>2
  <2>4. ASSUME kind[r] = "incremental", pc[r] = "fetch" PROVE RawSafe(from[r])'
    <3>1. from[r] <= now - Lookback[style] /\ RawSafe(from[r])
      BY <1>1, <2>1, <2>4 DEF RunSafe, RunRaw
    <3>. QED BY <2>1, <3>1, RawKept DEF RawSafe
  <2>5. ASSUME kind[r] = "incremental", pc[r] \in {"fetched", "insert"}, NEW t \in Candidates(r),
               NEW o \in Objects, shown'[o] # None, shown'[o] < t - Lookback[style]
        PROVE  \/ <<o, shown'[o]>> \in batch[r]
               \/ raw[o] = shown'[o] /\ \A s \in Times : <<o, s>> \notin batch[r]
    <3>1. t \in Int /\ t <= now
      BY CandidatesDated
    <3>2. shown'[o] = shown[o]
      BY <1>1, <1>4, <2>5, <3>1
    <3>. QED BY <2>1, <2>5, <3>2 DEF RunRaw
  <2>6. ASSUME kind[r] = "incremental", pc[r] = "archive", NEW t \in Candidates(r)
        PROVE  RawSafe(t - Lookback[style])'
    BY <1>2, <2>1, <2>6, CandidatesDated DEF RunRaw
  <2>7. ASSUME kind[r] = "incremental", pc[r] \in {"stored", "compare", "save"}
        PROVE  RawSafe(upto[r] - Lookback[style])'
    BY <1>2, <2>1, <2>7 DEF RunRaw
  <2>. QED BY <1>1, <2>1, <2>2, <2>3, <2>4, <2>5, <2>6, <2>7 DEF RunRaw
<1>. QED BY <1>3, <1>5 DEF RunsRaw

\* The rows of a run go into the raw table: every object has what it had, or its row.
LEMMA RowsWritten ==
  ASSUME TypeOK, NEW r \in Runs, RunRaw(r), Insert(r), NEW o \in Objects
  PROVE  \/ \E t \in Times : <<o, t>> \in batch[r] /\ raw'[o] = t
         \/ raw'[o] = raw[o] /\ \A t \in Times : <<o, t>> \notin batch[r]
BY DEF Insert, Overwrite, TypeOK

\* A step of a run keeps what the raw table shows below the watermarks.
LEMMA MarksRawMoved ==
  ASSUME OnTime, IInv, RInv, [Next]_vars, NEW r \in Runs,
         \/ \E k \in {"incremental", "backfill"} : Acquire(r, k)
         \/ Read(r) \/ Rechecks(r) \/ Fetch(r) \/ Insert(r) \/ Archive(r)
         \/ Compare(r) \/ Save(r) \/ Stop(r)
  PROVE  MarksRaw'
<1> USE DEF IInv, RInv
<1>1. RunRaw(r) /\ Lookback[style] \in Nat
  BY StyleBounds DEF RunsRaw, Typed
<1>2. CASE Insert(r)
  <2>1. /\ pc[r] = "insert" /\ marks' = marks /\ style' = style /\ shown' = shown
    BY <1>2 DEF Insert
  <2>2. ASSUME NEW m \in marks, NEW o \in Objects, shown[o] # None,
               shown[o] < m.ts - Lookback[style]
        PROVE  raw'[o] = shown[o]
    <3>1. raw[o] = shown[o]
      BY <2>2 DEF MarksRaw, RawSafe
    <3>2. ~AskedFor(o)
      BY <1>1, <2>2 DEF AskedFor, Typed
    <3>. QED BY <1>1, <1>2, <2>1, <3>1, <3>2, RowsWritten DEF RunRaw
  <2>. QED BY <2>1, <2>2 DEF MarksRaw, RawSafe
<1>3. CASE Save(r)
  <2>1. RawSafe(upto[r] - Lookback[style])
    BY <1>1, <1>3 DEF RunRaw, RunsSafe, RunSafe, Save
  <2>. QED BY <1>3, <2>1 DEF MarksRaw, RawSafe, Save, Write
<1>4. CASE /\ ~Insert(r) /\ ~Save(r)
  <2>1. raw' = raw /\ marks' = marks /\ style' = style /\ shown' = shown
    BY <1>4 DEF Acquire, Read, Rechecks, EnsureHeld, Fetch, Archive, Compare, Stop, Finish,
       LockLost, Fail, Crash
  <2>. QED BY <2>1 DEF MarksRaw, RawSafe
<1>. QED BY <1>2, <1>3, <1>4

\* The run that moves: each step of it hands its promise on.
LEMMA RunRawMoved ==
  ASSUME OnTime, IInv, RInv, [Next]_vars, NEW r \in Runs,
         \/ \E k \in {"incremental", "backfill"} : Acquire(r, k)
         \/ Read(r) \/ Rechecks(r) \/ Fetch(r) \/ Insert(r) \/ Archive(r)
         \/ Compare(r) \/ Save(r) \/ Stop(r)
  PROVE  RunRaw(r)'
<1> USE DEF IInv, RInv
<1>1. /\ RunRaw(r) /\ RunSafe(r) /\ style \in {"wb", "ym"}
      /\ Lookback[style] \in Nat /\ now \in Nat
      /\ from[r] \in Int /\ upto[r] \in Int /\ upto[r] <= now
  BY StyleBounds, TimesAreNumbers DEF RunsRaw, RunsSafe, Typed, Dated
<1>2. ASSUME NEW k \in {"incremental", "backfill"}, Acquire(r, k) PROVE RunRaw(r)'
  BY <1>1, <1>2 DEF Typed, RunRaw, Acquire, Go
<1>3. ASSUME Stop(r) PROVE RunRaw(r)'
  BY <1>3 DEF Typed, RunRaw, Stop, Finish, LockLost, Fail, Crash, Forget, Go
<1>4. ASSUME Read(r) PROVE RunRaw(r)'
  <2>1. pc'[r] \in {"day", "fetch"} /\ kind' = kind /\ batch' = batch
    BY <1>4 DEF Typed, Read, Go
  <2>2. ASSUME kind[r] = "incremental" PROVE RawSafe(from[r])'
    <3>1. PICK w \in Watermarks : from' = [from EXCEPT ![r] = w - Lookback[style]]
      BY <1>4, <2>2 DEF Read
    <3>2. w \in Int /\ RawSafe(w - Lookback[style])
      BY <1>1 DEF Watermarks, Typed, Dated, MarksRaw, RawSafe
    <3>3. from'[r] = w - Lookback[style] /\ shown' = shown /\ raw' = raw
      BY <1>4, <3>1 DEF Typed, Read
    <3>. QED BY <3>2, <3>3 DEF RawSafe
  <2>. QED BY <1>1, <2>1, <2>2 DEF RunRaw
<1>5. ASSUME Fetch(r) PROVE RunRaw(r)'
  <2>1. /\ pc'[r] \in {"fetched", "insert"} /\ kind' = kind /\ style' = style /\ marks' = marks
        /\ upto' = upto /\ from' = from /\ shown' = shown /\ raw' = raw
        /\ batch'[r] = RowsSince(r) /\ pc[r] = "fetch"
    BY <1>5 DEF Typed, Fetch, Go
  <2>2. \A o \in Objects, t \in Times : <<o, t>> \in RowsSince(r) => shown[o] = t /\ t >= from[r]
    BY DEF RowsSince
  <2>3. ASSUME kind[r] = "incremental", NEW t \in Candidates(r)', NEW o \in Objects,
               shown[o] # None, shown[o] < t - Lookback[style]
        PROVE  \/ <<o, shown[o]>> \in RowsSince(r)
               \/ raw[o] = shown[o] /\ \A s \in Times : <<o, s>> \notin RowsSince(r)
    <3>1. t \in Int /\ t <= now /\ (style = "ym" => t = upto[r])
      BY <1>1, <2>1 DEF Typed, Dated, Candidates, RowsSince
    <3>2. shown[o] \in Times
      BY <1>1, <2>3, <3>1, TimesAreNumbers DEF Typed, Dated
    <3>3. CASE shown[o] >= from[r]
      BY <1>1, <2>3, <3>1, <3>2, <3>3 DEF RowsSince, Typed
    <3>4. CASE shown[o] < from[r]
      BY <1>1, <2>1, <2>2, <2>3, <3>2, <3>4 DEF RunRaw, RawSafe
    <3>. QED BY <1>1, <3>2, <3>3, <3>4
  <2>. QED BY <2>1, <2>2, <2>3 DEF RunRaw
<1>6. ASSUME Rechecks(r) PROVE RunRaw(r)'
  <2>1. /\ kind' = kind /\ style' = style /\ upto' = upto /\ from' = from /\ shown' = shown
        /\ raw' = raw /\ marks' = marks /\ batch' = batch
        /\ \/ pc[r] = "day" /\ pc'[r] = "fetch"
           \/ pc[r] = "fetched" /\ pc'[r] = "insert"
           \/ pc[r] = "stored" /\ pc'[r] = "finish"
           \/ pc[r] = "stored" /\ pc'[r] = "compare"
    BY <1>6 DEF Typed, Rechecks, EnsureHeld, Go
  <2>2. Candidates(r)' = Candidates(r)
    BY <2>1 DEF Candidates
  <2>3. pc[r] = "day" => kind[r] # "incremental"
    BY <1>1 DEF RunSafe
  <2>. QED BY <1>1, <2>1, <2>2, <2>3 DEF RunRaw, RawSafe, AskedFor
<1>7. ASSUME Insert(r) PROVE RunRaw(r)'
  <2>1. /\ kind' = kind /\ style' = style /\ upto' = upto /\ shown' = shown
        /\ batch' = batch /\ pc[r] = "insert" /\ pc'[r] = "archive"
    BY <1>7 DEF Typed, Insert, Go
  <2>2. Candidates(r)' = Candidates(r)
    BY <2>1 DEF Candidates
  <2>3. ASSUME kind[r] = "incremental", NEW t \in Candidates(r), NEW o \in Objects,
               shown[o] # None, shown[o] < t - Lookback[style]
        PROVE  raw'[o] = shown[o]
    <3>1. \/ <<o, shown[o]>> \in batch[r]
          \/ raw[o] = shown[o] /\ \A s \in Times : <<o, s>> \notin batch[r]
      BY <1>1, <2>1, <2>3 DEF RunRaw
    <3>2. shown[o] \in Times
      BY <2>3 DEF TypeOK
    <3>. QED BY <1>1, <1>7, <3>1, <3>2, RowsWritten DEF RunRaw
  <2>. QED BY <1>1, <2>1, <2>2, <2>3 DEF RunRaw, RawSafe
<1>8. ASSUME Archive(r) PROVE RunRaw(r)'
  <2>1. /\ kind' = kind /\ style' = style /\ shown' = shown /\ raw' = raw /\ pc[r] = "archive"
        /\ batch'[r] = {} /\ pc'[r] = AfterRows(r)
    BY <1>8 DEF Typed, Archive, Go
  <2>2. /\ pc'[r] \in {"stored", "day", "compare", "finish"}
    BY <2>1, AfterRowsCases
  <2>3. ASSUME kind[r] = "incremental", pc'[r] \in {"stored", "compare"}
        PROVE  RawSafe(upto[r] - Lookback[style])'
    <3>1. PICK t \in Candidates(r) : upto' = [upto EXCEPT ![r] = t]
      BY <1>8, <2>1, <2>3 DEF Archive
    <3>2. RawSafe(t - Lookback[style]) /\ upto'[r] = t
      BY <1>1, <2>1, <2>3, <3>1 DEF RunRaw, Typed
    <3>. QED BY <2>1, <3>2 DEF RawSafe
  <2>. QED BY <2>1, <2>2, <2>3 DEF RunRaw
<1>9. ASSUME Compare(r) \/ Save(r) PROVE RunRaw(r)'
  <2>1. /\ kind' = kind /\ style' = style /\ upto' = upto /\ shown' = shown /\ raw' = raw
        /\ batch' = batch /\ pc[r] \in {"compare", "save"} /\ pc'[r] \in {"save", "finish"}
    BY <1>9 DEF Typed, Compare, Save, Go
  <2>. QED BY <1>1, <2>1 DEF RunRaw, RawSafe
<1>. QED BY <1>2, <1>3, <1>4, <1>5, <1>6, <1>7, <1>8, <1>9

\* Every step keeps what the raw table promises: the runs that do not move are idle.
LEMMA RawStep ==
  ASSUME OnTime, ~LeaseMayLapse, IInv, RInv, [Next]_vars
  PROVE  MarksRaw' /\ RunsRaw'
<1> USE DEF IInv, RInv
<1> DEFINE Moves(r) == \/ \E k \in {"incremental", "backfill"} : Acquire(r, k)
                       \/ Read(r) \/ Rechecks(r) \/ Fetch(r) \/ Insert(r) \/ Archive(r)
                       \/ Compare(r) \/ Save(r) \/ Stop(r)
<1>1. CASE UNCHANGED <<store, slots>>
  BY <1>1, RawOutside
<1>2. ASSUME NEW r \in Runs, Moves(r) PROVE MarksRaw' /\ RunsRaw'
  <2>1. ASSUME NEW q \in Runs, q # r PROVE RunRaw(q)'
    <3>1. pc[q] = "idle"
      BY <1>2, <2>1, NoRunIsNoRun DEF Alone, Acquire, Read, Rechecks, EnsureHeld, Fetch, Insert,
         Archive, Compare, Save, Stop, Finish, LockLost, Fail, Crash
    <3>2. pc'[q] = pc[q] /\ batch'[q] = batch[q]
      BY <1>2, <2>1 DEF Typed, Acquire, Read, Rechecks, EnsureHeld, Fetch, Insert, Archive,
         Compare, Save, Stop, Finish, LockLost, Fail, Crash, Forget, Go
    <3>. QED BY <3>1, <3>2 DEF RunsRaw, RunRaw
  <2>2. RunRaw(r)' /\ MarksRaw'
    BY <1>2, RunRawMoved, MarksRawMoved
  <2>. QED BY <2>1, <2>2 DEF RunsRaw
<1>3. (\E r \in Runs : Moves(r)) \/ UNCHANGED <<store, slots>>
  BY NextCases DEF Tick, LockExpires, LeaseLapses, Change, Show, vars
<1>. QED BY <1>1, <1>2, <1>3

\* Every step keeps the invariant.
LEMMA RInvStep == ASSUME OnTime, ~LeaseMayLapse, IInv, RInv, [Next]_vars PROVE RInv'
BY TypeOKStep, AloneStep, RawStep DEF RInv

\* What no later run will ask for is what the raw table shows, and states are of their type:
\* while no live run loses its lock, whatever exceptions and crashes there are.
THEOREM RawNeverPassed == ASSUME OnTime, ~LeaseMayLapse PROVE Spec => []CollectedSound
<1>1. Init => IInv /\ RInv
  BY InitIInv, InitRInv
<1>2. IInv /\ RInv /\ [Next]_vars => (IInv /\ RInv)'
  BY IInvStep, RInvStep
<1>3. IInv /\ RInv => CollectedSound
  BY DEF IInv, RInv, MarksRaw, RawSafe, CollectedSound, NothingSkipped, Passed
<1>. QED BY <1>1, <1>2, <1>3, PTL DEF Spec

-----------------------------------------------------------------------------
(* The watermark only moves forward, while no live run loses its lock *)

\* Wildberries still shows the change a watermark or a row was taken from, or a later one.
Reached(t) == \E o \in Objects : shown[o] >= t

MarksShown ==
  style = "wb" =>
    /\ \A m \in marks : Reached(m.ts)
    /\ \A r \in Runs : \A v \in batch[r] : Reached(v[2])
    /\ \A r \in Runs : pc[r] \in {"compare", "save"} => Reached(upto[r])
    /\ \A r \in Runs : pc[r] # "stored"

\* What a run will ask for is not behind a watermark: the time of the run, or the last
\* change of all, which is among its rows.
RunAhead(r) ==
  kind[r] = "incremental" =>
    /\ pc[r] = "fetch" =>
         IF style = "wb" THEN marks = {} \/ \E m \in marks : from[r] <= m.ts
                         ELSE \A m \in marks : m.ts <= upto[r]
    /\ pc[r] \in {"fetched", "insert", "archive"} =>
         \/ style = "wb" /\ batch[r] = {}
         \/ \A t \in Candidates(r), m \in marks : m.ts <= t
    /\ pc[r] \in {"stored", "compare", "save"} => \A m \in marks : m.ts <= upto[r]

RunsAhead == \A r \in Runs : RunAhead(r)

AInv == IInv /\ RInv /\ MarksShown /\ RunsAhead

\* Versions only grow: a later one takes the place of the one shown.
LEMMA ShownGrows ==
  ASSUME Typed, Dated, [Next]_vars, NEW o \in Objects
  PROVE  shown[o] <= shown'[o]
<1>1. ASSUME NEW p \in Objects, Show(p) PROVE shown[o] <= shown'[o]
  BY <1>1 DEF Typed, Dated, Show
<1>. QED BY <1>1, Growing DEF Typed

\* The run that moves is ahead of the watermarks, before its step and after it.
LEMMA RunAheadMoved ==
  ASSUME OnTime, AInv, [Next]_vars, NEW r \in Runs,
         \/ \E k \in {"incremental", "backfill"} : Acquire(r, k)
         \/ Read(r) \/ Rechecks(r) \/ Fetch(r) \/ Insert(r) \/ Archive(r)
         \/ Compare(r) \/ Save(r) \/ Stop(r)
  PROVE  RunAhead(r)'
<1> USE DEF AInv, IInv
<1>1. /\ RunAhead(r) /\ RunSafe(r) /\ style \in {"wb", "ym"}
      /\ Lookback[style] \in Nat /\ now \in Nat
      /\ from[r] \in Int /\ upto[r] \in Int /\ upto[r] <= now
      /\ \A m \in marks : m.ts \in Int /\ m.ts <= now
  BY StyleBounds, TimesAreNumbers DEF RunsAhead, RunsSafe, Typed, Dated
<1>2. CASE \E k \in {"incremental", "backfill"} : Acquire(r, k)
  BY <1>2 DEF Typed, RunAhead, Acquire, Go
<1>3. CASE Stop(r)
  BY <1>3 DEF Typed, RunAhead, Stop, Finish, LockLost, Fail, Crash, Forget, Go
<1>4. CASE Read(r)
  <2>1. /\ pc'[r] \in {"day", "fetch"} /\ kind' = kind /\ marks' = marks /\ style' = style
        /\ upto'[r] = now
    BY <1>4 DEF Typed, Read, Go
  <2>2. ASSUME kind[r] = "incremental", marks # {}
        PROVE  \E m \in marks : from'[r] <= m.ts
    <3>1. PICK m \in marks : from' = [from EXCEPT ![r] = m.ts - Lookback[style]]
      BY <1>4, <2>2 DEF Read, Watermarks
    <3>2. from'[r] = m.ts - Lookback[style]
      BY <3>1 DEF Typed
    <3>. QED BY <1>1, <3>2
  <2>. QED BY <1>1, <2>1, <2>2 DEF RunAhead
<1>5. CASE Fetch(r)
  <2>1. /\ pc'[r] \in {"fetched", "insert"} /\ kind' = kind /\ style' = style /\ marks' = marks
        /\ upto' = upto /\ batch'[r] = RowsSince(r) /\ pc[r] = "fetch"
    BY <1>5 DEF Typed, Fetch, Go
  <2>2. ASSUME kind[r] = "incremental", style = "ym", NEW t \in Candidates(r)', NEW m \in marks
        PROVE  m.ts <= t
    BY <1>1, <2>1, <2>2 DEF RunAhead, Candidates
  <2>3. ASSUME kind[r] = "incremental", style = "wb", NEW t \in Candidates(r)', NEW m \in marks,
               RowsSince(r) # {}
        PROVE  m.ts <= t
    <3>1. PICK n \in marks : from[r] <= n.ts
      BY <1>1, <2>1, <2>3 DEF RunAhead
    <3>2. PICK o \in Objects : shown[o] >= m.ts
      BY <2>3 DEF MarksShown, Reached
    <3>3. PICK p \in Objects : shown[p] >= n.ts
      BY <2>3 DEF MarksShown, Reached
    <3>4. \A q \in Objects : shown[q] \in Int /\ -1 <= shown[q]
      BY DEF Typed, Dated
    <3>5. t \in Int /\ \A v \in RowsSince(r) : v[2] <= t
      <4>1. style' = "wb" /\ batch[r]' = RowsSince(r)
        BY <2>1, <2>3
      <4>2. t \in {v[2] : v \in {w \in RowsSince(r) : \A x \in RowsSince(r) : x[2] <= w[2]}}
        BY <2>3, <4>1 DEF Candidates
      <4>. QED BY <4>2 DEF RowsSince
    <3>6. \A q \in Objects : shown[q] # None /\ shown[q] >= from[r] => shown[q] <= t
      <4>1. ASSUME NEW q \in Objects, shown[q] # None, shown[q] >= from[r]
            PROVE  <<q, shown[q]>> \in RowsSince(r)
        <5>1. shown[q] \in Times
          BY <4>1 DEF RInv, TypeOK
        <5>. QED BY <2>3, <4>1, <5>1 DEF RowsSince
      <4>. QED BY <3>5, <4>1
    <3>7. m.ts \in Nat /\ n.ts \in Nat
      BY DEF RInv, TypeOK
    <3>. QED BY <1>1, <3>1, <3>2, <3>3, <3>4, <3>5, <3>6, <3>7
  <2>. QED BY <1>1, <2>1, <2>2, <2>3 DEF RunAhead
<1>6. CASE Rechecks(r)
  <2>1. /\ kind' = kind /\ style' = style /\ upto' = upto /\ from' = from
        /\ marks' = marks /\ batch' = batch
        /\ \/ pc[r] = "day" /\ pc'[r] = "fetch"
           \/ pc[r] = "fetched" /\ pc'[r] = "insert"
           \/ pc[r] = "stored" /\ pc'[r] = "finish"
           \/ pc[r] = "stored" /\ pc'[r] = "compare"
    BY <1>6 DEF Typed, Rechecks, EnsureHeld, Go
  <2>2. Candidates(r)' = Candidates(r)
    BY <2>1 DEF Candidates
  <2>3. pc[r] = "day" => kind[r] # "incremental"
    BY <1>1 DEF RunSafe
  <2>. QED BY <1>1, <2>1, <2>2, <2>3 DEF RunAhead
<1>7. CASE Insert(r)
  <2>1. /\ kind' = kind /\ style' = style /\ upto' = upto /\ marks' = marks
        /\ batch' = batch /\ pc[r] = "insert" /\ pc'[r] = "archive"
    BY <1>7 DEF Typed, Insert, Go
  <2>2. Candidates(r)' = Candidates(r)
    BY <2>1 DEF Candidates
  <2>. QED BY <1>1, <2>1, <2>2 DEF RunAhead
<1>8. CASE Archive(r)
  <2>1. /\ kind' = kind /\ style' = style /\ marks' = marks /\ pc[r] = "archive"
        /\ pc'[r] = AfterRows(r)
    BY <1>8 DEF Typed, Archive, Go
  <2>2. /\ pc'[r] \in {"stored", "day", "compare", "finish"}
        /\ pc'[r] = "day" => kind[r] # "incremental"
    BY <2>1, AfterRowsCases
  <2>3. ASSUME kind[r] = "incremental", pc'[r] \in {"stored", "compare"}
        PROVE  \A m \in marks : m.ts <= upto'[r]
    <3>1. PICK t \in Candidates(r) : upto' = [upto EXCEPT ![r] = t]
      BY <1>8, <2>1, <2>3 DEF Archive
    <3>2. upto'[r] = t
      BY <3>1 DEF Typed
    <3>3. ~(style = "wb" /\ batch[r] = {})
      BY <2>1, <2>3 DEF AfterRows
    <3>. QED BY <1>1, <2>1, <2>3, <3>2, <3>3 DEF RunAhead
  <2>. QED BY <2>1, <2>2, <2>3 DEF RunAhead
<1>9. CASE Compare(r)
  <2>1. /\ kind' = kind /\ upto' = upto /\ marks' = marks /\ style' = style
        /\ pc[r] = "compare" /\ pc'[r] \in {"save", "finish"}
    BY <1>9 DEF Typed, Compare, Go
  <2>. QED BY <1>1, <2>1 DEF RunAhead
<1>10. CASE Save(r)
  BY <1>10 DEF Typed, RunAhead, Save, Go
<1>. QED BY <1>2, <1>3, <1>4, <1>5, <1>6, <1>7, <1>8, <1>9, <1>10

\* Every step keeps the changes shown: a watermark is the last change of the rows.
LEMMA MarksShownStep ==
  ASSUME OnTime, AInv, [Next]_vars
  PROVE  MarksShown'
<1> USE DEF AInv, IInv
<1> SUFFICES ASSUME style = "wb" PROVE MarksShown'
  BY Growing DEF MarksShown
<1>1. ASSUME NEW t \in Int, Reached(t) PROVE Reached(t)'
  <2>1. PICK o \in Objects : shown[o] >= t
    BY <1>1 DEF Reached
  <2>2. shown[o] \in Int /\ shown'[o] \in Int /\ shown[o] <= shown'[o]
    BY ShownGrows, TypedStep DEF Typed
  <2>. QED BY <1>1, <2>1, <2>2 DEF Reached
<1>2. ASSUME NEW r \in Runs, NEW v \in batch[r] PROVE Reached(v[2])' /\ v[2] \in Int
  BY <1>1, TimesAreNumbers DEF MarksShown, RInv, TypeOK
<1>3. ASSUME NEW m \in marks PROVE Reached(m.ts)'
  BY <1>1 DEF MarksShown, Typed
<1>4. ASSUME NEW r \in Runs, pc[r] \in {"compare", "save"}
      PROVE  \E o \in Objects : shown'[o] >= upto[r]
  <2>1. upto[r] \in Int /\ Reached(upto[r])
    BY <1>4 DEF MarksShown, Typed
  <2>. QED BY <1>1, <2>1 DEF Reached
<1>5. ASSUME NEW r \in Runs, Fetch(r) PROVE MarksShown'
  <2>1. marks' = marks /\ upto' = upto /\ shown' = shown /\ style' = style
    BY <1>5 DEF Fetch
  <2>2. ASSUME NEW q \in Runs, NEW v \in batch'[q] PROVE Reached(v[2])'
    <3>1. CASE q = r
      <4>1. v \in RowsSince(r)
        BY <1>5, <2>2, <3>1 DEF Fetch, Typed
      <4>2. v[1] \in Objects /\ shown'[v[1]] = v[2] /\ v[2] \in Int
        BY <2>1, <4>1, TimesAreNumbers DEF RowsSince
      <4>. QED BY <4>2 DEF Reached
    <3>2. CASE q # r
      BY <1>2, <1>5, <2>2, <3>2 DEF Fetch, Typed
    <3>. QED BY <3>1, <3>2
  <2>3. \A q \in Runs : pc'[q] \in {"compare", "save"} => pc[q] \in {"compare", "save"}
    BY <1>5, StyleBounds DEF Fetch, Go, Typed
  <2>4. \A q \in Runs : pc'[q] # "stored"
    BY <1>5 DEF MarksShown, Fetch, Go, Typed
  <2>. QED BY <1>3, <1>4, <2>1, <2>2, <2>3, <2>4 DEF MarksShown, Reached
<1>6. ASSUME NEW r \in Runs, Archive(r) PROVE MarksShown'
  <2>1. marks' = marks /\ shown' = shown /\ style' = style /\ pc'[r] = AfterRows(r)
    BY <1>6 DEF Archive, Go, Typed
  <2>2. \A q \in Runs : \A v \in batch'[q] : v \in batch[q]
    BY <1>6 DEF Archive, Typed
  <2>3. ASSUME pc'[r] \in {"compare", "save"} PROVE Reached(upto[r])'
    <3>1. batch[r] # {} /\ AfterRows(r) # "day"
      BY <2>1, <2>3 DEF AfterRows
    <3>2. PICK t \in Candidates(r) : upto' = [upto EXCEPT ![r] = t]
      BY <1>6, <3>1 DEF Archive
    <3>3. \E v \in batch[r] : t = v[2]
      BY <3>1, <3>2 DEF Candidates
    <3>4. upto'[r] = t
      BY <3>2 DEF Typed
    <3>. QED BY <1>2, <3>3, <3>4 DEF Reached
  <2>4. ASSUME NEW q \in Runs, q # r, pc'[q] \in {"compare", "save"} PROVE Reached(upto[q])'
    <3>1. pc[q] \in {"compare", "save"} /\ upto'[q] = upto[q]
      BY <1>6, <2>4 DEF Archive, Go, Typed
    <3>. QED BY <1>4, <3>1 DEF Reached
  <2>5. \A q \in Runs : pc'[q] # "stored"
    BY <1>6, <2>1 DEF MarksShown, AfterRows, Archive, Go, Typed
  <2>. QED BY <1>2, <1>3, <2>1, <2>2, <2>3, <2>4, <2>5 DEF MarksShown
<1>7. ASSUME NEW r \in Runs, Save(r) PROVE MarksShown'
  BY <1>2, <1>3, <1>4, <1>7 DEF MarksShown, Reached, Save, Write, Go, Typed
<1>8. CASE /\ marks' = marks
           /\ \A r \in Runs : /\ batch'[r] = batch[r] \/ batch'[r] = {}
                              /\ pc'[r] \in {"compare", "save"} =>
                                   /\ pc[r] \in {"compare", "save"} /\ upto'[r] = upto[r]
                              /\ pc'[r] # "stored"
  BY <1>2, <1>3, <1>4, <1>8 DEF MarksShown, Reached
<1>9. ASSUME NEW r \in Runs, \/ \E k \in {"incremental", "backfill"} : Acquire(r, k)
                             \/ Read(r) \/ Rechecks(r) \/ Insert(r) \/ Compare(r) \/ Stop(r)
      PROVE  MarksShown'
  <2>1. marks' = marks
    BY <1>9 DEF Acquire, Read, Rechecks, EnsureHeld, Insert, Compare, Stop, Finish, LockLost,
       Fail, Crash
  <2>2. \A q \in Runs : batch'[q] = batch[q] \/ batch'[q] = {}
    BY <1>9 DEF Acquire, Read, Rechecks, EnsureHeld, Insert, Compare, Stop, Finish, LockLost,
       Fail, Crash, Forget, Typed
  <2>3. \A q \in Runs : pc'[q] \in {"compare", "save"} =>
                          pc[q] \in {"compare", "save"} /\ upto'[q] = upto[q]
    <3>1. pc[r] # "stored"
      BY DEF MarksShown
    <3>. QED BY <1>9, <3>1 DEF Acquire, Read, Rechecks, EnsureHeld, Insert, Compare, Stop, Finish,
       LockLost, Fail, Crash, Forget, Go, Typed
  <2>4. \A q \in Runs : pc'[q] # "stored"
    BY <1>9 DEF MarksShown, Acquire, Read, Rechecks, EnsureHeld, Insert, Compare, Stop, Finish,
       LockLost, Fail, Crash, Forget, Go, Typed
  <2>. QED BY <1>8, <2>1, <2>2, <2>3, <2>4
<1>10. CASE UNCHANGED <<marks, slots>>
  BY <1>8, <1>10 DEF MarksShown
<1>11. \/ UNCHANGED <<marks, slots>>
       \/ \E r \in Runs : \/ \E k \in {"incremental", "backfill"} : Acquire(r, k)
                          \/ Read(r) \/ Rechecks(r) \/ Insert(r) \/ Compare(r) \/ Stop(r)
                          \/ Fetch(r) \/ Archive(r) \/ Save(r)
  BY NextCases DEF Tick, LockExpires, LeaseLapses, Change, Show, vars
<1>. QED BY <1>5, <1>6, <1>7, <1>9, <1>10, <1>11

\* Every step keeps all runs ahead of the watermarks: the others are idle.
LEMMA RunsAheadStep ==
  ASSUME OnTime, AInv, [Next]_vars
  PROVE  RunsAhead'
<1> USE DEF AInv, IInv, RInv
<1> DEFINE Moves(r) == \/ \E k \in {"incremental", "backfill"} : Acquire(r, k)
                       \/ Read(r) \/ Rechecks(r) \/ Fetch(r) \/ Insert(r) \/ Archive(r)
                       \/ Compare(r) \/ Save(r) \/ Stop(r)
<1>1. CASE UNCHANGED <<marks, slots>>
  <2>1. style' = style
    BY Growing
  <2>2. \A r \in Runs : Candidates(r)' = Candidates(r)
    BY <1>1, <2>1 DEF Candidates
  <2>. QED BY <1>1, <2>1, <2>2 DEF RunsAhead, RunAhead
<1>2. ASSUME NEW r \in Runs, Moves(r) PROVE RunsAhead'
  <2>1. ASSUME NEW q \in Runs, q # r PROVE RunAhead(q)'
    <3>1. pc[q] = "idle"
      BY <1>2, <2>1, NoRunIsNoRun DEF Alone, Acquire, Read, Rechecks, EnsureHeld, Fetch, Insert,
         Archive, Compare, Save, Stop, Finish, LockLost, Fail, Crash
    <3>2. pc'[q] = pc[q]
      BY <1>2, <2>1 DEF Typed, Acquire, Read, Rechecks, EnsureHeld, Fetch, Insert, Archive,
         Compare, Save, Stop, Finish, LockLost, Fail, Crash, Forget, Go
    <3>. QED BY <3>1, <3>2 DEF RunAhead
  <2>2. RunAhead(r)'
    BY <1>2, RunAheadMoved
  <2>. QED BY <2>1, <2>2 DEF RunsAhead
<1>3. (\E r \in Runs : Moves(r)) \/ UNCHANGED <<marks, slots>>
  BY NextCases DEF Tick, LockExpires, LeaseLapses, Change, Show, vars
<1>. QED BY <1>1, <1>2, <1>3

\* set_watermark compares and writes in two statements; the lock alone makes no watermark
\* go back, whatever exceptions and crashes there are.
THEOREM WatermarksAdvance == ASSUME OnTime, ~LeaseMayLapse PROVE Spec => MarksForward
<1>1. Init => AInv
  BY InitIInv, InitRInv DEF Init, AInv, MarksShown, RunsAhead, RunAhead
<1>2. AInv /\ [Next]_vars => AInv'
  <2> SUFFICES ASSUME AInv, [Next]_vars PROVE AInv'
    OBVIOUS
  <2>1. IInv' /\ RInv'
    BY RInvStep, IInvStep DEF AInv
  <2>2. MarksShown' /\ RunsAhead'
    BY MarksShownStep, RunsAheadStep
  <2>. QED BY <2>1, <2>2 DEF AInv
<1>3. AInv /\ [Next]_vars => [\A m \in marks, n \in marks' \ marks : n.ts >= m.ts]_vars
  <2> SUFFICES ASSUME AInv, [Next]_vars, NEW m \in marks, NEW n \in marks' \ marks
               PROVE  n.ts >= m.ts
    OBVIOUS
  <2>1. PICK r \in Runs : Save(r)
    BY NextCases DEF Tick, LockExpires, LeaseLapses, Change, Show, Acquire, Read, Rechecks,
       EnsureHeld, Fetch, Insert, Archive, Compare, Stop, Finish, LockLost, Fail, Crash, vars
  <2>2. n.ts = upto[r] /\ pc[r] = "save" /\ kind[r] = "incremental"
    <3>1. pc[r] = "save" /\ n = [ts |-> upto[r], at |-> now]
      BY <2>1 DEF Save, Write
    <3>2. RunSafe(r)
      BY DEF AInv, IInv, RunsSafe
    <3>. QED BY <3>1, <3>2 DEF RunSafe
  <2>3. m.ts <= upto[r]
    BY <2>2 DEF AInv, RunsAhead, RunAhead
  <2>4. m.ts \in Int /\ upto[r] \in Int
    BY DEF AInv, IInv, Typed
  <2>. QED BY <2>2, <2>3, <2>4
<1>. QED BY <1>1, <1>2, <1>3, PTL DEF Spec, MarksForward
=============================================================================
