---------------------------- MODULE PriceSnapshot ----------------------------
(***************************************************************************)
(* Where the repricer's picture of a price comes from: the catalogue       *)
(* snapshot (workers/app/tasks/history.py) reads the card, commits it to   *)
(* the history store and logs its run; the mart mrt_price_current pairs    *)
(* the committed price with the time the last snapshot finished; the       *)
(* repricer acts on the mart row unless a live change of the card is as    *)
(* recent as that time (last_applied_at).                                  *)
(*                                                                         *)
(* One card.  A price is a level, one level being one max_step_pct.  Time  *)
(* is the number of pending and applied rows written so far: that is all   *)
(* the repricer compares it with.  One repricer run at a time, as          *)
(* ActionLedger shows; a run may crash.                                    *)
(***************************************************************************)
EXTENDS Integers

CONSTANTS
  Levels,        \* bound: the prices, 0..Levels
  MaxRows,       \* bound: pending and applied rows
  Worlds         \* the sets of Perils under which it is looked at

Perils ==
  {"overlap",    \* a snapshot is taken while a change is being made
   "carried",    \* a snapshot cannot read the prices
   "late"}       \* an accepted price is shown only later, or never

ASSUME BoundsAreNumbers == Levels \in Nat /\ MaxRows \in Nat
ASSUME WorldsArePerils == Worlds \subseteq SUBSET Perils

VARIABLES
  perils,  \* what may happen in this world
  price,   \* the price buyers see
  queued,  \* a price accepted and not shown yet, or NoPrice
  goal,    \* the price the rule asks for
  read,    \* what the running snapshot has read, or NoPrice
  head,    \* the price in the history store
  seen,    \* the rows there were when the last successful snapshot finished
  mart,    \* the card's row of mrt_price_current: [price, seen]
  rows,    \* pending and applied rows of the card
  today,   \* the prices on record for the card today
  run,     \* the repricer: "idle", "marked", "accepted" or "rejected"
  asked    \* the price of the change it is making

snapVars == <<perils, price, queued, goal, read, head, seen, mart, rows, today, run, asked>>
catalogue == <<read, head, seen>>
ledger == <<rows, today>>

NoPrice == -1
Prices == 0..Levels

SnapInit ==
  /\ perils \in Worlds
  /\ price \in Prices
  /\ queued = NoPrice
  /\ goal \in Prices
  /\ read = NoPrice
  /\ head = price
  /\ seen = 0
  /\ mart = [price |-> price, seen |-> 0]
  /\ rows = 0
  /\ today = {}
  /\ run = "idle"
  /\ asked = price

-----------------------------------------------------------------------------
(* The catalogue snapshot and the mart *)

\* build(): the listing and the prices are fetched.  A token that may not read the
\* prices (401, 403) does not fail the snapshot: the last known price is carried over.
ReadCatalogue ==
  /\ read = NoPrice
  /\ "overlap" \in perils \/ run = "idle"
  /\ read' = price \/ ("carried" \in perils /\ read' = head)
  /\ UNCHANGED <<perils, price, queued, goal, head, seen, mart, ledger, run, asked>>

\* HistoryStore.record: the card's HEAD.
Commit ==
  /\ read # NoPrice
  /\ head # read
  /\ head' = read
  /\ UNCHANGED <<perils, price, queued, goal, read, seen, mart, ledger, run, asked>>

\* Mutant: the run is logged as a success whether it committed or not.
LogAnySnapshot ==
  /\ read # NoPrice
  /\ read' = NoPrice
  /\ seen' = rows
  /\ UNCHANGED <<perils, price, queued, goal, head, mart, ledger, run, asked>>

\* log_task_run(..., "success"): finished_at is now, not when the prices were read.
LogSnapshot ==
  /\ read # NoPrice
  /\ head = read
  /\ read' = NoPrice
  /\ seen' = rows
  /\ UNCHANGED <<perils, price, queued, goal, head, mart, ledger, run, asked>>

\* The listing, the commit or the worker fails: the run is not a success.
SnapshotFails ==
  /\ read # NoPrice
  /\ read' = NoPrice
  /\ UNCHANGED <<perils, price, queued, goal, head, seen, mart, ledger, run, asked>>

\* Mutant: the row says when it was built, not when its price was seen.
BuildMartStampedNow ==
  /\ mart # [price |-> head, seen |-> rows]
  /\ mart' = [price |-> head, seen |-> rows]
  /\ UNCHANGED <<perils, price, queued, goal, catalogue, ledger, run, asked>>

\* _build_price_current: HEAD with the finish time of the last successful snapshot.
BuildMart ==
  /\ mart # [price |-> head, seen |-> seen]
  /\ mart' = [price |-> head, seen |-> seen]
  /\ UNCHANGED <<perils, price, queued, goal, catalogue, ledger, run, asked>>

-----------------------------------------------------------------------------
(* The repricer *)

\* One step from the shown price towards the goal.
StepFrom(p) == IF goal > p THEN p + 1 ELSE p - 1

\* Mutant: only applied rows say when the card was last changed.
MarkWithoutRow ==
  /\ run = "idle"
  /\ "overlap" \in perils \/ read = NoPrice
  /\ mart.price # goal
  /\ mart.seen >= rows
  /\ StepFrom(mart.price) \notin today
  /\ rows < MaxRows
  /\ today' = today \cup {StepFrom(mart.price)}
  /\ asked' = StepFrom(mart.price)
  /\ run' = "marked"
  /\ UNCHANGED <<perils, price, queued, goal, catalogue, mart, rows>>

\* A change that is not awaiting a snapshot and not on record: its marker.
Mark ==
  /\ run = "idle"
  /\ "overlap" \in perils \/ read = NoPrice
  /\ mart.price # goal
  /\ mart.seen >= rows
  /\ StepFrom(mart.price) \notin today
  /\ rows < MaxRows
  /\ rows' = rows + 1
  /\ today' = today \cup {StepFrom(mart.price)}
  /\ asked' = StepFrom(mart.price)
  /\ run' = "marked"
  /\ UNCHANGED <<perils, price, queued, goal, catalogue, mart>>

\* The marketplace takes the price, now or for later.
Accepted ==
  /\ run = "marked"
  /\ run' = "accepted"
  /\ IF "late" \in perils
     THEN queued' = asked /\ UNCHANGED price
     ELSE price' = asked /\ UNCHANGED queued
  /\ UNCHANGED <<perils, goal, catalogue, mart, ledger, asked>>

Rejected ==
  /\ run = "marked"
  /\ run' = "rejected"
  /\ UNCHANGED <<perils, price, queued, goal, catalogue, mart, ledger, asked>>

\* The terminal row: applied is a row of its own, a failed one frees the key.
Record ==
  /\ run \in {"accepted", "rejected"}
  /\ run = "accepted" => rows < MaxRows
  /\ rows' = IF run = "accepted" THEN rows + 1 ELSE rows
  /\ today' = IF run = "accepted" THEN today ELSE today \ {asked}
  /\ run' = "idle"
  /\ UNCHANGED <<perils, price, queued, goal, catalogue, mart, asked>>

\* The worker dies before the terminal row.
Crash ==
  /\ run # "idle"
  /\ run' = "idle"
  /\ UNCHANGED <<perils, price, queued, goal, catalogue, mart, ledger, asked>>

-----------------------------------------------------------------------------
(* Around them *)

ShowQueued ==
  /\ queued # NoPrice
  /\ price' = queued
  /\ queued' = NoPrice
  /\ UNCHANGED <<perils, goal, catalogue, mart, ledger, run, asked>>

\* The marketplace drops the accepted price, as in WB's quarantine.
DropQueued ==
  /\ queued # NoPrice
  /\ queued' = NoPrice
  /\ UNCHANGED <<perils, price, goal, catalogue, mart, ledger, run, asked>>

SetGoal ==
  /\ goal' \in Prices \ {goal}
  /\ UNCHANGED <<perils, price, queued, catalogue, mart, ledger, run, asked>>

NextDay ==
  /\ today # {}
  /\ today' = {}
  /\ UNCHANGED <<perils, price, queued, goal, catalogue, mart, rows, run, asked>>

SnapNext ==
  \/ ReadCatalogue \/ Commit \/ LogSnapshot \/ SnapshotFails \/ BuildMart
  \/ Mark \/ Accepted \/ Rejected \/ Record \/ Crash
  \/ ShowQueued \/ DropQueued \/ SetGoal \/ NextDay

SnapSpec == SnapInit /\ [][SnapNext]_snapVars

-----------------------------------------------------------------------------
SnapTypeOK ==
  /\ {price, goal, head, mart.price, asked} \subseteq Prices
  /\ {queued, read} \subseteq Prices \cup {NoPrice}
  /\ today \subseteq Prices
  /\ perils \in Worlds
  /\ rows \in 0..MaxRows
  /\ {seen, mart.seen} \subseteq 0..rows
  /\ run \in {"idle", "marked", "accepted", "rejected"}

\* However late the mart is built: since the last pending or applied row of the card a
\* catalogue snapshot has finished before the card is changed again.
AwaitsSnapshot ==
  /\ SnapTypeOK
  /\ [][SnapTypeOK' /\ (run = "idle" /\ run' = "marked" => seen >= rows)]_snapVars

\* docs/marketplace_actions.md: one change moves the price by at most max_step_pct of
\* the current price.  What counts is the price buyers see, not the one in the mart; the
\* guard of last_applied_at is enough for it when none of the perils is there, whatever
\* crashes and however late the mart is built.
StepOnMarket == [][perils = {} => price' \in {price - 1, price, price + 1}]_snapVars

\* docs/marketplace_actions.md: after a live change the rule waits until a catalogue
\* snapshot shows the result.
WaitsForResult ==
  [][perils = {} /\ run = "idle" /\ run' = "marked" => mart.price = price]_snapVars
=============================================================================
