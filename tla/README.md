# Verification of BormoStats

TLA+ specifications, TLC configurations and TLAPS proofs for the parts of BormoStats whose
correctness depends on the order of events or on the way pieces of state fit together: the
tasks that change prices, bids, replies and stocks on the marketplaces, the collection of the
data the reports are made of, what is kept of it for good, the services around the warehouse,
and what users are shown and allowed.

All paths are relative to `src/`.  Section 1 is the system, 2 the modules and their
correspondence with the code, 3 the runs, 4 bounds and fairness, 5 the abstract
specifications, 6 the proofs, 7 disagreements met, 8 what is left out, 9 what comes next.

## 1. The system

BormoStats collects a seller's data from Wildberries, Ozon and Yandex Market, keeps it in
ClickHouse, builds marts from it, serves an API and a web interface, and changes prices,
bids, stocks and answers to reviews on the marketplaces. Celery workers do everything that is
not a request: beat queues a task at its interval, Redis is the broker and holds the locks and
the query cache, ClickHouse holds everything else. Nothing has a transaction: an insert into
one table is all that is atomic.

Facts that every part has to live with:

- **Delivery is at least once.** `task_acks_late` and `task_reject_on_worker_lost`
  (`workers/app/celery_app.py:69-72`): a task whose worker dies is delivered again; a task
  that finds its lock taken returns `skipped` and is acknowledged.
- **A lock is a Redis key with a TTL.** It ends with its holder or with its TTL; some tasks
  renew it from a thread (`auto_renew`), some do not; some look at it again before a write
  (`ensure_held`), some do not.
- **Tables are append-only or replacing.** The row with the greatest version column wins, and
  the version columns have whole seconds. A deletion is a mutation that is applied later.
- **Rows are read, changed and written whole.** Two requests that overlap undo each other.
- **Marketplaces answer late, or not at all.** A timeout does not say whether a change was
  made; an accepted price is shown later; a change of an order is shown late; a list changes
  while it is read page by page.

### Components

| Component | State | Operations | Interacts with | Correct when |
| --- | --- | --- | --- | --- |
| Marketplace action ledger (`workers/app/utils/marketplace_actions.py`) | rows of `sys_marketplace_actions` | `execute_action`: look up the key, write the marker, call, write the outcome | repricer, bidder, clients | no change is sent twice, no call is without a row, no outcome is on record that did not happen |
| Repricer (`workers/app/tasks/repricer.py`, `backend/app/services/repricer_service.py`, `pricing_service.py`) | rules, its lock | plan, wait for a snapshot, execute; create, change, delete, import rules | mart of prices, ledger | a price goes to what its rule asks for, in steps, within its bounds, and rests there; a rule is what users asked for |
| Bidder (`workers/app/tasks/bidder.py`, `bidder_service.py`) | rules, its lock | plan, execute; create, change, delete rules | mart of campaigns, ledger | as the repricer, with bids |
| Redis locks and watermarks (`workers/app/utils/locking.py`, `watermarks.py`) | Redis keys; rows of `sys_watermarks` | acquire, renew, look again, release; read, write if greater | every task | one holder at a time; a watermark never goes back |
| Collection tasks (`workers/app/utils/collection.py`, `workers/app/tasks/*_collect.py`) | raw tables | incremental, backfill, by the day, report on request | marketplaces, watermarks, locks, history | nothing the watermark has passed is missing; final days are as the marketplace has them |
| Parsers and clients (`collectors/`) | none | read a list to its end; make rows of an answer | marketplaces, raw tables | a read that returns is whole; rows add up to the answer |
| HTTP client (`collectors/common/http_client.py`) | failure count, open-until | request, retry, open and close the circuit | collectors | attempts are bounded; an open circuit closes again |
| Transforms, marts, maintenance (`workers/app/tasks/transforms.py`, `marts.py`, `maintenance.py`) | staging tables and marts | rebuild the recent days, rebuild whole, prune | raw tables, query cache, archive | a rebuild loses no day; the pruner deletes no only copy |
| Query cache (`common/query_cache.py`, `backend/app/services/query_cache.py`) | generation and entries in Redis | get or compute, bump | marts, API | no entry of before a bump is served after it |
| CSV exports (`workers/app/tasks/exports.py`, `export_service.py`) | `sys_export_jobs`, files | create, run, download, prune | broker, events | every job ends; a done job has its whole file until it is pruned |
| Webhooks (`workers/app/tasks/webhooks.py`) | subscriptions, `webhook_logs` | emit, fan out, deliver, retry | every task with an event | each subscription gets an event or a final row says that it did not |
| Stock pushes (`integrations_service.py`, `collectors/marketplace_actions.py`) | none | one request to each marketplace, the event | 1C, MoySklad, marketplaces | what is said to be taken is |
| Reviews (`workers/app/tasks/reviews.py`, `common/review_store.py`) | reviews, replies, templates | synchronise, answer, answer automatically | marketplaces | a review is answered in the end, and more than once only for a cause |
| Change history (`workers/app/utils/history_store.py`, `history_archive.py`, `tasks/history.py`) | objects, changes, commits, references | record, snapshot of the catalogue, import, retire | collection, repricer | a reference has its commit and object; HEAD is where the commits end |
| Migrations (`warehouse/apply_migrations.py`) | lock table, journal | apply, resume, roll back | ClickHouse | each statement runs in order, by one runner |
| Sessions, users, organizations (`backend/app/core/auth.py` and services) | sessions, keys, memberships, cache | sign in, resolve, change, revoke | API | a revoked key or session stops within the TTL of the cache; a row of a user is what was asked |
| Economics and P&L (`common/article_economics.py`, `pnl_service.py`, `daily_pnl_service.py`, `pnl_tax.py`) | expenses, otherwise none | attribute, allocate, tax, add up | marts, raw tables | rows and pool add up to the total; days add up to the month |
| Insights (`workers/app/tasks/insights.py`, `insights_service.py`) | tasks | recommend, dismiss, resolve, open again | marts, events | a subject has one open task; what was dismissed is left alone |
| Catalogue and CRUD services; automation engine; AI and plugins; routers; frontend; browser extension; infrastructure | single rows, or none | single-statement reads and writes, display | – | section 8 |

What is hard about it: runs of one task that overlap because a lock ran out; a worker that
dies between an effect on a marketplace and the row that records it; values read from one
place (a mart, a snapshot, a watermark, a row of a user) and used after another has changed;
steps of which one fails; limits and roundings that meet at a boundary; and progress that
depends on a TTL or on the next beat. `PROJECT.json` lists these under `hazards`, each at its
line, with the properties that would show it.

## 2. Modules

Every module has its own prefix for variables and actions (`Fd` for feeds, `Ad` for reports on
request, ...), so that the MC modules can put several side by side.

| Module | Models | Proofs in |
| --- | --- | --- |
| `ActionContract` | what the ledger promises about a change: open, accepted or free | – |
| `ActionLedger` | runs of the repricer and bidder over the ledger: lock, rules, key, marker, call, outcome, budget, kill switch, crashes, failing inserts | `ActionLedgerProofs` |
| `PricePlan` | `desired_price`, `step_limited`, `_plan`, `wb_list_price` as operators, money in kopecks | `PricePlanProofs` |
| `PriceLoop` | one card under one live rule, run after run, with an ideal snapshot | `PricePlanProofs` |
| `PriceSnapshot` | the catalogue snapshot, the history HEAD, the mart and the repricer's wait for them, for one card | `BackendProofs` |
| `Rules` | rules of the repricer and the bidder under overlapping requests, deletions by mutation, runs that send them | `AccessProofs` |
| `Collector` | collecting one dataset: market, API, raw table, history, watermark, lock; incremental runs and backfills in three styles | `CollectorProofs` |
| `DailyTasks` | collectors of what is reported by the day and corrected for a while | `CollectingProofs` |
| `AdReports` | reports made on request: tokens, jobs, polling, late and lost answers, runs without a lock | `CollectingProofs` |
| `Feeds` | readers of lists page by page, by offset, cursor, token or date | `CollectingProofs` |
| `RawRows` | parsers, and which rows of an answer replace each other under the key of their table | `BackendProofs` |
| `Buyouts` | the EAEU buyouts of Ozon: windows, days, the month, the report | `BackendProofs` |
| `HttpClient` | retries, circuit breaker, half-open probe | `ServiceProofs` |
| `QueryCache` | generation, entries, readers, bumps, a Redis that does not answer | `ServiceProofs` |
| `ExportJob` | job rows, messages, `.part` files, renames, pruning, crashes | `ServiceProofs` |
| `Webhooks` | emission, fan-out, attempts, redelivery | `ServiceProofs` |
| `Rebuild` | deletion and insertion of a window in the staging tables and the marts | `ServiceProofs` |
| `RawArchive` | archive, import marker and pruner of one raw table | `WarehouseProofs` |
| `HistoryStore` | `record` with its four inserts, catalogue snapshots, retirement, reading at a moment | `WarehouseProofs` |
| `Migrations` | lock table, journal, statements, resumption, rollback, takeover | `WarehouseProofs` |
| `Reviews` | synchronisation, automatic and typed replies, the reply log | `ServiceProofs` |
| `Sessions` | browser sessions, principal caches, revocation | `AccessProofs` |
| `Users` | the row of a user, its key, memberships, requests made with the key | `AccessProofs` |
| `Money` | sums (also those of rows), rounding to the kopeck, `tax_amount`, `allocate` | `BackendProofs` |
| `Accruals` | the accumulator of the article report in each of the three branches of the service, its taxes and expenses | `BackendProofs` |
| `Pnl` | the month, the days, taxes, expenses, also of a period | `BackendProofs` |
| `StockPush` | one request of stocks to each marketplace | `BackendProofs` |
| `Insights` | the generator of tasks and the users who close them | `AccessProofs` |
| `MCActionLedger`, `MCPriceLoop`, `MCCollector` | values for TLC | – |
| `MCCollecting`, `MCWarehouse`, `MCServices`, `MCBackend` | several modules side by side in one run: a variable `part` says which one moves | – |

The parts of an MC suite share no variable: `Only(p)` leaves the state of the others at their
initial values, so that a suite explores the sum of their states and not the product. The
modules that do interact are one module (`ActionLedger` has the lock, the ledger and the runs;
`Collector` the lock, the watermark, the raw table and the history; `PriceSnapshot` the
snapshot, the mart and the repricer).

### How the state and the actions correspond to the code

**ActionLedger.** `ledger` is `sys_marketplace_actions`, reduced to run, key and status;
`calls` are the requests that reached a marketplace, with the answer (`accepted`, `rejected`,
`timeout`), which the program does not see in full; `lock` is the Redis key
`lock:repricer:all` or `lock:bidder:all`; `pc`, `todo`, `budget`, `enabled`, `key`, `status`
are a run's. `Acquire` and `Skip` are the two ways of entering `lock_scope`; `FetchRules`,
`PassOver`, `Plan` the loop over the rules (what is planned is any value, as the price is
`PricePlan`'s subject); `Duplicate` is the early return of `_already_recorded`; `Decide` the
choice between simulated, blocked, unsupported and a live call; `MarkPending`, `Send`,
`Record` the three steps of a live call, each with its own failure (`StoreFails`) and with a
crash between any two. `NextDay` is the UTC date in the key, `SetMode` the rule API.

**PricePlan, PriceLoop.** One operator per function; `None` is Python's. Rounding is that of
`round()`, half to even, and quotients are cut to the kopeck where the code has floats.
`Evaluate` is a run that plans a change and makes it, including the list price WB is given and
what it comes to; `recorded` is the day's ledger by key.

**PriceSnapshot.** A price is a level, one level being one step. Time is the number of pending
and applied rows, which is all the repricer compares a snapshot's time with. `ReadCatalogue`,
`Commit`, `LogSnapshot`, `SnapshotFails` are `_commit_catalogue` with `record` and
`log_task_run`; `BuildMart` is `mrt_price_current.sql`; `Mark`, `Accepted`, `Rejected`,
`Record`, `Crash` the repricer. `perils` says, for a whole behaviour, which of three things may
happen: a snapshot overlaps a change, cannot read the prices, or the marketplace shows a price
late or never.

**Rules.** A thread is a request: it reads rows, changes fields, inserts whole rows. `rlDoomed`
are rows a mutation will delete. `rlWant` is what each request asked for as if it were alone and
`rlCause` why the table may differ from it; both are kept for checking only. A run of the task
reads the active rules and sends the value of each.

**Collector.** `changed` and `shown` are the marketplace and its API; `raw` is what `FINAL`
shows of the raw table; `archive` the versions committed by `archive_rows`; `marks` the rows of
`sys_watermarks` with the second of `updated_at`, of which only those of the newest second
matter. A run is `Read`, `Fetch`, `Insert`, `Archive`, `Compare`, `Save`, `Finish`, with
`EnsureHeld` and `LockLost` where the code calls `ensure_held`; `Fail` is an exception (the lock
is released), `Crash` the death of the worker (it is not), `LeaseLapses` the loss of the key
under a living run. `style` is whose code it is: `wb` (`collect_incremental`,
`collect_backfill`), `ozon` (`_collect_postings`), `ym` (`_collect`, `_orders`).

**DailyTasks.** Figures of a day are a version, corrected for `WtCorrected` days. `WtMarked`
are sources that start from their watermark, `WtFixed` those that start from today. A source may
stand still for any number of days. A backfill starts as many days before today as the operator
says (`WtBackfills`); that of a source in `WtMarkedBy` (Ozon's finance) writes the watermark as a
regular run does. `wtPassed` has the days that a run which writes the mark without starting from it
has left out and no run has read since; it is kept for checking.

**AdReports.** `adRun` holds what a client holds (token, tries, its view of the job) and what
became of its job at the marketplace. Time within a run passes in ticks of about a minute:
`AdLifetime` is the life of a token, `AdSkew` the minute by which the client renews it early
(`_TOKEN_EXPIRY_SKEW_SECONDS`), `AdLatency` how long a request may be under way. The client repeats
a request with the headers it began with, so a token may run out under one (`AdRunsOut`). `AdBegin` to `AdEnd` are the
steps of the three tasks; `AdLapse` is a lost lock.

**Feeds.** `fdReader` is one of thirteen readers of the clients. An item is its rank; a cursor
stands for the rank of the last item of a page, an offset for the number of items before it.
While a reader asks for page after page the list may grow and shrink, and the API may answer
an earlier page again, something that is not an object (`FdNoObject`), or an object without its list
(`FdNoList`); which of these ends which reader silently is in `FdPaged` and the others.

**RawRows.** One table per behaviour (19 of them). `rrSource` has the entries of the
marketplace, `rrKept` what `FINAL` shows of the table after the parser and the `ORDER BY` key. An
answer has its entries at positions, and a parser makes rows at positions (`RrEach` one of each entry
it reads, `RrSummed` one of each key, where the key first comes); of the rows of a key `RrInsert` keeps
the last.

**Buyouts, Accruals, Pnl.** `cbRaw` has the key of `raw_ozon_cis_buyouts`; `acRows`, `acPool`
and the other `ac` variables are the fields of `AccrualEconomics`, fed in the order of the
service (`acPhase`): the accruals, buyouts and bound ads of Ozon (`AddPosting`, `AddFee`,
`AddBuyout`, `Allocate`, `BindAd`, `AdsBound`), the realization report of WB (`AddWbRow`), the
days of WB without a report and all of Yandex Market (`AddStandardSale`), the difference to the
finance mart (`Reconcile`), the ads that are no accruals (`LinkAd`, `AdsLinked`), the taxes and
expenses that the rows take at last (`PutTogether`). `acSheet` has what was to be shared out and
what each row got: an engine without a row for what belongs to no article shows its expenses in no
row, which `TaxesAreShared` states. A day of an account in `Pnl` is one record of `PnFacts`, the
mart is rebuilt now and then, the month is read from it, the days are worked out anew; an account
without a finance day has no row in it (`PnMartRow`). The endpoints of expenses are run by a pool of
threads (`PnThreads`) without a lock: a change is `PnUpdate`, which reads the row, `PnWrite` and
`PnUnlink`, and those of several threads interleave. `pnMixed` has the expenses of which a move was
cut short, met another change or was deleted under; it is kept for checking. `Money` has
what both share.

**HttpClient, QueryCache, ExportJob, Webhooks.** Each action is a statement of the code up to
the next await, Redis call, rename or insert; messages of the broker are members of a set that
a dead worker leaves behind.

**Rebuild, RawArchive.** Days are numbers and a table is the set of days it has rows of; every
statement asks the server for today's date itself. `RawArchiveFails` is a task that ends between
the raw table and the archive, by an exception (which is acknowledged) or by the death of its worker;
nothing archives its row then but an import that is still to come, and `rawStray` remembers the rows
nobody archives, for checking.

**HistoryStore.** A commit id is a hash of entity, parent and object: here the sequence of the
documents from the first commit on, so that equal ids are equal histories. `HistRead`,
`HistPlan` and the four inserts are `record`; `HistCrash` may come before each of them.

**Migrations.** A statement takes the schema from one level to the next and does nothing where
the level is reached already. The lock is a table with an age; its `DROP` and the look at it
are two statements.

**Reviews, Sessions, Users, Insights, StockPush.** A request or run is a thread with a `pc`
and a copy of what it has read. Causes of what may go wrong (a lost answer, a death, an
overlap) are counted in variables that are kept for checking, and the properties say that
nothing else goes wrong. A request made with a key (`UsRequest`, `UsFind`, `UsRole`) is
`_authenticate_user_key`: it finds the row, refuses a key that is revoked or past its term with 401,
stores a better hash, and looks up the membership, without which it answers 403 (`UsPlaced`); its
`answer` is the role, `"refused"` or `"forbidden"`. What a change of a user asked for is `usWord`; two
changes that overlap end `usCalm`, and a change under a request makes it no longer `clean`.
`SpOutcomes` is what a call of a push may come to; an item that an accepted answer of Ozon does not
speak of counts as set (`spMissed`).

## 3. Runs

| Run | Question | Result |
| --- | --- | --- |
| `ledger_serial` | Three deliveries over two days whose lock does not run out; crashes at every step, failing inserts. Is a change sent twice? Is an outcome on record that did not happen? Does the ledger keep `ActionContract`? | no, no, yes |
| `ledger_overlap` | Two runs of two rules, budget one, that may overlap. Is a call without its marker, does a run exceed its budget? | no, no |
| `ledger_overlap_repeats` | Is a change still sent once when a run outlasts its 900 s? | **no** (finding) |
| `price_rests` | Every mode and marketplace, with and without bounds, cost, measured discount: does a change go past the desired price, outside the bounds or further than a step? Does the card come to rest at the price its rule asks for? | no, yes |
| `price_capped_stuck` | Also from more than one step above the rule's maximum? | **no** (finding) |
| `collect_serial` | Two worker slots whose lock holds, two objects: is anything the watermark has passed missing from the raw table or shown old there, does a watermark go back (`CollectedSound`, `MarksForward`)? Is a read that returns whole (`FeedsSound`)? Are figures of reports on request those of a finished report, never older than what is stored (`AdReportsSound`)? Do rows add up to the answer (`RowsSound`)? | no, no, yes, yes, yes |
| `collect_settles` | Does what a marketplace has come to be stored once faults are over, also when locks are lost: versions, items that stay listed, figures of days that are still read? | yes |
| `collect_backfill_skips` | Does `NothingSkipped` hold for the Ozon postings, whose backfill writes the watermark? | **no** (finding) |
| `services_live` | Exports, webhooks, cache, client, rebuilds, replies, migrations and runs of the repricer, each with crashes and redeliveries: is a done job whole and final (`ExportsSound`, `ExportsSettle`), is a delivery dropped, sent under another id or attempted without bound (`HooksSound`, `HookSettles`), is a hit stale (`NoStaleHit`), does the circuit count what it should (`ClientSound`), does a rebuild lose a day and do recent days come back (`RebuildsKept`), is every wanted review answered (`ReviewsAnswered`), does what is begun come to an end (`ServicesSettle`)? | as they should |
| `warehouse_kept` | What is kept for good: the history under overlapping collections that lose their lock (`HistoryComplete`), under overlapping and dying calls of `record` (`HistorySound`, `HistoryFaithful`), the only copy of a raw row (`OnlyCopyKept`), the rules of users (`RulesSound`) and the tasks they are given (`InsightsSound`), the schema (`SchemaKept`) | kept |
| `backend_true` | What users act on: the snapshot behind a price (`AwaitsSnapshot`, `StepOnMarket`, `WaitsForResult`), sessions and users (`SessionsKept`, `UsersKept`), replies (`ReviewsSound`), final days (`DaysSound`), the article report, buyouts and pushes (`AnswersTrue`), the month (`PnlAddsUp`) | true |
| `buyouts_unreadable` | Can the article report read the buyouts the task stored? | **no** (finding) |

The runs that find a violation each show a disagreement between the code and what the
repository says of it; `PROJECT.json` quotes the lines under `findings`.

Every property of a passing run is one that a plausible slip in the code would break:
`PROJECT.json` names for each a changed definition (a lock without `NX`, a marker that is not
written, a watermark of after the fetch, `>` for `>=`, a statement moved before another) under
which TLC finds it violated. Each run is `tlc -config <name>.cfg <module>.tla`; the largest has
about 1.3 million distinct states, and none takes more than four minutes on two workers.

Some properties are a conjunction under one name, because they are about one component:
`FeedsSound`, `RowsSound`, `RulesSound`, `InsightsSound`, `PushesSound`, `ReportSound` and the
like each name their parts in the module.

## 4. Bounds and fairness

### Bounds, and why they are enough

- **Ledger.** Two or three runs: a repeated call needs two, and the third is the one that finds
  what two left behind. One rule and one value are enough for repetition (keys of different
  changes never meet); two rules for the budget. Two days: the key changes once. Failing inserts
  are left out of `ledger_overlap` because a failing terminal insert skips the accounting of the
  budget (section 7).
- **Prices.** `MCRules` and `MCCards` cross the modes, marketplaces, fallbacks, bounds, costs and
  kinds of discount; the starting prices lie far below, near and far above the desired ones. The
  numbers are chosen to hit the edges: a floor that is not a whole rouble, a break-even above and
  a maximum below a step. What does not depend on the numbers is proved (section 6).
- **Snapshot.** Three levels and three rows: a change with its pending and applied rows and a
  third pending one. Two worlds, one calm, one with every peril.
- **Collection.** Two seconds, one or two objects, one fault: a run that reads, another that
  writes in the same second, a change between the two and one after them. `Lookback` of one
  second stands for the two days of `_order_stats` of Yandex Market (`ym_collect.py:374`); `_orders`
  (line 294) starts on the day of its watermark and has no such overlap: for it the run stands with
  `Lookback` and `Delay` of zero for `ym`, with which it passes too (section 7). Two objects in `collect_serial`, because the
  watermark of Wildberries is that of the last row and an object may be left behind by another.
  In `collect_settles` the lock may be lost (`LeaseMayLapse = TRUE`) and one second is enough: what
  has to settle is one change. The 48 hours of a first sync are longer than the model's time.
- **Feeds.** Five items in pages of two, so that a read has a first, a middle and a last page,
  two changes of the list and one nonsense answer or repeated page.
- **Reports on request.** Two runs, so that one can take the job and overwrite the figures of the
  other; a token that lives two ticks, so that it may run out between any two requests, and requests of
  two ticks, longer than the skew of one, so that it may run out under one.
- **Rows.** Two entries of an answer can share a key in every way, of two documents, items, warehouses
  and days (`RrMost`); one later event asks again. More of each is left to the theorem.
- **History.** Two keys, of which two cards can be one document in two orders; two calls of
  `record`, one crash. Three days and versions of the raw archive: older than, at and after the
  limit of the pruner.
- **Migrations.** Two versions of two statements, two runners, one edit of a file, one fault.
- **Services.** One export and two workers, one webhook and two workers, two attempts for six
  (the last one and one before it), a circuit of two failures and three attempts, so that each
  bound is reached before and after the other.
- **Reviews.** Two reviews, two runs and an answer typed by hand, one refusal and one fault (a worker
  that dies, an answer that is lost or a lock that lapses), each of which alone repeats a reply; any
  number of them is the theorem's (`RepliesHaveCauses`).
- **Users and sessions.** Two requests, two organizations and two keys, of which one may have a term
  that ends within the model's time; what takes three overlapping requests is the same as two after
  each other, as each writes the whole row. There is one session, so that the other sessions a change
  of the password ends are left to the theorem (`SessionsEnd`, any number of them).
- **Days.** Four days, a lookback of two, figures corrected for one: a source may stand still for
  longer than it looks back. A backfill of one day writes the mark over a gap, one of four closes it.
- **Month.** One expense, two threads, three changes: a move may meet an edit, another move or the
  deletion at each of its two statements.
- **Buyouts.** One posting with its day and one without, windows of two days in four.
- **Raw archive.** Two switches of `HISTORY_ENABLED` and one task or import that ends too early.
- **Money.** One or two prices and fees of small different numbers: the sums that matter are
  linear in each. One article beside the row of what belongs to none, two rows of a feed and
  one of the buyout report, two sales and one ad: a posting may be in both feeds, sold and returned.
  In `Pnl` a rate of 8 % of sums below one rouble has every rounding. Taxes that are shared by
  several articles, and every other number, are left to the theorems (section 6).

`CHECK_DEADLOCK FALSE` is in every configuration because the bounded system does stop:
deliveries, days and seconds run out.

**Symmetry.** Runs, objects, threads and workers are told apart by nothing but what they hold,
so their permutations are used where no liveness property is checked (`ledger_*`,
`collect_serial`, `warehouse_kept`, `backend_true`). The modules of a suite are given the same
names for such sets, so that one group of permutations serves them all: while one part moves the
others are in their initial states, which the permutations leave alone.

### Fairness, and why the code justifies it

- `WF` of the steps of a worker, request or run: what lives goes on; a blocking call ends by its
  timeout. A crash needs no fairness and is always possible up to its bound.
- `WF` of the expiry of a lock (`LockExpires`, `RbLockExpires`, `RvLockExpires`, `MgLockAges`):
  Redis drops a key whose TTL is over. In `Collector` only the key of a dead run expires, as the
  renewing thread keeps that of a living one.
- `SF` of starting an incremental run, a regular rebuild or a report: beat queues the task again
  and again, and a delivery that finds the lock taken is lost, so only infinitely many free
  moments help. `WF` where the task holds no lock or tries again by itself.
- `WF` of `Evaluate` and `NextDay` in `PriceLoop`: the repricer runs each ten minutes, and days
  go by. `WF` of `ExportAges` and `PruneExport`: the daily task. `SF` of `HcTick`: time passes.
- `WF` of `AdMake`: the marketplace makes a report in the end, within a bounded time.

## 5. The abstract specification

`ActionContract` knows of a change only whether it is open (a request has been made and nobody
knows it failed) or accepted. It allows three steps: send a change that is neither, learn that
an open one was accepted, learn that it was not. `ActionLedger` maps its calls and rows onto it
(`OpenKeys`, `AcceptedKeys`), so that everything it does about markers, locks, crashes and
failing inserts must come down to those three steps. `ledger_serial` checks it,
`LedgerImplementsContract` proves it.

## 6. Proofs

| Theorem | For every value of the constants | Assumes |
| --- | --- | --- |
| `ActionLedgerProofs!TypeCorrect`, `AuditTrail`, `RecordsTruthful` | states are of their type; a call has its marker; an outcome on record is one that was answered | – |
| `ActionLedgerProofs!BudgetHolds` | no run makes more calls than its budget (`LedgerSound`) | `~StoreMayFail` |
| `ActionLedgerProofs!SingleSend`, `MutualExclusion`, `LedgerImplementsContract` | a change is sent once; one run is active; the ledger implements `ActionContract` | `~LeaseMayLapse` |
| `PricePlanProofs!PlannedPriceIsSound` | a planned price is within its bounds, one step away at most, between the current and the desired one | – |
| `PricePlanProofs!LoopTyped`, `LoopNeverOvershoots`, `LoopStaysInBounds` | the same of a card, run after run, with the price that WB makes of what it is sent | – |
| `BackendProofs!ChangeAwaitsSnapshot` | a change waits for a snapshot of after the last one | – |
| `BackendProofs!OneStepOnMarket`, `PlansFromResult` | in the calm world a change moves the price by one step, and is planned from what the last one set | – (the properties name the world) |
| `CollectorProofs!HistoryNeverPassed` | what the watermark has passed is in the history | `OnTime` |
| `CollectorProofs!RawNeverPassed`, `WatermarksAdvance` | what the watermark has passed is in the raw table; a watermark never goes back | `OnTime`, `~LeaseMayLapse` |
| `CollectingProofs!FinalDaysStay` | days that were final at the mark of a source are as the marketplace has them, but for those a start has left out | – (the property names what is left out) |
| `CollectingProofs!ReportsSound` | tokens, jobs and figures of reports on request | – |
| `CollectingProofs!FeedsAreWhole` | a read that returns has everything that was listed all the while | `FdCap * FdPage > FdLast` (the property names what each reader is silent on) |
| `ServiceProofs!CacheNeverStale` | no entry of before a bump is served after it | – |
| `ServiceProofs!ClientCounts` | attempts are bounded, the circuit counts failures in a row | – |
| `ServiceProofs!ExportsWhole`, `DoneStays` | a done job has its whole file until it is pruned, and stays done | – |
| `ServiceProofs!HooksDeliver` | a delivery that is owed is carried by something | – |
| `AccessProofs!UsersKeepTheirWord` | the row of a user is what was asked; a key is refused exactly when it is revoked, replaced or past its term; who passes has the role of the member, or 403 | – (the property names overlaps) |
| `AccessProofs!SessionsEnd` | who lost access is refused in time | – |
| `ServiceProofs!RepliesHaveCauses` | a review is answered twice only after a crash, a lost answer or a lost lock | – |
| `ServiceProofs!WindowsAreRestored` | a rebuild that is not cut short has restored the days it deleted (the safety half of `RebuildsKept`) | – |
| `AccessProofs!TasksAreHeeded` | a subject has one open task, what was dismissed is left alone, a task is announced | – (the property names the causes) |
| `AccessProofs!RulesAreKept` | rules, and what is sent by them, are what was asked for; a card has one rule; prices no longer kept are not live | – (the property names the causes) |
| `WarehouseProofs!HistoryStays`, `HistoryIsFaithful` | references, commits, objects and changes fit together; HEAD says what was observed last | – (the properties name overlaps and crashes) |
| `WarehouseProofs!OnlyCopyStays` | the pruner deletes no only copy but of rows their task left unarchived | – (the property names them) |
| `BackendProofs!ReportIsSound` | the rows of the article report add up to what was accrued in every branch; a posting of both feeds is counted once; taxes and expenses are shared out to the kopeck (`ReportSound`) | `WbPaysAtMost` |
| `BackendProofs!MonthAddsUp` | result, tax and expenses of the days add up to those of the month, and of a period; an expense has one row but for moves that broke off or met (`PnlAddsUp`) | – |
| `BackendProofs!BuyoutsAreSound` | a buyout abroad is never counted beside its accrual, once with its day, and at most as often as a window has days without | – |
| `BackendProofs!PushesAreSound` | a marketplace said to have taken the stocks has them, but for items Ozon did not speak of; the event tells the answer | – |
| `BackendProofs!AllAnswersTrue` | the last four but the month, side by side as `MCBackend` runs them (`AnswersTrue`) | `WbPaysAtMost` |
| `BackendProofs!RowsAreSound` | the rows kept of each raw table add up to what the marketplace has; unknown fees are left out, never taken twice (`RowsSound`) | – (the property names what each table does not survive) |
| `WarehouseProofs!SchemaStays` | one runner, a journal without gaps that is true of the schema, edited files stop a run | – (the property names the takeover) |

### Along which argument

**Ledger.** `AuditInv` strengthens the types with what a run's place says of its rows (a run
that is past `MarkPending` has written its marker; one that is past `Send` has a call). The
truth of the outcomes follows what a run is about to record (`RecordsTruthful`), the budget what
it has spent and not yet accounted for (`BudgetHolds`). `SerialInv` adds that the lock is held by
the one run that is active, that a run between the look-up and the marker still finds no row of
its key, and that each key has as many pending rows that are not followed by a failed one as open
calls: with it, `_already_recorded`'s count of pending against failed rows means what it is
meant to.

**Prices.** `PlannedPriceIsSound` is about one plan. For the loop (`LoopTyped`,
`LoopNeverOvershoots`, `LoopStaysInBounds`) the list price WB is given is added: its quotient is
cut to the kopeck, so that what buyers then see may be off by fifty-one kopecks and not by fifty,
which is where the slacks of the properties come from.

**Snapshot.** The order `mart.seen <= seen <= rows` always holds and gives the wait. In the calm
world the prices follow it: when the time of the snapshot is not before the last row, HEAD is the
price on the market, and when that of the mart is not, so is the mart's price. A run that is going
has a row that is newer than either, which is why a crash in the middle does no harm.

**Collection.** `NothingSkipped` needs the lock; `HistoryComplete` turns out not to. Call the
rows safe below `t` when everything the API shows from before `t` is among them. A bound at least
a lookback in the past stays safe, because a change that appears late is not that late
(`SafeKept`, from `Pending`). Every watermark less the lookback is such a bound (`MarksSafe`), and
a run hands its own on from reading the watermark to writing the next (`RunSafe`): below its start
the archive is safe, from its start on it fetches, it archives what it fetched before it asks for
the new watermark, and the candidate is not later than what it fetched up to. Hence also an
overlapped run writes only a watermark that is safe. With the lock held the same bounds are kept
by the raw table, where a row that is written must not be older than the one it replaces
(`RawNeverPassed`), and what a run asks for is not behind a mark it has read and nobody has moved
(`WatermarksAdvance`). The Ozon postings are excluded because their backfill breaks the first
link, as `collect_backfill_skips` shows.

**Days.** `FinalDaysStay`: the days up to `mark - corrected` are final and, but for those left out, in
the table. A run that starts from its watermark begins no later than the first day that is not, however
long the source stood still, because the lookback covers the days still corrected; one that starts
elsewhere and writes the mark may begin later, and what lies between is then left out (`WtLeftOut`)
until a run reads it.

**Reports on request.** `ReportsSound` follows each run by itself. A token that the client holds to
be good has at least `AdSkew` ticks left when a request is sent, and is taken as long as the request is
not older than that; one that is repeated for longer may lose its token on the way, which counts as a
loss like a revoked one (`AdTokenHolds`): a run is refused only after as many losses. What a run knows
of its job is what became of it (`AdRunTrue`), and figures it has read, or is to read from a job that is
being made, are not older than those stored as long as nobody runs beside it (`AdFiguresFresh`,
`AdAlone`).

**Feeds.** What a reader by cursor, token or date has at a place it has been at is everything before
it that was listed all the while (`FdBehind`); an earlier page again adds to that and takes nothing
away. A reader by offset has what has fewer items before it than the offset (`FdPassed`): an item that
is added only pushes others back, one that is removed is what these readers are silent on. Three
readers need more: the one that goes by the total counts each item once (`FdTotalled`), and the two that
stop silently at a number of pages (`FdPagesFull`, and the offset itself) have by then had more full
pages than a list of `FdLast` items has. A longer list than `FdCap` pages ends those two early; the
others raise, or the end is on record as `"cap"`. `FdTells` says of an answer what it does for its
reader, `FdTakes` that this keeps the invariant, so the thirteen are told apart in one lemma only
(`FdVerdictSays`).

**Cache.** No entry and no query under way is of a later generation than the current one, and a
query of the current one has looked at the marts of the last bump or later ones (`CacheNeverStale`):
the generation is read before the marts, and bumped after them.

**HTTP client.** The circuit is open exactly while the failures in a row have reached the threshold
(`ClientCounts`); a call that is let through while it is closed can only bring them up to it.

**Exports and webhooks.** One worker at most is between `running` and the end of a job because only
a queued job is started and the row is saved before anything is written (`ExportsWhole`), and no
step leads out of `done` or `failed` (`DoneStays`). A delivery that is owed is carried by a message,
by a worker that has not acknowledged one, or by a row that is final (`HooksDeliver`).

**Users and sessions.** `UsersKeepTheirWord` follows the requests statement by statement: as long as
no two changes have overlapped, what the last one wrote is what was asked for (`UsRowIsWord`, the term
of the key included), a key works exactly when it says so, and a request under which nothing has
changed looks up the membership of the organization the user is in (`UsCleanFound`). A better
hash is written only over a key that stands (`UsOneAtATime`). `SessionsEnd` carries an age for every request and every entry of the
cache: what it rests on has ended at most that long ago, and an entry lives for the TTL from when it
was put, by a request that is at most `SsMaxResolve` old.

**Replies.** The invariant counts, beside the replies a review has, each run that may still send one
(`RvCounted`), and for a review whose reply is not on record each run that has it on its list and the
one that may yet put it there, when nobody who holds the lock does (`RvReserved`): all of them stay
within one, those a person typed and the faults so far. A fault raises the bound before it leaves a
reply unrecorded or lets a second run in.

**Rebuilds.** Who rebuilds holds the lock, so one does at a time (`RbAlone`); from its INSERT on the
days it deleted are there again, unless the day has ended since it began (`RbRestored`).

**Tasks.** A subject that a run does not know of while it inserts has no open task (`InOnce`), unless
another run was at it too or a user opened a task again; what was dismissed and is to be left alone is
known to the run, unless it had been resolved before (`InDismissals`); and a task that was made is one
run's (`InMakers`).

**Rules.** What a request has seen, and nobody has changed since, is still what the table has
(`RlSeen`), so that what it inserts is what was asked for (`RlAsAsked`); a request that is going to
make a rule has found none for the card, and unless another came between there is still none
(`RlFoundNone`); one that switches the prices off has seen a rule of every card that has one
(`RlSeesAll`). Deletions need a clause of their own: a row that a mutation is about to delete is in
the table, and nothing is asked for of it.

**History.** `HiInv` says of each run what it hangs together with (a commit it plans has its
parent among what is stored or planned) and what it has inserted so far, so that each of the four
inserts finds what its rows refer to. As long as no two calls have overlapped, one run is at work and
the heads it carries go on from the references; without a crash as well, every commit leads to HEAD, or
belongs to the run that is about to move it, which is how the commits of an entity come to be one line.
What a head says is what the observations up to the one in hand have said (`HiSaid`), hence
`HistoryIsFaithful`.

**Raw archive.** A row that neither is archived, nor about to be by the task that inserted it, nor was
left by its task, lies ahead of the import of a history that is on (`RawCovered`), and a pruner was
cleared by an import that had ended (`RawTasks`). A row a task leaves before the import is not lost: the
import takes its bounds when it starts, and reaches it.

**Migrations.** While no stale lock was taken over, who works made the lock (`MgHolds`), so nothing
moves under its plan (`MgPlans`): what it has still to apply follows what is applied without a gap, what
it has still to roll back is all that is applied from some version on, and the statement in hand is of
the first, or last, of these. A statement comes after the look at the files, which are not edited under
a run (`MgFilesChecked`).

**Sums.** The sum over a set is a fold of the community modules, which takes its elements one by one.
That it may take any of them first (`SumRemove`), hence that it grows by what an element grows by, is
linear, and may be taken by rows or by columns, is proved without induction over the set: among the
subsets of a finite set for which it were false one would have least elements (`SmallestOf`, from the
order of the numbers), and it would not be the empty set. `MnAllocate` then adds up by construction of
its last part, whatever the weights, which is where the kopecks of the rounding go.

**Article report.** The reconciliation is an equation between the rows, the pool and `raw_total`; each
feed changes both sides alike (`AcElsewhere`). It needs three more facts, which make up `AcInv`: what the
engine keeps of a posting (`acDomestic`) is finite and is what the rows hold of it, a row already seen is
skipped and not counted, and the pool is empty from `allocate` on. `WbPaysAtMost` is needed because the
engine takes `max(0, price - pay)` for the commission and `pay` for what is accrued.

**Month.** The days and the month are sums of the same figures in two orders (`SumExchange`). The
expenses need the rows to be finite and an expense that is alive to have a row, also while it moves
(`PnKept`), and two rows only under the two months of a move (`PnTwins`), which no other thread changes
unless the two have met (`pnMixed`); the count of rows is then that of the expenses by a bijection. An expense made with the id of one that is
being changed would break it; ids are uuids, which is a guard of `PnCreate`.

**Buyouts and pushes.** A buyout is filed under the day it was bought out, whichever window brought it,
and one without its day under the end of a window that has that day, of which there are as many as a
window has days (`CbFiledOnce`, `CbInWindow`). Of a push, until an error each item is set, passed over
by an answer, or in a call to come (`SpComing`), what has
been said of a marketplace stays true (`SpHeld`), and marketplaces answer in their turn (`SpInTurn`).

**Rows.** Each row that is kept is the sum of the entries of its key (`RrOf`), and the sum of the sums by
key is that of the entries (`SumFibres`, from `SumExchange`). For a table with a row for each entry it
takes two facts: no two entries have a key (`RrKeysApart`), which is what the omissions of `RowsAddUp` are
for, and no row is of an entry that is gone (`RrStored`), which is why a table whose key has the day does
not survive a move. `RrTold` reads off the entries what has not happened to them. Tables that add up need
neither, but an answer without a repeated page (`wb_stocks`), and for the FBO stock of Ozon that the
analytics have all of it or nothing (`RrStocksAddUp`); the balance of a day has the accrued total whatever
its services come to (`RrBalanceRows`).

### Assumptions on the constants

They are named in the modules and TLC evaluates them in the runs. Those that restrict the system:
`LeaseMayLapse = FALSE` (no run outlasts its lock) for the theorems that say so; `OnTime` (the API is
not later than the lookback, and no backfill moves the watermark) for the collector; `WtCorrected <=
WtLookback` (a run reads all days again that are still corrected) for the days; `AdLifetime > AdSkew`
(a new token is used at all) for the tokens; `~StoreMayFail` (every row is stored) for the budget;
`WbPaysAtMost` (no row of the realization report pays more than its price) for the article report: a row
that pays more is counted with a commission of zero (`common/article_economics.py:379`, `:389`), so that
its payment and its parts differ, which the model leaves out. The first is false of the
repricer when a run takes more than 900 seconds, the second of the Ozon postings: both are findings. `FdCap * FdPage > FdLast` (a list is not longer
than the pages a reader asks for at most) matters to the readers `attributes` and `feedbacks` alone,
which stop at their limit without a word.

### Only model-checked

- Liveness: everything that rests on fairness or `ENABLED` (`Arrives`, `CollectingSettles`,
  `ExportsSettle` but for its final states, `HookSettles`, `RebuildsKept` in part, `ReviewsAnswered`,
  `ServicesSettle`).
- `SessionsEnd` and the others of `backend_true` are proved of their modules; of the modules side by
  side only `AnswersTrue` is, as each of its parts speaks of another one.

## 7. Disagreements met that no run carries

*Prices and bids*

- A timeout is recorded as `failed` and sent again the next run
  (`workers/app/utils/marketplace_actions.py:180`), against the docstring of
  `_already_recorded` (line 103).
- When the terminal insert fails, the call is not taken off the budget
  (`workers/app/tasks/repricer.py:593`), against `docs/marketplace_actions.md:13`.
- An `unsupported` change is recorded again by each run of the day (line 114), against
  `docs/marketplace_actions.md:11`.
- A price below its floor is raised to it in one change (`repricer.py:433`), against
  `docs/marketplace_actions.md:51`. `StepKept` states the step for the others.
- The check for an unknown cost precedes the clamp to the maximum (`repricer.py:370`), so that the
  price of a card of unknown cost is lowered to `max_price`.
- With a target GREEN a step may pass over YELLOW into RED, from where the next goes back
  (`repricer.py:392`).
- A write is confirmed by a snapshot that does not show it when the raise lies between half a
  percent of the old and of the new price (`repricer.py:291`).
- `price_seen_at` is when the catalogue task finished (`mrt_price_current.sql:51`), a snapshot that
  carries prices over counts (`workers/app/tasks/history.py:132`), and a marketplace may show a price
  later: in the perilous world `StepOnMarket` and `WaitsForResult` fail, which is why they speak of
  the calm one.
- `keep_prices` (`pricing_service.py:303`) switches only the newest rule of each card; an older live
  rule goes on sending. Updates write whole rows and may bring a deleted rule back. `set_target`
  (`pricing_service.py:190-206`) makes a new rule when the one it found is deleted before it is read,
  although the card may have an older one: `OneRulePerCard` names this cause. `current_cpm` is
  refreshed only by the campaign sync, so that an applied bid is sent again each day.

*Collection and the warehouse*

- `collect_incremental` does not call `ensure_held` (`workers/app/utils/collection.py:53`): with the lock
  lost, `NothingSkipped` fails for the raw table of Wildberries, and only the history is complete.
- Readers by offset pass over an item when one before it goes away while they read; some readers end
  silently on a repeated page or at a number of pages. An answer that is not an object ends ten
  readers without an error (`campaigns`, `collectors/ym/client.py:89-94`, and all of Ozon among them), an
  object without its list also the other three: `_paged`, `orders` (lines 236-263) and the cards of
  Wildberries (`collectors/wb/client.py:215-226`). `FdSilentOn` says which reader is silent on what, and
  `FeedComplete` excepts exactly that.
- Orders of Yandex Market are asked for from the day of the watermark on (`ym_collect.py:294`), without
  the two days of overlap of `_order_stats` (line 374): an order that is shown late past midnight is not
  asked for again. With a `Delay` of one and a `Lookback` of zero `CollectedSound` fails.
- `ozon_finance_backfill_days` writes the watermark as today whatever day it starts from
  (`ozon_collect.py:339-340`, `:486-496`): one that starts after the mark passes over the days between
  for good. The backfills of Yandex Market do not write it (`ym_collect.py:314`). The sources that start
  from today (`wb_collect.py:381`) leave the same hole after a stall longer than their window.
  `FinalDaysKept` says of both which days are left out (`wtPassed`), and demands all others.
- "so pruning can never delete the only copy of a row" (`docs/history.md:59-60`), and "the retry is safe"
  (`workers/app/utils/collection.py:26-28`): an exception of `archive_rows` is acknowledged, as only a lost
  worker brings a task back (`celery_app.py:71-72`), and a task that comes back finds its old lock and is
  skipped. An incremental collection reads the rows again; `collect_snapshot` (lines 157-203) does not:
  its rows stay in the raw table alone, and are pruned. `OnlyCopyKept` tells these rows apart
  (`rawStray`).
- Raw tables are partitioned by the month of insertion, so that a key replaces another only under
  `FINAL`; Ozon posting lines of one SKU, Yandex order lines of one offer and Wildberries orders without
  `srid` share a key. `RowsAddUp` names these tables.
- A buyout that carries no day is filed under the last day asked for (`ozon_collect.py:811-812`), so
  that overlapping windows keep it several times, and the month counts it once for each end of a window,
  fifteen times at most. `CisCountedOnce` demands once of a posting with its day, and that bound of one
  without.
- A takeover of a stale migration lock looks at its age and drops it in two statements: two runners may
  then both go on (`OneRunner` fails; `OneRunnerAlone` is what holds). `docs` and the module's comment
  (`apply_migrations.py:14-15`) speak of one.
- `SnapshotIsState` (`docs/history.md`): the two endpoints that check out a moment may differ when two
  commits have one second. `ClassHistoryKept`: a rebuild that dies between its two statements at the end
  of a day loses that day's classes for good. Both statements stand in the modules and hold in no run.

*Services and reports*

- `OneReplyPerReview` (`CHANGELOG.md:203-204`) fails after a crash between sending and recording, a lost
  answer or a lock that ran out; `DuplicatesHaveCauses` says that nothing else breaks it.
- An undecodable answer never opens the circuit, a 4xx counts as a failure.
- A login that verified the old password opens a session after the change.
- Two changes of a user that overlap write the whole row each has read (`user_service.py:134-236`): the
  later undoes the earlier, and a revoked key or an old role comes back. The model has these
  interleavings; `UsersKept` speaks of the states and requests before the first of them (`usCalm`), so it
  does not forbid them.
- A push of stocks leaves out Ozon items without a warehouse and is still a success, and so is one whose
  answer of 200 says nothing of an item, or has no list at all (`collectors/marketplace_actions.py:223-237`);
  `SuccessIsTrue` excepts both; Ozon stops at the
  first batch that fails after others were applied; pushes are not in `sys_marketplace_actions`.
- The monthly P&L deducts advertising and the daily one does not; for an estimated Ozon tax month with
  buyouts `get_pnl` raises; an expense move that is cut short leaves it in two months.
- Two requests that move one expense at the same time (`api/v1/pnl.py:75-88` is run by a pool of threads,
  `pnl_service.py:87-122` takes no lock) leave it with two rows or with none, with nothing cut short: each
  deletes the row of the month it has read. `ExpensesOnce` excepts expenses of which a move has met another
  change (`pnMixed`).
- `mrt_pnl_monthly` has rows for the accounts with a finance day only (line 114), so that costs or buyouts
  of a month without one are in no result; only the months from `from_month` (line 25) on
  are rebuilt.
- Dismissing a task that had been resolved suppresses it from the older day; overlapping runs of the
  generator make a task twice.

## 8. Not modelled

- Catalogue, costs and other CRUD services, routers, the frontend, the browser extension, dashboards and
  scripts: single-statement reads and writes, display, without a state or an order of their own.
- The automation engine and AI: reads metrics and notifies; calls to a language model.
- Inside what is modelled: bodies of requests, texts, logging and metrics; the measured discount of a
  card and the reconciliation of applied changes; competitor prices; the SQL of the marts beyond
  `mrt_price_current` and the P&L marts; the data quality queries; the editing of webhooks and reply
  templates; diffs and blame of the history; the baseline of a legacy database and `--unlock`; the rate
  limiter; the costs of articles and the ABC classes of the article report, the funnel, the price
  calculator.

## 9. What comes next

The funnel (`backend/app/api/v1/funnel.py`), the price calculator (`pricing_service.py`) and the data
quality queries are the largest parts of the code that no module has.
