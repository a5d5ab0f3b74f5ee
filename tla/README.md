# Formal models of the comp-bar backend

TLA+ modules of the server under `backend/src`: an API over MongoDB with which small
shops keep stock, sales, purchases and debts, online and offline, under paid
subscriptions. The modules describe what the services do, in which order and under which
conditions; TLC checks them on small instances, and TLAPS proves the main invariants and
two refinements for every value of the constants. Paths below are relative to
`backend/src`, those of `README.md` and `docs/` to the repository; the source lines of
every definition are in `PROJECT.json` under `map`.

## 1. The system

A primary process (`cluster.ts`) prepares the database and keeps API workers
running; several such clusters may serve one MongoDB replica set. Every business
(an *owner*) has its own documents.

| Component | State | Operations | What makes it correct |
|---|---|---|---|
| Owner transaction, idempotency (`lib/transaction.ts`, `modules/idempotency`) | `owner_write_versions.revision`, `idempotency_keys`; per request a session and queued notifications | `withIdempotency`, `withOwnerTransaction`, `afterCommit` | each keyed operation happens once, answers agree, nobody waits for ever, notifications leave once and afterwards |
| Stock ledger (`modules/products`, `inventory`, `procurements`, `snapshots`, `audit`) | products, daily entries, snapshots, procurements, audit log | create, update, restock, remove, open a day, count, sell (also late), purchase, rebuild | stock conserved and never negative, past sales never re-valued, both places of today's stock agree, snapshots derived |
| Range reports (`inventory.logic.ts`, `procurement.analytics.ts`) | none of their own | inventory report of a range, analytics, trends, monthly summary | the screens of one range never contradict each other |
| Offline sync (`modules/sync`, `lib/versioning.ts`) | `serverVersion` of every document, tombstones; on the device a copy, a checkpoint, a queue | push with base versions, paginated pull with cursor and checkpoint | a checkpoint misses nothing, deleted ids stay deleted, verdicts are final, the device converges |
| Payments and subscriptions (`modules/payments`, `subscriptions`, hourly jobs) | payments, grants, subscription, reminder marks | order, approve, reject, provider callbacks, settle, activate, deactivate, expire, remind | a payment buys its months once, decisions are final, jobs and repeats take nothing away |
| Sessions (`modules/auth`) | the account's session, activity, security version; login codes, reset links | login, code, request, refresh, logout, reset, administrator edit | a live session changes hands with a code only, nothing begun under an old password survives |
| Registration and account life cycle (`modules/auth`) | forms confirmed by the bot, accounts, fences of phones and Telegram users | open, start, confirm, register, createAdmin, change of a phone, link, deleteAdmin | one account for a confirmed phone, one for a Telegram user, no tenant half deleted |
| Business day (`utils/business-day.ts`, `modules/auth`) | hour in force, pending hour | date of an instant, change of the hour, promotion | the business date never runs backwards, no change is lost |
| Debtors (`modules/debtors`) | balance, history | create, adjust, remove | the balance is what the history adds up to |
| Work gate and report worker (`lib/work-gate.ts`, `lib/report-worker.ts`) | slots and queue, thread, timers | admit, wait, export, die, time out, close | no slot lost, every export ends, with its own report |
| Read caches (`lib/read-cache.ts`, `lib/cached-owner-read.ts`) | entries, fills under way | hit, join, fill, evict, expire, fail | no answer is older than its request |
| Rate limits (`lib/rate-limit-store.ts`) | windows in the primary, commands in the workers | count, answer, give up, sweep | limits hold, tables keep their sizes |
| Supervision and start (`cluster.ts`, `server.ts`, `modules/migrations`, `lib/database-readiness.ts`) | workers, remembered exits; indexes, phone digits | restart, stop, drain; migrate, verify, serve | no slot forgotten, stop exactly on repeated failures, nobody served before the indexes are there |
| Images, notifications' text, HTTP surface | | | not modelled, section 8 |

How they interact. All handlers that write business data go through
`withIdempotency` or `withOwnerTransaction`. The first operation of such a
transaction increments the owner's fence document, and MongoDB refuses that write
while another open transaction has made it; so the transactions of one owner,
whatever process they run in, are serial. That is what `OwnerTransaction` models
step by step and is proved to implement `SerializedOwner`, and it justifies that
in the ledger, the payments and the debts a whole handler, or one item of a batch,
is one action. Registration takes two fences, of a phone and of a Telegram user,
in one transaction, and has its own steps in `Registration`. `serverVersionPlugin`
stamps each written document with the transaction's revision; the sync pulls by
these stamps, and the read cache puts the revision into its keys. What runs
*outside* the fence is modelled with its own steps: the reads of a pull, the finding
half of the hourly jobs, the bot's reminder, the reads of a login, the touch of
a session, the promotion of a business hour, the parts of `deleteAdmin`.

What is hard: replies that get lost and operations sent again; processes that die
holding the fence; MongoDB calling a transaction callback again; sales made offline
and delivered days later; midnight during a request; four collections of a page read at
different moments; provider callbacks in any order and number; jobs that act on what
they read a while ago; logins and registrations that overlap; slots passed on while
waits expire; threads that hang, die or answer late; counters whose workers exit; a
crash between the drop of an index and its replacement. `PROJECT.json` lists them
under `hazards`, each at its line, with the properties that would catch it going wrong.

## 2. Modules

| Module | Models | Composition |
|---|---|---|
| `StockLedger` | the ledger's services for one owner | |
| `RangeReports` | reports as functions of the committed ledger | extends `StockLedger`; `MCStockLedger` |
| `SerializedOwner` | what a client may rely on: a sequence of operations, each once | abstract |
| `OwnerTransaction` | attempts, retries, crashes, the fence, receipts, notifications | instantiates `SerializedOwner` by a refinement mapping |
| `OfflineSync` | server versions, the pull, the queue of one device | `MCOfflineSync` |
| `Entitlement` | paid time as a promise | abstract |
| `SubscriptionPayments` | payments, subscription, jobs | instantiates `Entitlement`; `MCSubscriptionPayments` |
| `Sessions` | one account's session | checked directly |
| `Registration`, `BusinessDay`, `Debtors` | accounts and their phones; the business day; debts | together in `MCAccounts` |
| `ReportExport` | gate, thread and timers of the exports | |
| `ReadCache` | revision, entries and fills | |
| `ApiProcess` | one process: a request is an export or a cached read, none comes once it closes | extends both |
| `Supervision` | the primary and its slots | |
| `RateLimit` | windows, commands, exits with counts under way | extends `Supervision`: an exit is one action of both |
| `Startup` | what a primary does to the database before it serves | with `RateLimit` in `MCCluster` |
| `StockLedgerProofs`, `OwnerTransactionProofs`, `OfflineSyncProofs`, `SubscriptionPaymentsProofs`, `SessionsProofs`, `ServerProofs`, `ClusterProofs` | the proofs, section 4 | each extends what it is about |
| `Sums` | what the folds of the community modules compute, for the proofs | extended by `StockLedgerProofs` and `ServerProofs` |

Definitions that begin with the comment `Mutant:` are changed forms of the
definition below them, with which the corresponding property must fail
(`mutants` in `PROJECT.json`); nothing else uses them.

### StockLedger and RangeReports

`db` is the committed data, `work` the view of the open request's transaction (equal
to `db` when none is open), `batch` the open request, `rev` the fence
revision, `today` the business date. A day's entry has a derived span (`start` -
`current`, valued at the entry's prices) and locked figures, exactly as
`inventory.model.ts` has. `BeginBatch` is the moment a request has the fence and reads the date; `NextDay` may
come between that and the commit, so that whatever a request writes may be written to a
day that has closed meanwhile. A request of kind `product` ends with a create, an update
or a restock, which commits under the date the request has (`CommitProduct`).
`startDay`, `bulkUpdateCurrent`, `sales` and `submitBatch` have an action per item, which
changes `work`; `CommitBatch` stores the procurement and the snapshot and publishes.
`AbortBatch` (an item's error, a crash) drops everything. A product that a purchase
makes (`PurchaseNew`) goes through `productService.create`, which reads the date again:
its entry and snapshot are of the day it is by then, the procurement document is of the
day the request began. `RemoveProduct` needs no date. `RebuildSnapshot` takes any day up
to today, because its date is read before the fence is waited for. `trail` is what the audit log adds up to: each
operation adds the units, money and cost of the moment to it, independently of the
entry's arithmetic, which is what `LedgerMatchesTrail` compares. `received` is the
same for goods taken in.

A report reads one MongoDB snapshot, so `RangeReports` has no actions: its operators
translate `aggregateInventoryForRange`, the analytics with their trend keys and the
monthly summary, and `ReportsAgree` compares them in every state of the ledger. The
two sides come from different collections (entries, and the snapshots rebuilt from
them), which is what makes the comparison one of code paths. Left out are suppliers,
the value of the stock, quantities by unit and the tier that a long range needs.

Abstractions: quantities count half units and prices are per half unit, so
products are exact and the rounding of `utils/quantity.ts` to three decimals and of
money to two is left out, except the rounding to whole pieces that a "dona"
product gets. `stockEpoch` is kept, `serverVersion` belongs to `OfflineSync`. The
v2 guards on base version, expected price, unit and epoch only refuse requests,
and are therefore covered by requests that do not arrive.

### OwnerTransaction

An attempt walks through `received`, `waiting`, `locked`, `claimed`, `worked`,
`recorded`, `committed` to `answered` or `refused`, or dies (`gone`). `view[a]`
is the snapshot its transaction works on. `Lock` takes snapshot and fence
together because the increment is the transaction's first operation: a
transaction that loses the race conflicts and starts over, with no effect.
`Retry` is a transient error after which `withTransaction` calls the callback
again with a fresh scope. `Crash` may happen at any point; after a commit it
stands for the unknown outcome, which the client resolves with the same key. A
crashed holder keeps the fence until MongoDB aborts its transaction (`Expire`).

### OfflineSync

`docs` holds the `serverVersion` of every document (whoever has the version has the
content), tombstones included. The device has `replica`, `checkpoint` and `cursor`;
`pull` is the page the server is reading, one collection at a time, each at its own
moment. `ops` is the device's queue, `receipts` the committed receipts and `verdicts`
everything the device was told; deliveries repeat and come late because `Put`,
`Delete`, `Conflict` and `Replay` stay possible.

### SubscriptionPayments and Entitlement

One business, its payments, the latest subscription document, the grants that
make an activation idempotent, `lapsing` (found by the expiry job, not closed
yet) and `told` (announced by the bot, mark under way). Time is in whole months. A
business begins without a document, with a trial, or with what the receipt of a
provisioned payment of an earlier release gave it (`Provisional`).
`Entitlement` has a deadline and a tier; only a purchase, an operator's grant or
an operator's withdrawal moves them, and time lets them lapse. The refinement
mapping reads the deadline off the document as `computeTier` does. Deactivations
leave an audit record (`withdrawals`), which tells them from a lapse: the expiry
job must be invisible in the abstract specification.

### Sessions

A login is three steps (read the account, decide on a code, write conditionally),
a request two (admitted on what it read, touch). A correct code, a reset and an
administrator's edit run in owner transactions; a write by others in between
makes MongoDB restart them, so each is one action. `begun` in a token and
`granted` and `seenBy` are history that the properties need and no guard reads.

### Registration, BusinessDay, Debtors

`Registration` follows a form from its opening over the bot to the account. A
registration verifies its proof outside the transaction, opens it with a snapshot
(`seen`, `free`), takes the phone's fence and the Telegram user's, and writes. A
fence that another transaction changed since the snapshot, or holds, makes it
start over (`Take`), so what it read of the users is only worth something because of
the fences: the mutant `UntakenNow` drops the version and makes two accounts. `rows`
says of each collection of an account whether it holds what was there when the
deletion was asked for (`old`) or what was written since (`new`). `ChangePhone` is
`PUT /auth/me` and the administrator's edit, which write any phone without a proof, a
fence or a look at the other accounts; `moved` remembers, for the property only, that an
account's phone was changed. `RegisteredOnce` is what holds beside it: registrations
alone never give one phone to two accounts, and a Telegram user has one account whatever
happens to phones.

`BusinessDay` has time in hours; a request reads the account, is let in (and
promotes a change that is due, if what it read is still what is pending) and
works, or asks for another hour. `floor` is the latest date any request had worked
with when this one began.

`Debtors` counts half cents, so that both roundings have something to round:
`RoundMoney` is that of the process (a half goes up), `RoundEven` that of the
database (a half goes to the even cent).

### ReportExport, ReadCache, ApiProcess

JavaScript runs one callback at a time, so an action of `ReportExport` is one
callback with the promise reactions it causes: `Leave` hands the slots of all
requests that end in it to the longest waiting ones. `pool` holds the module's
variables (`queue`, `active`, `worker`, `idle`) and what they do not show: the timers
that are armed, although their handles may be lost, and the threads that run,
although nobody listens any more. `Drained` is `drain()` with the tasks at the head
of the queue whose data cannot be posted.

In `ReadCache` a request reads the revision, looks its key up, and gets its answer
from an entry, from a fill it joins or from one it starts; the load reads at its own,
later moment. A value is known by route and revision. `Room` is the loop that evicts
the least recently used entries.

`ApiProcess` lets three requests be either, and takes none after `Close`.

### Supervision, RateLimit, Startup

Of time it matters to `Supervision` only which exits of a slot are more than a minute
old; they grow old in their order (`GrowsOld`). `restarts` is what the primary
remembers, `exits` the history it is compared with. `RateLimit` adds the counting: a
request's `command` is sent, counted by the primary, replied to and done; a worker
that exits takes its requests with it, and the commands it sent may still be counted or
be lost. Windows are numbered by key, so that `LimitsHold` can say which window let a
request pass. `Startup` is `prepareDatabase`: the migration of the barcode index (read,
drop, create, each of which may fail or be the last before a crash), the phone digits,
the check, and the retry by the next start. Requests that share a barcode come from
instances that serve already.

## 3. Runs

| Run | Checks | Shows | Distinct states |
|---|---|---|---|
| `ledger_days` | `TypeOK`, `TodayPricesAgree`, `LedgerMatchesTrail`, `ReportsAgree`, `UnitsConserved`, `ClosedDaysOnlyGainSales` | units and money of one product over three days, also when midnight overtakes a request, and every report made of them | 359 k |
| `ledger_units` | `ProjectionsWithinRounding`, `SnapshotDerived` | whole and fractional stock of two products, snapshots rebuilt in parts | 903 k |
| `owner` | `AppliedOnce`, `AnswersAgree`, `NotifiedOnce`, `ImplementsSerialized`, `RequestsEnd` | three attempts under two keys, with crashes and a transient error | 382 k |
| `sync` | `NothingMissed`, `VerdictsTrue`, `NeverBack`, `Converges` | a device that pulls page by page and sends an edit while the owner writes | 843 k |
| `payments` | `CompletedIffGranted`, `RefundsAwaitReview`, `RemindedOfThisPeriod`, `DecidedOnce`, `RefundedNeverBuys`, `ImplementsEntitlement` | callbacks, approvals and jobs in any order and number | 607 k |
| `sessions` | `SessionsAreCurrent`, `CodesGrantOnce`, `ActivityIsOwn`, `TakeoverConfirmed` | logins, a request, reset links and edits that overlap | 1.8 M |
| `accounts` | `RegisteredOnce`, `DeletedLast`, `DebtIsHistory`, `DatesForward`, `ChangesKept` | registrations, changed phones and deletions, the changing hour, rounded debts | 585 k |
| `api_process` | `SlotsConserved`, `OwnReport`, `ReadsAreFresh`, `ExportsEnd` | exports and cached reads of one process, threads that hang and die | 432 k |
| `cluster` | `StopsOnRepeatedFailures`, `LimitsHold`, `ServesReady`, `NobodyForgotten` | the preparation of the database, then workers that count, exit and come back | 695 k |
| `ledger_countable`, `receipt_expiry`, `idle_teardown` | `DonaIsCountable`, `RejectedReceiptLosesTier`, `IdleTeardown` | a statement of a document or a comment that the code does not keep (section 7) | counterexample |

Bounds, and why they are enough:

* Ledger. Four committed transactions on two or three days: create, sell, change a
  price, sell late, and look. One product is enough for everything but the snapshots,
  because no other property relates two products; the snapshots have two products, two
  days and batches of two items. The stock of `ledger_days` opens and is
  restated at two pieces and moves by one, so that it sells out, is refilled and is
  restated either way; `ledger_units` states zero or one and a half, and moves by a
  half. Two prices, so that a change is possible; an amount that is no multiple of a
  price. A month has two days (`MonthDays`), so that three days cross the end of one.
  The bound on transactions stops the system, hence `CHECK_DEADLOCK FALSE`; the same
  is so wherever it is said.
* Owner. Three attempts under two keys: two that share a key and a third writer. One
  transient error, a crash of any subset.
* Sync. Pages of one document, so that each group of equally stamped documents crosses
  a page boundary; one product, two days, two revisions of two documents each, a tier
  that changes twice, one lost reply. `daily` is left out, it is written and read as
  `inventory` is. Two products and three revisions were checked once, beyond the time a
  run should take; what is beyond that is proved.
* Payments. One payment of each method, the manual one for Pro, which a Bor purchase may
  not overwrite; two events with a memory of one (100 in the code), so that an event
  repeats after it was forgotten; three months.
* Sessions. Two logins, one request under way, two reset links, one password change, a
  clock of three instants with a session that lives two of them.
* Accounts. Two of each kind of form, registration, phone and Telegram user: two that
  compete for a phone, two that compete for a Telegram user. Two collections, of which one
  may fail. Days of three hours up to the fifth (`DayHours`, `MaxTime`), which is enough for a change to come
  into force and be followed by another; two requests. Debts of up to 2.5 cents and
  four entries of history: the half cents fall on even and on odd cents. The three
  modules share no state, so `MCAccounts` follows one of them in a behaviour (`part`):
  their states add up instead of multiplying, and an interleaving of two of them has
  the projections of the behaviours that are explored. A behaviour of `Registration` has
  either deletions or changed phones in the run; the proofs have both. Symmetry is used here only; the
  run checks invariants and action properties, and neither distinguishes the values.
* API process. Three requests, one slot, a queue of one, one death of a thread; two routes,
  one commit by others, a cache with room for two values of which one may be too large:
  a request that waits, one that is refused, a fill that is joined, one that comes
  late, an eviction.
* Cluster. Two slots, of which one may stop while the other serves; an exit counts
  as repeated from the second on (`MaxExits`, five in the code), and three happen, so
  that one may be old; two requests for two keys with a limit, a table and a number of
  pending commands of one each, so that each is reached. What workers do with the limits
  does not depend on the database, so `MCCluster` explores it from one prepared database, the one with all its users migrated.
  One primary prepares the database, as `cluster.ts` 12 presumes (section 7).

Further bounds of `accounts`, each of them a guard or a set: no request spans the
start of an hour; one change of the hour is asked for at a time; deletions happen one at a
time and not inside the transaction of a registration; other writes of the owner
happen only while a deletion is under way; the bot's lookup of an account and its link to
a Telegram user are one step.

Fairness. Arrivals, errors, crashes, losses and the acts of users have none.
`RequestsEnd` assumes weak fairness of each attempt's own steps: a process that
lives goes on with its request, the driver tries again after a conflict, and MongoDB
aborts the transaction of a client that is gone. `Converges` assumes weak fairness
of the pull (the device asks, the server answers), and that writes, days, tiers and
losses come to rest, which their bounds make certain. `ExportsEnd` assumes that the
timers fire, of a waiting request and of the deadline of a task, and that the read of an
admitted request ends with data or with an error, for which the queries have time
limits (`WaitExpires`, `Deadline`, `Export` or `ReadFails`); a thread may hang or die.
`NobodyForgotten` assumes that the delayed restart happens and that a worker that is
told to drain exits or is killed (`cluster.ts` arms both timers). The other
properties need no fairness.

## 4. Proofs

All proofs are checked by TLAPS from the assumptions the modules name: bounds and
inputs are natural numbers, `None` (or `Absent`) is none of the values, the session ids do not run out
before the first, sets of products and of documents are finite. No bound is assumed to
be small.

* `StockLedgerProofs`. The invariant `IInv` says of both `db` and `work` that they have
  their types, that every entry has `current <= start` (`Ordered`), that no entry is
  dated later than the last writer could be (`UpTo`), and that today's entry is within
  half a unit of the product (`Near`); and that an open request has a date that is at most
  today, a request for one product has changed nothing before it commits, and a purchase
  has no entries after its date but of the products it made (`NewOnly`). `Ordered` alone is not inductive: a late sale lowers the figures of later days,
  and that they stay natural numbers follows from the check on those days; a sale of
  today relies on the product and the entry agreeing, and after midnight on there being
  no entry of the new day, which is what `UpTo` is for. Each operation on the data has a
  lemma (`EditedOK`, `ReceivedOK`, `CountedOK`, `SoldLineOK`, ...), each action a case.
  `MoneyInv` adds, for both views, that each entry reports what its audit line adds up to
  and that today's entry quotes the product's prices (`MoneyOK`), that only products there
  are or were have entries (`Owned`), and that an open request has kept what every
  day reported, its own excepted if it records sales, counts or an opening, and that a
  late one has only added to that (`Kept`, `Dated`). An edit, a restock or a purchase that midnight
  overtook writes an entry of a closed day; that the day's figures stay follows from their
  audit line, which no such operation changes. Its lemmas first say what each helper does to the three figures of an
  entry, at any price (`FreezeFigures`, `AfterSaleFigures`, `CountFigures`, ...), then
  that each operation writes its own day only (`OnlyDay`), or for a late sale changes
  the later days' opening stock and none of their figures. `SnapInv` says that every
  snapshot outside an open batch's day is derived (`DerivedDay`); on that day only the rows of
  products the batch has touched may be out of date (`ItemsFit`), and these are the ones
  the commit rebuilds, so that the incremental rebuild is a full one
  (`IncrementalIsFull`). `UnitsInv` is for `UnitsConserved`: the balance of a product (on
  hand, plus sold in all days, less taken in) stays as it is in every operation that keeps
  the product's epoch (`Steady`), an open batch has kept it since the committed data, and no
  epoch is above the revision (`EpochsUpTo`), so that a count always makes a new one.
  `ReportsAgree` needs no invariant of its own, only what the others say of the data
  between two transactions (`Readable`): a snapshot has exactly the rows of its day's
  entries, a day without an entry has no figures, no procurement is dated after today
  (`Blank`, which `SnapInv` carries). The rest is adding one table in different orders:
  the analytics by days, the inventory report by products (`SumSwap`), the trend lines by
  months (`SumParts`, with `EveryDayHasALine` for the arithmetic of `TrendKeys`), and what
  a range adds beyond its entries is zero (`SumOnly`).
* `OwnerTransactionProofs`. The invariant ties the stage of an attempt to its view: only
  the holder of the fence has one, it is the committed data with a higher revision, then
  with a claim, then with the writes once more, then with a receipt; and the keys with a
  receipt are those in `history`. In `Refinement`, `Commit` maps to `Apply` or `Pass`,
  `Deliver` to `Tell` or `TellAndNotify`, everything else stutters.
* `OfflineSyncProofs`. `NothingMissed` speaks of a device between two pulls; in between
  it has to be said of a window that is half read. `Covered` says that each document
  the window wants, as it stands, is in the copy or in the page under way, or lies
  ahead of the token (`Ahead`): it sorts after the token's place in its collection, or
  its collection comes later. A writer gives a version above every window that is open
  (`Moves`), so what it writes is wanted by no open window; a read that takes the first
  documents of what matches (`PageTakes`) and sets the token to the last of them keeps
  the rest ahead. For `NeverBack` the page
  and the copy carry no document above what the server has, and a tombstone excludes
  the product (`DocsInv`, `ItemInv`). For `VerdictsTrue`, an operation that was told to
  be in conflict has a base version that no later state of the document can match
  (`Doomed`), which every write keeps.
* `SubscriptionPaymentsProofs`. The invariant ties status, grant, review flag and refund
  of each payment together and the reminder mark to the announced period. In
  `Refinement`, an activation maps to `Credit` or `Grant`, a deactivation of running time
  to `Withdraw`, the expiry job stutters because it closes only what has lapsed.
* `SessionsProofs`. The properties are not inductive: a request under way may write with
  what it was admitted on, a login with what it read, a code with the version it was
  asked under. `IInv` adds that every token names an id already made (`TokensKnown`, so a
  fresh id belongs to nobody), that what a visit carries is up to date if its session
  still is the present one (`VisitsCurrent`), that an expired session is nobody's
  (`ExpiredIsGone`), that a login that goes on without a code read an account that was
  not in use and that time does not change this (`ReadIdle`), and that only consumed
  codes gave sessions (`CodeUsed`).
* `ServerProofs`, about `BusinessDay`, `Registration`, `Debtors` and `ApiProcess`, which
  share no state. Of the days: what a request works with is at least its floor and in
  step with the hour in force (`InStep`), for every length of a day. Of registrations:
  a proof that was verified is one the bot confirmed (`Verified`); a transaction that
  holds a fence saw it at the number it still has (`SeesFences`), and therefore what it
  read still stands (`StillFree`): no account has registered the phone since, and one that
  registered and has the phone now got it by a change; so at the moment of the write there
  is no registered account whose own phone it is; and an account names the registration it
  came from (`MadeOf`). Of deletions: an account that is gone has left no old row
  (`DeletionInv`). Of debts: both are well typed and none is negative; a balance
  that is no whole number of cents is exactly what its history says, because nothing was
  rounded yet, and the first rounding moves it by half a cent, the later ones by nothing
  (`Agrees`).
  Of the cache: every entry, every fill under way and every answer is of the route it is
  kept under and no older than the revision in its key (`GoodEntry`, `GoodPending`,
  `GoodRead`); `bytes` is the sum of the sizes stored, every key is stored or filled once
  (`StoreInv`), which every eviction of `Room` keeps, so that a fill that comes late finds
  the bounds as the others left them.
  Of the exports: a listened-to thread that runs a task runs the active one (`Linked`),
  which is why a message that arrives late is never taken for the report of another
  request. `SlotInv` is `SlotsConserved` with what makes it inductive: the queue of the gate
  and that of the thread have each request once, and the task in hand is not queued as
  well. `LeaveSlots` says what a callback does in which any number of requests end: that
  many slots are passed on to the first of the queue or given back, whichever is fewer;
  `DrainSlots` what a drain does that drops any number of tasks on the way.
* `Sums`. A fold is a recursive function over the subsets of its set. Its lemmas say that it
  exists, that it is unique and, for sums, that the order does not matter (`SumAddsUp`),
  by the least cardinality of a counterexample: the library's induction theorems take an
  operator, which no installed prover instantiates, but least elements need none. Step
  and choice of the fold are given as functions for the same reason.
* `ClusterProofs`. The remembered exits of a slot are the recent ones of its history
  (`Remembers`), so the cluster stops exactly when it should. Of the limits: the commands
  counted in one window have different numbers, windows follow each other, and tables
  and pending commands keep their sizes (`Different`, `WindowInOrder`, `SizeInv`); a
  window with different numbers up to the limit lets no more than that many pass.
  `ServesWhenReady` holds for a cluster with one primary, and says so as an assumption.

Proved without a run of its own: the type invariants other than the ledger's,
`StockWithinStart`, `ReceiptsAreFinal`, `DebtsStayDebts`. Only model-checked: the liveness
properties (`RequestsEnd`, `Converges`, `ExportsEnd`, `NobodyForgotten`): liveness under
fairness and ENABLED are out of the prover's reach. Every safety property of a passing
run is a theorem. No module uses a RECURSIVE operator.

## 5. Plan

Done: all modules of section 2, their runs, and the proofs of section 4. Left:

* Two primaries that start at the same moment (section 7), once the code promises
  something for them.

## 6. Reading the models against the code

`StockLedger!SoldLine` is one line of `inventoryService.sales`: the entry or its fallback,
the off-list branch, the late branch with `later` days and their snapshots. `Edited` is
`updateInTransaction` with the two branches on whether the request states a quantity and
whether the day has an entry. `Rebuilt` is `snapshotService.recompute` with its
incremental case. `OwnerTransaction` names its actions after the statements of
`withIdempotency`. In `OfflineSync`, `Matching`, `Precedes` and `PageOf` are the query, the
sort and the limit of `pullChanges`, `LowerBound` and `ScopeChanged` its checks of
checkpoint and cursor. `SubscriptionPayments!Settle` is `settle` with the three outcomes in
its order. In `Sessions`, `Unchanged`, `Open`, `Current` and `StillActive` are the filters
of the conditional updates. `Registration!Take` is `lockOwner` with the fence of a phone or a Telegram user,
`RateLimit!Count` the primary's `apply`, `ReportExport!Drained` the loop
of `drain`, `ReadCache!Room` the evicting one of `get`. `PROJECT.json` has the lines of each.

## 7. Where documentation and code differ

* `products/product.service.ts` 235-236 promises that switching to "dona" makes the
  existing stock countable; the stored quantity is only written when the request states
  one (298). `ledger_countable` shows a fractional "dona" stock.
* `server.ts` 61-64 says that a provisional payment nobody confirms has its tier taken
  back. `rejectPayment` closes the payment, marks it for review and leaves the tier its receipt
  gave.
  `receipt_expiry` begins with a document given by the receipt of a provisioned Pro
  payment, rejects the payment, and Pro runs on.
* `docs/high-scale-architecture.md` 40 speaks of an *idle* teardown after 30 seconds. `drain`
  arms a timer each time it finds nothing to do and forgets the handle of the one before
  (`lib/report-worker.ts` 18), so the earlier one still fires and may end a thread that is
  formatting; its exit is not listened to, and the client waits for the 60 seconds of
  the deadline. `idle_teardown`. `ExportsEnd` holds because of that deadline.

Noticed while modelling, without a run:

* `README.md` 85 forbids editing past days; queued sales edit them
  (`operation.service.ts` 12). What does hold is `ClosedDaysOnlyGainSales`. The derived
  row of a past day shows today's stock of the product.
* `README.md` 61 says that an idle session id makes no login ask for a code; after an
  administrator's password change it does.
* `README.md` 91 names "last `updatedAt` wins" as conflict strategy, where
  `sync.service.ts` compares base versions; `README.md` 89 calls the deletion of a product
  soft, where it deletes and leaves a tombstone.
* `modules/auth/auth.middleware.ts` 138-140 says that whoever lost the race to promote a
  pending hour may use it all the same. If a change replaced the pending hour after it was
  read, that is wrong for this request, and its business date may run backwards; so it may
  if a request spans the start of an hour. `DatesForward` is checked and proved without
  these two.
* `PUT /auth/me` and `updateAdmin` write a phone without a proof, a fence or a look at the
  other accounts (`modules/auth/auth.service.ts` 486-491 and 516-519,
  `modules/auth/auth.repository.ts` 113 and 139-141; `createAdmin` does not look either).
  Two accounts may share a phone afterwards, one of them registered with it, and the bot,
  which wants exactly one, then links neither. `auth.service.ts` 82 promises uniqueness of
  simultaneous signups only, which `RegisteredOnce` checks.
* A completed TezCheck payment that was refunded stays in the administrators' list for
  ever: `rejectPayment` refuses it.
* A debt opened with half a cent cannot be paid off exactly: the two roundings differ.
* Two primaries that start at the same time may both migrate the barcode index: one may
  drop the index that the other has just made and serves on. `cluster.ts` 12 has one
  primary prepare the database for its workers; nothing keeps two instances apart.

## 8. Not modelled, and why

* Ledger: barcodes, images and display order (no other state depends on them); the
  guards of v2 (they only refuse); decimals beyond halves. Reports: suppliers, value of
  the stock, quantities by unit, the tier a long range needs, the format of exports.
* Payments: Click and TezCheck signatures and amounts (equality checks before the modelled
  step); OCR and receipts (review aids that grant nothing); the projection `isPayed`;
  the paging of the review queue; calendar months (months have one length).
* Accounts: roles and ages of tokens; user names; the subscription that `createAdmin`
  starts in a second step, of which nothing is promised; names, phones and notes of
  debtors; the lists of `deleteAdmin` that concern procurements and sync data, treated
  like the two collections of the run; floating-point noise of sums.
* Sync: legacy records, which are always refused; the restoring of a database from a
  backup, against which `SYNC_RESET_REQUIRED` guards.
* Start: the display indexes, an index that is unique but not partial, the split of the old
  collections and their images (they run once, over data the repository does not
  describe), the readiness check outside production.
* Rate limits: `decrement` and `resetKey`, which no policy calls; what a restart of the
  primary does to its counters (they start over). Cache and gate: the arithmetic of pool
  sizes; a load is one read. All lengths of delays: what matters is which of two comes first.
* Images and OCR (bytes in a store that is not in the repository), notifications' text,
  routing, validation, translation and configuration: no state that another part relies on.
