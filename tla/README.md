# TempoFast workstation, till and cash changer: verified parts

A TLA+ development kept beside the restaurant system in this repository. It
models the places where a shop's money and its records of it can part:

* the **outbox** of the workstation: what was done offline reaches Cloud exactly
  once (`CloudLedger`, `SyncQueue`);
* the **print journal**: copy numbers of money documents, and their report to Cloud
  (`PrintLedger`, `PrintJournal`);
* the **cash changer**: what the machine took is booked, once, and the cashier is
  told the truth about it (`CashLedger`, `CashMachine`, `CashTill`);
* the **even split** of a bill at the till, with retries, refunds and a snapshot that
  outlives the dialog (`SplitBill`);
* the **live list** of open orders and the tabs money is taken on (`LiveOrders`).

TLC checks them on small instances; TLAPS proves every safety property the runs check
for every value of the constants. Liveness stays with TLC.

1. [Inventory](#1-inventory) – the parts of the system and what makes them correct
2. [Plan](#2-plan)
3. [Modules and code](#3-modules-and-code)
4. [Runs](#4-runs), bounds and fairness
5. [Proofs](#5-proofs)
6. [Findings](#6-findings) and further observations
7. [Not modelled](#7-what-is-not-modelled)

## 1. Inventory

A shop runs one **workstation** (Go, `workstation/`), with tills, kiosks,
handhelds and kitchen displays (`web/`, `app/`) around it on the LAN, and talks
to **Cloud** (Laravel, `backend/`). The workstation is offline-first: it commits
to SQLite, serves the LAN from it, and synchronises when it can.

| Component | State it keeps | Operations | Correct when |
|---|---|---|---|
| Sync engine `internal/service/sync_service.go` | `sync_queue` rows (attempts, transient failures, synced_at, dead-letter reason, resolution), cloud ids, cooldown, drain budgets | Enqueue; the tick (cascade, two reconcilers, drain); dead-lettering; retry, discard, re-resolve, recover | nothing booked twice; nothing recorded locally drops out of sight; one bad row blocks nobody |
| Connectivity monitor `connectivity.go` | last HEAD probe | probe | – (an input of the engine) |
| Order and payment handlers `handler/local_pos.go`, `local_kiosk.go` | orders, payments | commit, then Enqueue; equal split; refund | the entity is queued, or found by a reconciler; a key is booked once |
| Cloud workstation endpoints (`backend/app/Http/Controllers/Api/V1/Workstation`, `Services/Order`, `Services/Payment`) | orders by `client_order_id`, payments by (order, idempotency key) | create, confirm, soft delete, settlement by other channels | idempotent under retries |
| Recovery page API `handler/routes.go` | – | list, retry, discard, re-resolve, recover, unpair | shows everything the engine gave up on |
| Print journal `internal/printjob`, `sync_print_journal.go`, `handler/print_journal.go` | `print_jobs` (copy number, status, synced_at) | Reserve, Confirm, Record, Pending, MarkSynced, sweep | copy numbers unique per scope; Cloud told once, of settled prints only |
| Cloud print ledger `Services/Printing/PrintJobJournalIngestService.php` | `print_jobs` by id | batch ingest | a replay changes nothing |
| Cash changer sessions `service/cash_changer_*.go`, `device/glory/collect.go`, `handler/cash_changer_*.go`, `cash_device_sync_up.go` | the active session, `cash_changer_sessions`; the machine keeps its transactions | begin, poll, fix, cancel, book, resolve, reconcile at boot, push to Cloud | cash the machine keeps is booked once, on the right order, or somebody knows |
| Collection by the machine at the POS (`use-cash-changer.ts`, `use-machine-collector.ts`, `cash-changer-overlay.tsx`) | last snapshot, poll, the waiting row | start, poll, cancel, dismiss | a row is told "paid" only for its own payment; the overlay is right about the cash |
| Even split (`split-bill-even-tab.tsx`, `use-split-bill.ts`) | rows, keys, snapshot in localStorage | hydrate, retype, pay, refund, close, hand over the receipt | a retry is the same payment; announced amounts hold |
| Live orders (`ws.go`; `use-orders.ts`, `use-workstation-socket.ts`, `use-live-channel.ts`, `use-tab-sync.ts`, `page.tsx`) | the hub's clients; query cache, tabs, dialogs | broadcast, greet, register, drop; patch, refetch, poll, reconcile tabs | a screen nobody refreshes is right; the tab money is taken on stays |
| Self-update `internal/update` | staged binary, attempt marker | plan, download, apply, supervise, roll back | never left without a binary that starts |
| Pull-down `sync_pull*.go`, `sync_poke.go` | cursors, caches of menu, tables, orders | cursor pulls, pokes | a pull never overwrites an unsynced local edit |
| Till close and manifest `sync_manifest.go`, `local_pos_till.go`, `Services/Till` | till sessions, manifest of the shift's rows | close, settle, reap | a close waits until what it counts has arrived |
| Drain budgets in `sync_service.go` (`budgetAllows`, `noteRequest`) | per-minute counters | count, skip | a backlog of one kind does not starve another |
| LAN/Cloud switch of the front ends `base-url-resolver.ts` | circuit breaker | probe, trip, recover | a request goes to one side, money to the right one |
| Order domain and pricing, KDS, printer drivers, alerts, signing, auth, store, maintenance, the other front ends, the rest of `backend/` | see `PROJECT.json` | | |

How they interact: HTTP handlers run concurrently with each other and with the
one engine goroutine, and share only the database. A handler commits its entity
and enqueues afterwards, in a second transaction. The engine is woken by a
channel of capacity one or by a 5 s timer, selects a batch, and pushes row by
row over HTTP with a 15 s context; every bookkeeping statement is an autocommit.
The operator's recover call runs in an HTTP goroutine, statement by statement,
beside the engine. Money prints reserve a number, print for seconds on a real
device, then settle; the journal calls the engine back (`OnRecorded`) to queue a
drain trigger, and any trigger pushes whatever is unsynced. A cash collection is
a goroutine of its own that polls the machine and books through the same
payments table; the till polls the session it started and never sees the machine.
A handler that changed an order broadcasts to the hub before it answers, and the
till's screen lives off those events, its own answers and, without a channel, polling.

What is hard to test, and what the properties are for (the forty that matter most
each at its line in `PROJECT.json`, `hazards`; the rest under *Further observations*):

* a crash, or an error, between a commit and its Enqueue, between Cloud's answer
  and `synced_at`, between any two statements of recover, between Reserve and
  Confirm, between the machine's *finish* and the payment, between that and the row;
* requests processed after the caller gave up on them, and answers that are lost:
  workstation to Cloud, till to workstation;
* two producers of one row: handler and reconciler, drain and re-home, operator and
  tick, session goroutine and boot reconciliation;
* two users of one thing: two tills on one machine, a machine and a handler on one
  order, a dialog and the requests of the dialog closed before it;
* dead letters: cascades, re-resolves and recoveries of families in the wrong order;
* refusals taken for replays (409), outages taken for poison rows (stuck transient),
  a snapshot of another session taken for one's own;
* rows pushed for ever, rows that block those behind them, rows nobody owns;
* events lost, overtaken or patched under a fetch, on a screen that no longer polls.

## 2. Plan

| # | Module | About | State |
|---|---|---|---|
| 1 | `CloudLedger` | Cloud's orders and payments as the workstation's routes see them | done |
| 2 | `SyncQueue` (extends 1) | outbox, engine, handlers, operator, network | done for orders and payments |
| 3 | `SyncQueue_proofs`, `SyncOwners_proofs` | invariants of 2 for all constants: what is booked; who owns what is not | done; eight theorems |
| 4 | `PrintLedger` | abstract specification of the journal | done |
| 5 | `PrintJournal` (refines 4) | reservation to ledger | done |
| 6 | `PrintJournal_proofs` | invariants and the refinement | done |
| 7 | `CashLedger`, `CashMachine` (refines it), `CashMachine_proofs` | the session against a machine that keeps state over a crash | done; six theorems |
| 8 | `CashTill` (extends 7), `CashTill_proofs` | the till in front of it | done; four theorems |
| 9 | `SplitBill`, `SplitBill_proofs` | even split against the payment and refund handlers | done; five theorems |
| 10 | `LiveOrders`, `LiveOrders_proofs` | hub, query cache, tabs | done for the list of open orders; three theorems |
| | `SumFacts` | sums over finite sets, for 7 and 9 | done |
| 11 | `SelfUpdate` | staged apply, supervised start, roll-back | next |
| 12 | `DrainBudget` | per-minute budgets, deferral, starvation | then |
| 13 | `TillClose` | manifest, RECONCILE_PENDING, reaper | then |
| 14 | `Pull` | cursor pulls against local edits | then |
| 15 | `LanOrCloud` | the circuit breaker of `base-url-resolver.ts` | then |

Abstract specifications worth adding: for 1–2 a ledger in which each recorded
payment moves once from *recorded* to *booked*, which the outbox implements while
Cloud loses nothing; proving that step by step comes after it. The other theorems to
come are those of the modules still to be written. Runs that ask neighbouring questions
are merged as later modules get theirs.

## 3. Modules and code

### CloudLedger

`cloud` is the sequence of Cloud orders ever minted for this workstation (an id is
an index) with the state that decides what the routes answer: `open`, `closed`
(settled by another channel), `trashed` (soft-deleted, its `client_order_id` still
taken), `gone` (a reseed or a restore lost it). `booked` are the payments held,
with order and idempotency key. `StoreOrder`, `StorePayment` and `ConfirmPayment`
are what one request does in its transaction, with the HTTP answer it gives;
`SettleOnline`, `TrashOrder` and `LoseOrder` are what happens behind the
workstation's back. Amounts are left out: an order takes payments or does not.

### SyncQueue

| State | In the code |
|---|---|
| `queue` | `sync_queue`, append-only; a row id is an index |
| `known`, `recorded`, `orderCloud`, `payCloud`, `rehomed` | rows of `orders` and `payments`, their `cloud_id`, `payments.rehomed_at` |
| `todo` | the Enqueue calls a handler still has to make |
| `recovering` | the position of a running `RecoverOrderOnCloud` |
| `pc`, `pend`, `batch`, `flight` | position of `tick`/`processQueue`, the rows its queries returned, the push under way |
| `wake`, `cooling`, `online` | `wakeCh`, `cooldownUntil`, what `ConnMonitor` last saw |
| `up`, `late` | the connection; requests sent and given up on |

Every statement that commits on its own is a step: the producers
(`CreateOrder`, `RecordPayment`, `HandlerEnqueue`), the tick (`Cascade`,
`ReconcileUnsyncedOrders`/`BackfillOrder`, `ReconcileUnsyncedPayments`/
`BackfillPayment`/`MarkRehomed`, `Select`), a push (`DependencyNotReady`,
`BudgetSkip`, `Push`, `CloudAnswers`, `CloudRefuses`, `Timeout`), the outcome
switch of `processQueue` (`WriteBack`, `StampSynced`, `AuthRejected`,
`DataConflict`, `BurnAttempt` then `DeadLetterIfExhausted`, `Transient` then
`StuckOrStop`), the operator (`RetryFailed`, `Discard`, `ReResolve`,
`RecoverCheck` … `RecoverEnqueue`) and the environment (`LateRequest`,
`CooldownElapses`, `Probe`, `Outage`, `CloudMoves`, `Crash`).

Abstractions: a payload is the entity it is about; the drain order is
*creates first, then any row* (priorities are equal for the modelled rows and
`created_at` has one-second granularity); the per-minute budget is a
nondeterministic skip; the transient counter stops at the threshold it is
compared with.

### PrintLedger and PrintJournal

`PrintLedger` says what a shop is promised: `issued` copy numbers of a scope grow
by exactly the next number, and Cloud is `told` of a print once, with a settled
outcome and a number that was issued.

`PrintJournal` has the phases of `beginMoneyPrint` / `finishMoneyPrint`:

| State | In the code |
|---|---|
| `jobs` | `print_jobs`, append-only; a job id is an index |
| `triggers`, `tries` | undelivered `print_job.journal` rows of `sync_queue`, their attempts |
| `stage`, `job`, `copy`, `outcome` | the handler of one print: how far, which row, the number on the sheet, how the printer ended |
| `draining`, `batch`, `answer` | `PrintJournalSyncHandler.Handle` at work |
| `phase` | process down, starting (before the sweep), serving |
| `ledger`, `late` | Cloud's `print_jobs`; pushes that may still arrive |

`Reserve` is `reserveTx` (number and row in one transaction), `Unnumbered` a
reservation that failed or a kitchen ticket, `Attempt` the printer, `Confirm` and
`Record` the settling statement, `Notify` the callback. `Drain`, `CloudAccepts`,
`CloudRefuses`, `PushLost`, `LatePush`, `MarkSynced`, `RetryLater`, `BurnAttempt`
are the drain; `SweepStaleReservations` sweeps some prefix of the queued rows, for
how many are older than five minutes depends on how long the workstation was down.
The engine's own bookkeeping (cooldown, stuck-transient, dead-letter page) is that
of `SyncQueue` and reduced here to *retried* or *one attempt burned*.
`SyncQueue` and `PrintJournal` share the drain loop but no rows, so they are
checked apart.

`issued` is refined by `[s \in Scopes |-> NumbersOf(s)]`, reservations in flight
included, `told` by `ledger`.

### CashLedger and CashMachine

`CashLedger` says what the shop is promised: a collection the machine `finished` enters
the `books` at most once, for the amount the machine took, on the order it was
started for, and nothing else is ever booked for the machine.

`CashMachine` composes the bridge with the machine. The machine is external: its
transactions live on through a crash of the workstation, the customer feeds them,
they time out with the cash inside, break down, or finish.

| State | In the code |
|---|---|
| `txns` | the machine's transactions; `session` is a history of who asked |
| `sessions` | `cash_changer_sessions`, one entry per `Begin`; `stored` is whether the row could be written, `ledger` and `device` the machine's last word and its id on the row, `synced` its stamp, `held` whether Cloud took it in |
| `payments`, `closed` | `payments` (`txn` is the key `glory:<txn>`), closed orders |
| `alerts` | what `AlertBook.Raise` was called with |
| `active`, `pc`, `job` | `CashChangerService.active` with its snapshot; the session's goroutine, or the boot reconciliation |
| `cancels` | `CancelSession` calls past the check of the session id |
| `phase`, `todo` | process down, reconciling, serving; rows `ReconcileUnfinishedSessions` has read |

`Begin` is `BeginWithPaymentMetadata`; `StartTransaction`, `StartRefused`,
`StampTransaction`, `PollEnded`, `PollFixes`, `PollWaits`, `ChangeShortage`, `PollFails`
are `Collector.Collect` with its hooks; `RecordReplay`, `RecordCheck`, `RecordFails`,
`InsertPayment`, `OrderLifecycle` are the statements of `RecordCashPayment`;
`ResolveSession`, `RecordMachineLedger`, `Report` end the goroutine; `Boot`,
`Reconcile`, `ReconcileUnreachable`, `ReconcileUnfinished`, `ReconcileFinished`,
`ReconcileSettles`, `Serve` are the start. `Push` is `PushCashDeviceTransactionsUp`: of the
oldest unsynced rows (`Window`) those that name the machine (`Batch`), in one request, all
stamped on any 2xx. Cloud refuses a request with an unknown word whole (`CloudAccepts`) and
answers 202 also when its intake threw or rejected rows (`IntakeFails`); the answer or the
stamping statement may be lost (`PushUnanswered`).
`OtherPayment` is any other handler that takes money for the order. `finished` is
refined by the finished transactions with the order of their session, `books` by
the payments that carry one.

### CashTill

Extends `CashMachine` by one till; `TillSpec` is its safety part, which the theorems are
about, `FairTillSpec` adds the fairness the run assumes. `shown`, `request`, `error`, `unknown`, `polling`,
`streak` are the state and refs of `useCashChanger`; `pending` is `pendingRef` of
`useMachineCollector` with `startedFrom`; `paid` is a history of the rows that were
told *paid*. A request and its answer are one step and on a `LossyLAN` either may be
lost; React runs the collector's effect after each change of the hook's state, so
`Effect` is part of every action. `Headline` is what `CashChangerOverlay` shows. A
second surface begins collections through `Begin` itself.

### SplitBill

`rows`, `saved`, `data`, `fetching`, `open` are the tab's rows, its snapshot in
localStorage, `splitData`, `isFetching`, and whether the dialog is mounted;
`requests` the calls either side is still busy with, each with what its closure had
`seen` of the rows; `payments` the workstation's table; `receipt` what
`onAllRowsPaid` handed over. `Show` is `setRows` with the two effects that follow it
(persist, clear). A request moves through `Lookup`, `Insert` or `Refund` at the
workstation, whatever became of its sender, and through `PayAnswered`,
`AllRowsPaid`, `PayFails`, `RefundAnswered`, `RefundFails` at the till.
`PerPersonAmounts` and `Redistributed` are `computeEqualSplitPayload` and
`redistributeEqualSplit`.

### LiveOrders

`server`, `handlers`, `answers` are the workstation's orders and the handlers between
commit, broadcast and answer; `socket` and `wire` the hub's side of one client and the
frames on the way; `reachable` and `connected` the two inputs of `useLiveChannel`, where an
unreachable workstation answers no request either (the module has mode *workstation* only;
Cloud's side of mode *auto* is left out);
`loaded`, `list`, `fetch` the query cache; `tabs`, `active`, `dialog` the tab store and
the page's dialogs. `Fanout` is `BroadcastEventScoped` with its drop for a full buffer,
`Invalidate` is `invalidateQueries`, `Receive` is `onmessage`, and `TabSync` is the
effect of `useTabSync` together with the effect of the page that closes money dialogs
when another tab gets active. `astray` is a history of accidents that nothing will
repair (see `QuietMeansFresh`), `changes` counts the orders' changes for the bound.

The cash and till modules are not composed with `SyncQueue`: they share the payments table
with it, which `NoDoubleBooking` covers for any row, and they add no row of a new kind.

### Definitions named as mutations

Some modules contain, next to a definition, a variant with a plausible slip
(`KeyPerRow`, `OrphanUncapped`, `InsertOutstanding`, `LiveIfReachable`, …). No specification uses them;
they exist so that each property can be seen to fail when the definition beside
them is exchanged for its variant. `PROJECT.json`, `mutants`, pairs them.

## 4. Runs

| Run | Instance | Asks | Result |
|---|---|---|---|
| `SyncDelivery` | 1 order, 1 payment; 5xx, lost and late requests; the guest settles online (409); crash at every step | `TypeOK`, `NoDoubleBooking`, `CloudIdIsReal`, `SyncedMeansBooked` | holds, 0.8 M states |
| `SyncRecovery` | kiosk payment with a rejected bearer; 422s; Cloud loses or settles the order; recover at any time | `NoDoubleBooking`, `NoOrderStranded`, `KioskRowsBounded` | holds, 6 M states |
| `SyncOperator` | 400s that burn two attempts, skipped rows, failing backfills, outages, a soft-deleted order; retry, discard, re-resolve | `NoPaymentStranded`, `ExhaustedIsSurfaced` | holds, 2 M states |
| `SyncBacklog` | a poison order answered 5xx for ever, which stops two drains before it is given up, lost Enqueue calls, and an innocent order with its payment | `OrdersArrive`, `MoneyArrives`, `EveryRowSettles` | holds, 0.3 M states |
| `PrintJobs` | two receipts of one payer; two faults of any kind (busy database, lost trigger, lost or refused push), two crashes | `TypeOK`, `CopiesAreUnique`, `CloudNeverContradicted`, `SyncedIsOnCloud`, `KeepsPromise`, `TriggeredIsLedgered` | holds, 0.2 M states |
| `CashMachine` | two collections and another payment on one order of total 2, batches of one row; one fault of any kind, of the bridge or of Cloud's intake, but a Cancel that fails; one crash | `TypeOK`, `BookedOnce`, `BookedRight`, `NoSilentCash`, `ClosedIsPaid`, `KeepsBooks`, `LedgerArrives` | holds, 0.4 M states |
| `CashTill` | one order of total 2, two collections, no other payment, one failed booking; a till on a LAN that loses requests and answers, two silent polls before it gives up, one crash | `TillTypeOK`, `PaidRowIsBooked`, `OverlayIsTrue`, `CollectSettles` | holds |
| `SplitBill` | two guests, total 2, three requests, shares retyped to 0 or 2; refunds, timeouts, refetches, closing | `TypeOK`, `RetryAsksTheSame`, `PaidRowIsBooked`, `ReceiptIsBooked`, `AnnouncedAmountsHold` | holds, 1.7 M states |
| `LiveOrders` | two orders, two changes, a buffer of one, three breaks of socket, reachability or fetch | `TypeOK`, `QuietMeansFresh`, `PinHolds`, `PollingStaysFresh` | holds, 0.4 M states |
| `SyncRecoveredMoney`, `SplitRetry`, `LiveTabs` | one property each | see [Findings](#6-findings) | violated |

**Bounds of the outbox and the journal.** Orders and payments interact only through
parent and child, the shared drain and the reconcilers, so one family shows the
per-family hazards and two families the head-of-line ones. `MaxQueue` (3 to 6) leaves
room for every row the handlers queue plus those that reconcilers or recover add; a
full queue makes Enqueue fail (`HandlerEnqueueFails`, `BackfillFails`), which the code
handles like any database error. `MaxAttempts` and `StuckThreshold` are 1 or 2 instead
of 5 and 20: the code only compares with them, and 2 is where the same row fails, is
selected again and blocks again before it is given up (`SyncOperator` has two attempts,
`SyncDelivery` and `SyncBacklog` two transient failures; a third would add another round of
the same). `MaxCloudOrders` 2 lets an order be lost
and re-created once; `LoseOrder` needs a spare id. In `PrintJobs` `BatchSize` 2 is the
number of prints: with batches of one, a single lost trigger would fill a batch and leave
`TriggeredIsLedgered` nothing to say, and three prints are more than a run can hold. That a
batch overflows, and that kitchen tickets mix with receipts, is
left to the theorems on safety, which hold for every batch size and every set of prints. The
stuck-transient backstop of a trigger (20 failures) lies beyond `MaxFaults`.
`EveryRowSettles` runs with a poison entity and lost Enqueue calls, not with every
refusal Cloud knows.

**Bounds of the cash changer.** A hazard needs at most two collections (one whose row,
transaction, cancel or snapshot is taken for the other's) and one payment beside them
(which makes a finished collection more than what is owed). Total 2 has a partial and a
full collection. `BatchSize` 1 makes any bad row hold back another. `MaxFaults` 1 is part
of what the run says: with two failing database writes, an insert and a resolve, a stamp
lands on another session's row (see *Further observations*, and
`BookedOnItsOwner`, which names the two and holds for any number of all others). Of the bridge's own faults `CashTill`
keeps the one the till must tell apart from a returned deposit, a booking that fails;
the others are `CashMachine`'s, so that those of the LAN can be complete.

**Bounds of the till.** Three requests are a payment, its refund or retry, and one of the
other row; total 2 among two guests has equal shares, and shares of 0, 1 and 2 once the
cashier retypes one. In `LiveOrders` two changes suffice for every pair of events to
overtake each other; a buffer of 1 is full after one event. Three breaks let a workstation
be lost, come back without its socket, and a fetch give up on top of it.

**Deadlock** is not checked (`CHECK_DEADLOCK FALSE`): a workstation with
everything synced and nobody ordering rightly stands still, and bounded instances
end.

**Fairness.** Weak fairness of the engine, the recover steps, the handlers, the drain,
the session goroutine and the boot reconciliation: goroutines that are runnable run. A
request ends, one way or the other, because of the 15 s context in `pushToCloud`, and at
the till because of its own timeout. The cooldown is a clock; the monitor probes in a
loop; the supervisor restarts a dead workstation, which starts the sweep
(`PrintJournal`) and the reconciliation (`CashMachine`). Of the machine it is assumed
that it gives up on a deposit and ends what it dispenses. Of the till, that its poll
timer fires (`CashTill`), and that its list is polled and the fetches of a reachable
workstation are answered (`LiveOrders`). Nothing is assumed of the operator, of guests and customers, of outages,
of late requests or of the socket. `MoneyArrives` needs that refusals stop being the only
answer, so its run has a poison entity instead of arbitrary 5xx.

**Shape of the liveness properties.** `TriggeredIsLedgered` excludes what the code does
not promise: a trigger that ran out of attempts, and a full batch of rows whose triggers
were lost. `LedgerArrives` is about rows that carry the transaction and the machine's id and
whose word Cloud knows; it means that Cloud took them in, not that they were stamped, and
excludes what the code does not bound: an intake that failed behind a 202, a batch with a
word Cloud refuses, and oldest rows that name no machine.
`PollingStaysFresh` speaks of a screen that stays without a socket for good while the
workstation answers; a live channel is `QuietMeansFresh`'s, and with an unreachable
workstation nothing is claimed.

## 5. Proofs

All proofs are for arbitrary constants under the named assumptions of the modules
(`OrderOfAssumption`, `MaxCloudOrdersAssumption`, `SyncQueueAssumption`,
`PrintJournalAssumption`, `CashMachineAssumption`, `CashTillAssumption`,
`SplitBillAssumption`, `LiveOrdersAssumption`), which only say what the constants
are; TLC evaluates them on every run. Where a theorem needs more, its statement says so
as a hypothesis on the constants, and the runs that check the property satisfy it.

**SyncQueue_proofs**: `TypeCorrect`, `PaymentsAreBookedOnce`, `CloudIdsAreReal`. The
latter two are not inductive. That a
payment is booked once needs that Cloud has at most one order of a client id that is not
gone (`OneCloudOrder`, which `StoreOrder` gives alone), that every payment on Cloud lies on
an order minted for its own local order and carries its own key (`BookedInv`), that every
Cloud id the workstation remembers or has put in a request, late ones included,
was minted for the order it is used for (`IdsInv`), and that rows, tasks and the
row being pushed are well formed (`WellFormed`). Two local requests for one
payment then meet on the same (order, key), or their orders are two Cloud orders
of one client id, of which at most one is not gone. `IInv` is their conjunction;
each action has a lemma, and losing an order takes its bookings along.

**SyncOwners_proofs** (on top of `SyncQueue_proofs`): `OrdersAreOwned`,
`PaymentsAreOwned`, `ExhaustedRowsSurface`, `SyncedIsBooked`, `KioskRowsAreTwo`. The
invariant, `OwnerInv`, follows a row from its Enqueue to its end.

* `DrainInv`: the row at work is live and in nobody else's hands, so whatever the outcome
  switch does to it, it does once. `AnswerInv` says what an answer means: *ok* to an order
  carries its id, 409 is only said of orders somebody else settled.
* `StampedPayment`, `StampedOrder`: at the moment a row is stamped synced its Cloud id has
  been written back, or a successor is queued. From there `SyncedInv` and `PlacedInv`
  follow: a row that left the queue left a Cloud id, a place on the recovery page, or
  another row.
* `CountInv` is the counting argument for kiosk payments: the rows that exist and the
  ones that may still come, one from the handler and one from re-homing, are two.
  Rows are only appended, each append is one of four producers' (`Producer`), and for each
  the credit it uses up is shown to be there.

The hypotheses are what the code really does not promise (section 6):
`BurnSurvives` – no crash may fall between burning the last attempt and dead-lettering,
which needs both crashes and 400s no classifier knows; `RecoverCompletes` – a recover call
neither dies nor fails to queue its new row after resolving the old one;
`NothingCloses` – no other channel settles orders (for kiosk payments only), because a 409
is read as done; no crash for `KioskRowsAreTwo`, because `rehomed_at` is stamped in a
statement of its own. `SyncedIsBooked` has no hypothesis: that a payment row may be stamped
for an order another channel settled, with nothing booked, is part of what it says, and
that this 409 is the only such stamp is what it shows.

**PrintJournal_proofs**: `TypeCorrect`, `CopiesNeverRepeat`,
`CloudIsNeverContradicted`, `NothingStampedIsLost`, and `JournalKeepsPromise`,
`Spec => KeepsPromise`. `NumbersInv` says that a reservation is numbered past every
older job of its scope, which is what `MAX + 1` inside one transaction gives;
unnumbered rows with number 1 may follow anything but are not reservations.
`HandlersInv` ties a handler to its own row, so that the sheet's number is the
row's. `CloudNeverContradicted` is strengthened over everything on the way (the
batch and late pushes), and is kept because every step lets jobs only *grow*
(`JobsGrow`): settled rows never change. The refinement follows step by step: Reserve,
and a Record that opens its scope, are `Issue`; CloudAccepts and LatePush are
`Tell`; everything else stutters, for it neither adds numbers nor reaches Cloud.

**CashMachine_proofs**: `TypeCorrect`, `NeverBookedTwice`, `BookedOnItsOwner`,
`BridgeKeepsBooks`, `CashIsNeverSilent`, `ClosedOrdersArePaid`, for any number of
sessions, faults and crashes.

* `IInv` (types, references, "at the insert nothing is booked under this key") holds
  whatever fails and gives `BookedOnce`: one process books at a time, the goroutine or,
  after its death, the boot reconciliation, and each looks the key up first.
* Which order a collection is booked on after a crash depends on the row the transaction
  was stamped on, and the stamp takes the newest open row. `PhaseInv` says that the
  goroutine that stamps is the last session's and its row is still unstamped; then either
  every session has its row (`StoredInv`, if inserts do not fail) and that row is the
  newest, or no earlier row is still open (`OpenInv`, if resolutions do not fail).
  `OwnInv`: rows and jobs carry the transaction of their own session. Hence the
  hypothesis `OneWriteFails` of `BookedOnItsOwner` and `BridgeKeepsBooks`; without it
  the statement is false (section 6).
* `CashInv` is the inductive form of `NoSilentCash`. `Accounted` (returned, booked,
  alerted, or on a row that could not be written) is never undone; a transaction that is
  not accounted for has an open row that is unstamped or stamped with it, and is
  entrusted to the goroutine that collects it, to the boot that still has its row to do,
  or, between the two, to the next boot. Each handover is a lemma: crash to boot, boot
  to its end (it does not serve before `todo` is empty), and every way a watch or a
  booking can end. The hypothesis `CashReturns` leaves out the Cancel that fails after a
  change shortage, for which the statement is false (section 6).
* The refinement: the machine's *finish* is `Finish`, `InsertPayment` is `Book`, and
  nothing else touches finished transactions or their payments.

* `ClosedOrdersArePaid` has no hypothesis: payments are only added, so what is captured for
  an order only grows (`CapturedGrows`), and the recorder closes it after it has read enough.

**CashTill_proofs**: `TillTyping`, `ToldRowsArePaid`, `OverlayNeverLies`,
`TillDrivesBridge`, whatever the LAN loses and the bridge fails at. `TillDrivesBridge` is
step refinement: each step of the till is one of the bridge or leaves the bridge alone, so
the bridge's invariants are at hand. What the till shows is a snapshot of some earlier
moment, so the invariant is about what a snapshot says: `TrueOf` a session that ended, its
outcome is so when it is reported (`ServingInv`, `ActiveInv`) and stays so, because a
session starts at most one transaction (`TxnsInv`) and transactions and bookings do not
change once they are there. `OverlayNeverLies` covers the headlines *done*, *unrecorded* and
*returned*; *retained* is what the overlay says of every other status, and is wrong of some
(section 6). `RequestInv` adds that what a row waits for is a session begun
for it, after it asked (`startedFrom`), which no row was told of before: that is why
another surface's outcome is not taken for its own.

**SplitBill_proofs**: `RetriesAskTheSame`, `PaidRowsAreBooked`, `ReceiptsAreBooked`,
`AmountsAreFrozen`, `Typing`, for any number of guests and requests, any total, whatever
the cashier types. A key belongs to one row (`OneRowPerKey`, over payments, requests and
rows at once), so does what is booked under it (`Named`). That a retry asks for the same
amount too (`OneAmountPerKey`) is kept because whatever changes a row's amount takes its key
away, and a request carries the amount its row shows. `Kept` is the part that fails
first when the code is changed: whatever a row, a request still listened to or the receipt
counts on is not given back, nor is a refund of it on its way. It is inductive because a
refund starts only while no payment is out, and because the closure of a request that
outlived its dialog counts on payments no row on screen can reach any more (`Holds`).
Every step that sends nothing is an instance of one relation (`Onward`), shown once to
keep these parts. `Typing` shows that no share is negative, through the sums and the
integer divisions of `PerPersonAmounts` and `Redistributed`. A typed amount is any
natural: `handleAmountChange` does not hold it against the total, the workstation does.

**LiveOrders_proofs**: `Typing`, `QuietIsFresh`, `DialogsKeepTheirTab`, for any number of
orders, changes, breaks and tabs. `QuietIsFresh` follows each order from the handler to the
screen: the last frame on the wire about an order carries its present version, or the
handler of a newer one has still to broadcast (`WireCurrent`); and the list, or what a
fetch has read, is right about the order, or such a frame or handler is on its way
(`ListCurrent`), unless an accident happened that `astray` records. With nothing on the
way, the list is right.

**SumFacts**: what `SumFunctionOnSet` of the community modules does, for every function and
finite set: it exists, looks at the summands only, may take any summand first (`SumTakes`),
is a natural and grows with the set. The library's induction rules take a predicate
and cannot be instantiated by the provers; a smallest counterexample among the
subsets, given by the well-foundedness of strict inclusion, needs a set only.

**Model-checked only**: the liveness properties `OrdersArrive`, `MoneyArrives`,
`EveryRowSettles`, `TriggeredIsLedgered`, `LedgerArrives`, `CollectSettles` and
`PollingStaysFresh` (liveness under fairness is outside the prover's reach).

## 6. Findings

Each is a run TLC finds violated, on a property that a comment of the repository
states (quoted in `PROJECT.json`, `findings`).

1. **`SyncRecoveredMoney`** – a payment that had synced before Cloud lost its order
   keeps its `cloud_id` and is not pushed to the re-created order.
2. **`SplitRetry`** – the key of a split-bill row is to survive retries after a network
   glitch. While no row has succeeded, fresh shares replace all rows and their keys: a
   payment that was booked and whose answer timed out changes the shares, and the retry
   books a second one.
3. **`LiveTabs`** – the order list keeps every working status so that a tab is not dropped
   at once (#489). The tab of an order the till has just created is reconciled with
   the list as it was before, and dropped.

### Further observations

Seen while modelling, not repeated by a run of their own.

*Outbox.*
* `cloudPost` takes every 409 without a known code for an idempotent replay
  (`sync_service.go:3736`: "Cloud already processed this row"). Cloud answers a replay with the
  row it has, and 409 when an order was settled by another channel, "terminal for the sync
  queue" (`PaymentController.php:66`): the row is stamped synced with nothing booked, and
  is on no page. `SyncedMeansBooked` names this case as the one it excepts. Such workstation
  payments have no `cloud_id` and no active row, and, unlike kiosk payments, no cap: the
  reconciler queues them again on every tick (`:3045`), and each round raises Cloud's alarm
  for the same cash.
* Re-resolving a dead order does not revive the payments the cascade took along (`:1090`);
  the guide says that children follow.
* The stuck-transient backstop fires while Cloud's API answers 5xx to everything but its
  HEAD probe succeeds (`:1002`); comment and guide say it needs other work to have
  succeeded.
* A crash between burning the last attempt and `deadLetterIfExhausted` (`:862`, `:903`)
  leaves a row exhausted and not dead-lettered, which `:900` says cannot be; `SyncOperator`
  with `Crashes = TRUE` shows it.
* `RetryFailed` (`:611`) resets attempts of dead-lettered rows too, without reviving them;
  the guide says it does not touch them.
* If the Enqueue that ends `RecoverOrderOnCloud` fails, the order has a resolved create
  row, which makes the reconciler skip it.
* Order creation finds trashed orders by `client_order_id` (`WritesCustomerOrders.php:468`)
  and returns their id, which every later request answers 404.
* A re-homed kiosk payment that Cloud refuses with 409 is stamped synced, has no id, and the
  reconciler passes it over because of `rehomed_at`: nobody owns it.
* Only a `payment.create` row is re-homed (`:3080`); the `payment.confirm` row of the same
  kiosk payment keeps its rejected bearer and is sent on every drain. A crash between the
  two Enqueue calls of a kiosk payment loses the confirm (`local_kiosk.go:749`).
* The 5 s timer is recreated for every wake (`:635`): wakes at least that often keep the
  tick from running. `noteRequest` (`:973`) counts rows that never leave the workstation.
* The amount sent is capped by what is outstanding locally (`:1372`), which still counts the
  payments of a lost order.
* Device unpair counts unsynced rows and wipes later, without a transaction over both
  (`routes.go:2154`).

*Print journal.*
* A reservation whose process dies is swept only at a start more than five minutes later;
  a supervisor restarts sooner. Rows the sweep settles do not notify.
* Cloud refuses a print batch whole if one `last_error` is longer than 255 characters
  (`WorkstationPrintJobBatchRequest.php:61`); the workstation sends driver errors as they are.
* A reservation that fails past its retries prints as number 1 (`print_journal.go:99`), and
  the scope of an untargeted print changes when the order gets its first or second payment
  (`print_scope.go:42`).

*Cash changer.*
* A begin whose row cannot be written and that is then cut short by a crash leaves cash in
  the machine nobody asks about; `Begin` accepts that.
* The stamp finds its row by recency (`cash_changer_session_store.go:141`), `started_at` in
  seconds: if the insert of a session fails, and an earlier row could not be resolved, the
  transaction lands on that row, and after a crash on that order's books.
* A stamp that is lost leaves a row that is never pushed. A crash between
  `ResolveSession` and `RecordMachineLedger`, and every row settled at boot, never tells
  Cloud what the machine did.
* The workstation stamps the rows of a push on any 2xx (`cash_device_sync_up.go:141`) and reads
  none of the answer's counters. Cloud's controller answers 202 also when its intake threw, and
  relies on the workstation to send unconfirmed rows again
  (`CashDeviceTransactionController.php:90`); a rejected row is in a 202 as well. Such rows are
  stamped and not on Cloud (`Swallowed`).
* Rows without a machine id are skipped and stay the oldest (`cash_device_sync_up.go:98`): fifty
  of them and nothing else is ever pushed (`Starved`).
* A row whose machine status is not terminal (a poll that failed during *deposit*) makes
  Cloud refuse the whole batch with 422 (`cash_device_sync_up.go:63`), and the oldest rows
  go first: nothing is synced any more.
* A crash between the insert of the payment and the lifecycle: the replay at boot returns at
  the lookup (`cash_changer_recorder.go`), the paid order is not closed nor queued.
* `CancelSession` checks the session id and then tells the machine, without a lock: a late
  cancel returns the cash of the next session.
* The Cancel after a change shortage may fail, which is not looked at (`collect.go:199`): the
  row says *returned* while the machine keeps the cash, and nobody is alerted. The overlay
  says *retained* of a shortage that was returned, and of a start that was refused.
* A start whose answer is lost runs on unseen: the row has failed, contrary to the comment
  at `use-machine-collector.ts:97`. Alerts without a transaction share the empty subject.

*Even split.*
* The check against overpayment and the insert are two statements: two payments that fit one
  by one are both booked.
* A fetch that lands while the only row is in flight hydrates it away; it then succeeds with
  another amount than the row now shows, and the receipt may be handed over with less than
  the total captured (its remaining amount is fixed at 0, `use-receipt-flow.ts:280`).
* Two last rows in flight at once: neither closure sees the other settled, and `onAllRowsPaid`
  is never called. A row of amount 0 can never be paid.
* A refund that timed out but was carried out leaves its row *succeeded*, with an error.
* After a reload the snapshot is overwritten by fresh shares; retyping an amount after
  reopening shares out the order's total, whatever was paid before.
* `writeError` sends a message only (`routes.go:2583`), so a total drift found on the LAN
  never raises the banner that waits for a code.

*Live orders.*
* Events between `auth_ok` and the registration of the client are lost (`ws.go:542`).
* A patch is overwritten by a fetch that had read before it; broadcasts of two handlers may
  overtake each other (an order that is closed comes back).
* The resync on reconnect does not restart the very first fetch; a fetch that gives up while
  the channel is live is not repeated. Neither is invalidated: the order's detail.
* A quick order's answer closes an open money dialog and switches the tab
  (`page.tsx:448`); a tab beyond the first hundred orders is dropped.

## 7. What is not modelled

Of the repository's half a million lines and more, most are screens and CRUD over a
query cache or a database transaction: back-office pages, reports, menus, settings,
typed models. They have no state of their own that a model checker would reach further
into than a test, and the coverage of the map stays small for that reason: it
counts those lines too. What follows is what a model would add something to and does not
yet, and what the models leave out.

* Queue rows other than order creation, payment creation and payment confirmation:
  they run through the same drain with other handlers.
* Amounts, tenders, refunds and splits on the outbox: `handlePaymentCreate` caps an amount
  by what is outstanding locally; the ledger only knows *takes payments* or not.
* Request budgets (planned, `DrainBudget`), RECONCILE_PENDING (planned, `TillClose`),
  self-update and pull-down (planned), device unpair and its wipe, the maintenance job that
  deletes old synced rows.
* Of the cash changer: the deposit counters and denominations, several machines, the
  incident book, restarting the machine's adapter, the kiosk's own screen.
* Of the split: by item, by custom amounts, a change of the number of guests, tenders,
  the drift banner, collection of a row by the machine (`CashTill` has it apart).
* Of the live screen: the detail, takeaway, table and split queries, item states, KDS
  events, which side a request goes to, a half-open connection.
* Durations: five-minute and 15-second limits are order of events, not clocks.
* SQLite itself: a transaction is atomic and durable once committed.
* Drivers, rendering, generated schemas, and the back office in `backend/`:
  sequential or pure I/O; `PROJECT.json` lists each with its reason.
