# Verification of the Bakso Mas Sular backend

TLA+ specifications of the parts of the backend (`backend/src`) where orders, money, stock and
messages meet and several requests, workers and processes act on the same PostgreSQL rows at once.
Each module is translated from the code; TLC checks it on small instances and TLAPS proves its main
theorems for all instances. `PROJECT.json` holds the map from every definition to the lines it
models, the runs, the mutants that show each property can fail, and the list of hazards.

## The system

An order goes through checkout, payment, stock, shipment and notification. The components that keep
protocol state, and how they meet:

| Component | State | Operations | Talks to | What is hard |
|---|---|---|---|---|
| Checkout (`orders.service.ts`) | `Order`, `Payment`, reservations, voucher, in one transaction | `checkout`, `persistOrderWithRetry` | idempotency, reservations, outbox | client retries, late acknowledgements, serialization retries |
| Idempotency key (`idempotency.service.ts`) | `IdempotencyKey`: status, fenceToken, lockedAt | `begin`, `claim`, `finalize`, `markFailed`, `resolveAfterSupersession` | checkout | takeover of stuck reservations while the owner still runs |
| Settlement (`payment-settlement.service.ts`) | `Payment`, `Order`, ledger, outbox | `settle`, `fail`, `expire` | admin, webhook, reconciliation, lifecycle worker; cancellation, reservations | three callers race on one payment |
| Cancellation (`order-cancellation.service.ts`) | `Order` | `cancelAndRestock` | reservations | races settlement and expiry |
| Reservations (`inventory-reservation.service.ts`, its worker) | `InventoryReservation`, `ProductInventory`, `Product.stock` | `reserveForOrder`, `commitForOrder`, `releaseForOrder`, `expireReservation` | checkout, settlement, cancellation | snapshot reads, row locks, expiry against commit |
| Order transitions (`order-status-transitions.ts`, admin, shipment sync) | `Order.status` | `updateOrderStatus` | all of the above | illegal or backward moves |
| Payment lifecycle worker | `Payment.expiredAt`, reminders | `runExpiry`, `runReminders` | settlement | liveness of expiry, once-per-stage reminders |
| Outbox and relay (`outbox-relay.worker.ts`) | `OutboxEvent`: status, attempts, lease, token | claim, publish with confirm, fenced write-back | every writer of events; RabbitMQ | leases, lost confirms, crashes |
| Redrive, retention | the same rows | operator and sweeper | outbox, idempotency | resetting rows under a running relay |
| Gateway attempts, webhooks, reconciliation | `PaymentGatewayTransaction`, `PaymentWebhookEvent` | `initiate`, `handleMidtransNotification`, `reconcileOne` | settlement, Midtrans | reordered, lost and duplicated notifications, lost requests, a sweep racing a webhook |
| Stock allocation, transfer and adjustment | `ProductInventory`, `Product.stock`, `StockTransfer` | allocate, `approveTransfer`, `completeTransfer`, `adjustStock` | reservations of every order | many orders on one row, lock order, rows that appear under way |
| Shipment booking and sync | `Shipment`: status, airwaybill, booking lease, metadata | `createForOrder`, `prepareForOrder`, `cancelForShipment`, `syncAll`, webhooks | order transitions, courier APIs, notifications | external calls under a lease, lost answers, reports out of order |
| Notification consumers and sender | `ProcessedEvent`, `NotificationOutbox`, the queues | deliver, retry, dead-letter, pause; claim, send, write back; resend | outbox relay, RabbitMQ, providers | duplicates, closed channels under running handlers, leases |
| Vouchers, unique codes | counters, codes | part of checkout | checkout | check-then-act at READ COMMITTED |

The rest (authentication, catalog, cart, CMS, regions, outlets, uploads, invoices, logs, metrics, the
web front ends, deployment) reads and edits single rows and has no protocol between steps.

What makes each component correct is written next to the properties below; `PROJECT.json` lists
the hazards line by line, with the properties that would catch each of them or the reason why none does.

## Modules

| Module | Models | Composes |
|---|---|---|
| `EventLog` | abstract: what may become of an event once written | |
| `OutboxRelay` | the OutboxEvent table, relays, broker, redrive, retention | refines `EventLog` |
| `OutboxRelayProofs` | its theorems and the refinement | `OutboxRelay`, TLAPS |
| `OrderDomain` | status sets and the order transition table | |
| `OrderLife` | abstract: every order operation as one atomic step | `OrderDomain` |
| `OrderSettlement` | the operations as interleaved transactions with row locks | `OrderDomain`; refines `OrderLife` |
| `OrderSettlementProofs` | its theorems and the refinement | `OrderSettlement`, TLAPS |
| `CheckoutOnce` | abstract: what the requests with one key are told | |
| `CheckoutKey` | one idempotency key and the requests that carry it | refines `CheckoutOnce` |
| `CheckoutKeyProofs` | its theorems and the refinement | `CheckoutKey`, TLAPS |
| `GatewayPayment` | one charge at Midtrans, its ledger row, its notifications, the sweep | `OrderDomain`, `OrderLife` |
| `GatewayPaymentProofs` | its theorems | `GatewayPayment`, TLAPS |
| `ShipmentBooking` | one shipment: its booking, its courier, poller, webhooks and cancellation | `OrderDomain` |
| `ShipmentBookingProofs` | its theorems | `ShipmentBooking`, TLAPS |
| `NotifyOnce` | abstract: a notification is written once, then sent or given up | |
| `NotificationPipeline` | RabbitMQ, the consumers, the ledger, the notification outbox, its senders | refines `NotifyOnce` |
| `NotificationPipelineProofs` | its theorems and the refinement | `NotificationPipeline`, TLAPS |
| `StockBook` | abstract: every transaction on the stock rows as one step | |
| `Inventory` | the stock rows shared by several orders, admins and transfers | refines `StockBook` |
| `InventoryProofs` | its types and invariants, the transfers | `Inventory`, TLAPS |
| `StockBookProofs` | freedom from deadlock and the refinement | `InventoryProofs` |
| `MCOutboxRelay`, `MCOrderSettlement`, `MCCheckoutKey`, `MCGatewayPayment`, `MCShipmentBooking`, `MCNotificationPipeline`, `MCInventory` | instances and symmetry for TLC | |

The modules meet at promises that are checked on one side and assumed on the other. `OutboxRelay` shows that
an event reaches the broker at least once, which is `PublishedAgain` in `NotificationPipeline`.
`OrderSettlement` shows that settle, fail, expire and cancel appear atomic (`Serializable`), which is why
`GatewayPayment` may compose with `OrderLife`, and that an order has its transactions one after the other as
far as its own rows show, which is how `Inventory` takes them. `OrderSettlement` ends with the paid order
that `ShipmentBooking` begins with.

### OutboxRelay

`status`, `attempts`, `due` (nextAttemptAt against now), `lease` (lockedUntil against now) and
`lockedBy` are the columns of a row; `accepted` is what the broker has taken at least once; `pc`,
`token`, `batch` are the local variables of a running tick. `ClaimBatch` is the stamping UPDATE with
its SKIP LOCKED, `LoadBatch` the `findMany` after it, `PublishConfirmed` / `PublishErrors` the outcome
of `publishWithConfirm` (an error may come before or after the broker took the message),
`MarkPublished` / `ScheduleRetry` the fenced write-backs, which change nothing when the relay has
lost the lease. `ScheduleRetry` writes the count of the snapshot, as the code does. `TickFails` and
`Crash` drop the tick and leave the leases. Clock readings are abstracted to the outcome of each
comparison; a lease may run out at any moment, which includes a process that stalls.

- `NeverLost`: "a crash at any point causes re-publish, never loss".
- `AtLeastOnce`: the relays implement `EventLog`, with the identity on `status`, `attempts` and `accepted`: a
  row is published only after the broker has it and fails only with every attempt spent, whatever relays, leases and
  tokens do. It implies `PublishedIsFinal` (a stale relay never reverts a published row) and `AttemptsExact` (the
  budget is spent one at a time although counts are written back from snapshots), which are theorems of their own.
- `EventuallySettled`: once crashes, failed ticks and redrives stop, pending rows are settled.

### OrderDomain, OrderLife, OrderSettlement

One order, its payment, its reservations. Every operation reads, then runs a transaction at
READ COMMITTED; `OrderSettlement` gives each locking statement its own step. A conditional UPDATE is
`ClaimPayment` / `CancelOrder` / `ClaimReservation`: it waits until the row is unlocked, is evaluated
on the committed value, and keeps the lock until the end. `SettleLocksOrder` is the
`SELECT ... FOR UPDATE`, `LockStock` is `lockedPiFor` or the update of `Product.stock`.
`ReadReservations` is the unlocked `findMany` whose rows may have changed when their turn comes, which
`SkipReservation` then passes over. `Commit` makes all writes visible, `Rollback` none. Items in
`OutletItem` are booked in `ProductInventory` (`stock` and `held`), the others in `Product.stock`;
`available` is derived from the two and not kept. `REFUNDED` is never written by the code and
`CANCELLED` is no reservation's status in it, so neither is modelled.

- `StockConserved`: books and reservations agree in every committed state.
- `CancelledHoldsNothing`: an order that `cancelAndRestock` has cancelled holds and keeps nothing. An order that was
  cancelled by its courier's report is excepted (`byCourier`, history): that compare-and-swap releases nothing.
  `CancelledIsRestocked` is the same without the exception, as the service's comment has it, and is violated.
- `EventsExactlyOnce`: each terminal transition is announced once (the counts are history).
- `UnpaidOrderIsDead`: an order whose payment has failed or expired is cancelled, or had been delivered. That a paid order is never
  cancelled here, that a payment ends once and that an order keeps to the transition table
  (`NeverPaidWhenCancelled`, `TerminalPaymentFinal`, `OrderMovesLegally`) is proved; in the run it is part of
  `Serializable`, since `OrderLife`'s steps do nothing else.
- `NoDeadlyEmbrace`: no cycle of waiting transactions within an order.
- `Serializable`: the committed rows move as in `OrderLife`, where each operation is one step. The
  refinement mapping is the identity on `payment`, `order` and `res`.
- `EventuallyDecided`, `HoldsEnd`: with transactions no longer failing, every payment is decided and
  every hold ends.

`AdvanceOrder` is the admin's `updateOrderStatus` and the forward transitions of the shipment, `CourierCancelsOrder` the
order's part of a courier's cancellation (`applyTransitionInTx`), which sets CANCELLED wherever the transition table
allows it and goes past `cancelAndRestock`. What becomes of the reservations afterwards is left to the payment: its
end may still release them, a settlement that was already made leaves them COMMITTED.

### CheckoutKey

`row` is the `IdempotencyKey` row (`owner` is ownerId; `stale` tells whether its ownership is older
than `reclaimMs`), `rowLock` the open transaction that has updated it, `placed` the orders
committed, the rest the progress of each request. `Look` is `findUnique` with `handleExisting`, `Create`
the insert under the unique index, `Claim` the compare-and-swap on (id, status, fenceToken), `Reread`
the `findUnique` that ends it, `Finalize` the fenced update inside the checkout's transaction, `Commit`
its commit, acknowledged or not, `MarkFailed` the best-effort mark, `Crash` a lost process.
`persistOrderWithRetry` re-runs a transaction only when the order number it drew was taken; that insert comes
before `Finalize`, so the request merely stays where it is.

- `AtMostOneOrder`, `CompletedIffPlaced`: the key's promise.
- `Idempotent`: the protocol implements `CheckoutOnce`, in which one request places the order at once and the
  others are shown that order, if their cart is the same, or placed nothing. The requests under way are those with
  a `pc` before their answer (`Active`), the order of the key is the row's once COMPLETED (`Kept`), the orders are
  those committed (`Orders`); `Commit` is `Place`, the answers are `Replay`, `Defer`, `Mismatch` and `Break`, every
  other step a stutter. It implies `ShownOrdersAreReal` (nobody is answered with an order that rolled back or with
  another cart's) and `CompletedIsFinal` (no straggler reopens a completed key), which are theorems of their own.

### GatewayPayment

`charge` is the charge at the provider, which knows more than we do; `ledger` is the
`PaymentGatewayTransaction` row (`status`, `word` for providerStatus, `at` for providerStatusAt);
`event` the settlementState of each notification's `PaymentWebhookEvent`, notifications being identified
by the word they carry, as the fingerprint does; `attempt` how far `initiate` has come. `OpenAttempt`,
`CallProvider` / `ChargeErrors`, `MarkFailed` / `RecordResponse` are its database and provider calls.
`Deliver` is a notification that correlates; while the charge's order id is not yet recorded it
does not, is answered `unknown_transaction`, and is therefore no step at all. `Record`, `Lookup`,
`AskAnswered`, `PreRead`, `Transact` and `Mark` are the calls of a request, `Sweep` the beginning of a
candidate's reconciliation, which shares the middle of that path. `Conflict` is the ConflictException of
a lost compare-and-swap or a cancelled order, `CommitUnacknowledged` a commit whose answer was lost,
`MarkFails` the write of the conclusion failing inside the try whose catch writes another, `Crash` a
lost process or a failing call outside any try. The status API's answers are current when given and may
be outdated when used.

The payment, order and reservations are those of `OrderLife`, whose operations `Others` interleaves with
everything: `Serializable` of `OrderSettlement` is what allows settle, fail and expire to be single steps
here. The word "deny" stands for deny and failure, which are treated alike. The clocks are in hours
after the charge was opened: a notification's local time is read as UTC (`Stamp`), a settlement takes
the server's clock.

A delivery that is slower than another of the same notification may replace the conclusion the other has
written (`Mark` compares nothing, as in the code); the properties hold all the same.

- `LedgerAgrees`: the ledger row's end is the provider's, and the payment's end is the same one.
- `SettledMeansDone`: a notification marked SETTLED stands for a payment that ended so.
- `AckedMeansConcluded`: no notification of an end is answered 200 while the payment is undecided.
- `LedgerFinal`: an out-of-order or repeated callback never moves a terminal attempt.
- `Recovered`: the sweep alone decides the payment, with every notification lost.

### ShipmentBooking

`provider`, `status`, `awb` (trackingNumber), `stale` (updatedAt against `BOOKING_LEASE_MS`), `applied` (the time of the
last applied event in the metadata) and `slot` (whether the metadata have a pickup slot) are the row, `order` the order's status, `told` the customer's
notifications by status. `parcels`, `current` and `said` are the courier: what it has issued, what it knows,
what it has reported and may push again at any time; `cache` is the poller's Redis cache. Couriers differ in
whether the application books them (`ByHand`), whether they need a slot an operator has chosen (`Slotted`) and whether the
poller asks them (`Polled`). `Attempt` is a `createForOrder` that has read the row and was not turned back with
AWAITING_MANUAL_FULFILMENT or AWAITING_PICKUP_SCHEDULE (`Bookable`; those returns change nothing), `Reconcile` the same by
the worker, `Claim` the compare-and-swap to PENDING and `ClaimLost` its loss, `CourierBooks` / `AnswerLost` / `CourierRefuses` the call outside any
transaction, `WriteBack` the update by id with the order's transition, `MarkFailed` the catch, which
takes no account of the claim and may hit another's; it writes back the metadata it has read (`kept`), so that a slot
recorded in between is lost. `PrepareReads` / `PrepareRecords` merge the operator's pickup
slot into metadata read earlier, under no lock. `PollReads`, `PollAsks`, `PollApplies` are a poll, whose
transition applies only if the status is still the one read; `Webhook` runs under the row's lock with the
transition rule (`Decide`) on the committed row; `CancelReads`, `CourierCancels`, `CancelRecords` are
`cancelForShipment`.

- `BookedOnceUndisturbed`: one parcel, unless a lease ran out under a live booking, an answer or a write-back
  was lost, or another caller's error handler took the claim away.
- `ToldOnce`: no status is told twice, with the poller, repeated webhooks and the cancellation racing.
- `ForwardOnly`: reports never move a shipment back nor out of a terminal status, and a dated one never
  applies after a newer one.
- `EventuallyAttempted`: where the reconciliation worker runs, a shipment that waits for nobody (`Bookable`) is booked, or
  FAILED for an admin to see, whatever claims were left behind. One that is booked by hand or has no slot is never
  claimed, and the worker passes it over each time.
- `EventuallyTracked`: where the tracking worker runs, a shipment whose courier is polled catches up with its parcel
  without any webhook. One whose courier is not polled (JNE by default) has only the webhooks.

### NotifyOnce, NotificationPipeline

`place` and `deaths` are the broker: where each copy of an event lies (main, held by a delivery, retry, dlq)
and what `countDeaths` makes of its `x-death` header, which is two for a round trip: the rejection from the main queue
and the expiry in the retry queue. The consumer's `maxAttempts` is therefore spent twice as fast as its name says, and
a count may end one above it. `consuming`, `paused` and `timer` are a consumer's channel and the
flags of `pauseForInfra` and reconnection; `doing`, `event`, `copy` a handler per delivery. A handler whose channel
has closed keeps running and can acknowledge nothing (`copy` is `Nobody`), beside the handler of the same
copy delivered again. `Look` is the `findUnique` on `ProcessedEvent`, `Write` the transaction with its
unique key. `Nack`, `Bury`, `Buried`, `BuryFails` are the retry queue and the confirmed hand-off to the dead-letter
queue. `fate`, `attempts`, `due`, `owner`, `leased` are the `NotificationOutbox` row; `Claim`, `ProviderTakes` /
`ProviderRefuses` / `ProviderFails`, `MarkSent` / `ScheduleRetry` / `MarkFailed` a sender's tick with its fenced
write-backs, `Resend` the operator's redrive. The two event consumers are built alike and are modelled once.

- `NeverLost`: until its notification is written, a copy of the event is somewhere it will come back from.
- `ExactlyOnce`: `NotifyOnce`, with the identity on `written` and `fate`: one row per event whatever is
  delivered twice, and no stale sender moves a row another has decided.
- `SentOnce`: the customer is written to twice only where the record of the first message was lost
  (`slipped`), which no design with an external provider excludes.
- `EventuallyTold`: the notification is decided or the event is in the dead-letter queue.

### Inventory

Several orders, each with one transaction at a time, over the rows of `ProductInventory` and `Product`.
`Allocated` is the allocation as far as stock decides it, `FindRow` the unlocked look for the outlet's row,
`ReserveAtOutlet` the `FOR UPDATE` on it, `LockProduct` and `ReserveAtShop` the two locking reads of a product without
one. `Settle`, `Release` and `Expire` begin the other transactions, `ClaimReservation` their compare-and-swap,
`LockRow` the row they then lock, `Commit` and `Rollback` their ends. `AdjustStock` is the admin's upsert,
`ApproveReads` / `Approve` and `CompleteReads` / `ClaimTransfer` / `LockSource` / `MoveStock` the two operations on a
transfer. Rows may come into being under way (`present`), as in a shop that moves its stock into outlets;
`via` remembers the row a reservation was made on, `skewed` the rows that paid for one made elsewhere,
`lowered` those an admin has counted below what they promise.

- `Accounted`: `reserved` is the number of open reservations on the row.
- `NeverOversold`: no row promises more than it has.
- `OrderlyNeverEmbrace`: checkouts, which lock products in ascending order, expiries, approvals and completions of which
  at most one has come to its destination never wait in a circle, in whatever numbers. It says nothing of commits and
  releases: circles with the others do occur: two
  commits or releases (they lock in the order `findMany` returned), two opposite transfers, and, as TLC found,
  a commit of a single line against a checkout at the shop (the commit has claimed its reservation and waits for the
  product, the checkout has the product and waits for the reservations on it). PostgreSQL ends them by failing one (`Rollback`).
- `Serializable`: the interleaved transactions implement `StockBook`, in which each is one step: what was checked
  under a lock, or read with no lock at all, is still good when the transaction commits. `outlet` is mapped to
  `PlacedAt`, the outlet of the orders that have committed, the other variables to themselves.
- `MovesAreApproved`: every move of a transfer's stock uses up an approval. It holds for any number of admins; that
  one transfer is moved once (`TransferMovesOnce`) does not, since it can be approved again (`transfer_twice`).

## Runs

| Run | Instance | Shows |
|---|---|---|
| `outbox_safety` | 2 relays, 2 rows, 5 tokens, batch 2, 2 attempts; symmetric relays | the invariant and the refinement; 620,959 states |
| `outbox_liveness` | 1 relay, 2 rows, 4 tokens, `FairSpec` | `EventuallySettled`; 6,739 states |
| `order` | 2 transactions, one outlet item, one legacy item, `FairSpec` | five safety properties, the refinement, `EventuallyDecided`, `HoldsEnd`; 41,072 states |
| `restock_bypassed` | 1 transaction, the same items | violation of `CancelledIsRestocked`, see below |
| `checkout_safety` | 3 interchangeable requests and one with another cart | two invariants and the refinement; 569,714 states |
| `gateway_safety` | 2 processes, closing deny, clock {2}, no items; symmetric | four safety properties; 1,363,957 states |
| `gateway_recovery` | 1 process, 1 item, closings deny and expire, `FairSpec` | `Recovered`; 131,299 states |
| `shipment` | 2 processes, 2 parcels, 2 reports of IN_TRANSIT or CANCELLED, a courier with slots that is polled or one without that is not, `FairSpec` | three safety and two liveness properties; 296,418 states |
| `notify_safety` | 1 event in 2 copies, 2 handlers, 2 senders, 1 death, 2 attempts, 2 sends; symmetric | two invariants and the refinement; 1.1 million states |
| `notify_liveness` | the same with 1 handler and 1 sender, `FairSpec` | `EventuallyTold`; 49,000 states |
| `inventory` | 2 orders of the same 2 products, 2 outlets, 1 transfer, 1 admin, 1 unit per row; symmetric orders | three invariants and the refinement, no deadlock; 294,442 states |
| `transfer_twice` | the same with 2 admins and 2 units | violation of `TransferMovesOnce`, see below |

Every passing run also checks the module's `TypeOK`, except the liveness runs that have a safety run beside them.

Bounds. Two relays and two rows give every takeover: a stale owner, the new one, and the row before or
after in a batch; a third relay only repeats the second's part. Tokens bound the claims in flight, not
their number, since a token no row or relay carries can be drawn again; five are one more than two
rows and two relays can hold. Two attempts are the smallest budget with a retry in it. Two transactions
of an order race, and meet what earlier ones left, since a transaction that is over begins anew; with three, symmetric, the
safety properties hold in 110,068 states, and the proofs are for any number; two items distinguish the two ways of booking and a
loop that is half done. Three attempts of a checkout are an owner, one that supersedes it and one that
supersedes that one. Two processes
at the gateway are any two of webhook, redelivery and sweep racing each other; a third only repeats one of
them. The reservations move with payment and order in `OrderLife` and no property of the gateway reads
them, so the larger run has none. Of the closings deny does the
most: it may come at once with the charge or later; expire only maps to another end, and is in the smaller
run. A settlement two hours after the charge is enough for the two clocks to
disagree (any clock below seven hours does, none above).

Two processes at a shipment are a booking and what it races: another booking that takes its claim over, a
poll, a cancellation, a slot being written. Two parcels are the double booking; two reports are one and a newer
or repeated one. The vocabulary has a step forward and an interruption, the two cases `Decide` tells
apart; two steps forward are CREATED, which every booking has, and IN_TRANSIT. The proofs cover all words. For
notifications, two copies are an event published twice or one buried and redriven while a ghost handler still works on
it; a burial needs a free copy for the DLQ, so the bound excludes one while another copy of the same
event is about (the proof is for any number of copies). One death and two attempts are the smallest
counts with a retry. Two orders over the same two products in one unit per outlet race for every last unit;
`Migrations` starts without any outlet row, or with three of the four, so that products are found at the
outlet, at the shop, and, when `AdjustStock` or a transfer creates the missing row, first at one and then at the
other. Counts of 0 and 2 are below and above the one unit. Two admins are only needed to race on a transfer's status, which
`transfer_twice` does.

All state spaces are finite without further bounds: fence tokens are bounded by
the number of requests.

`CHECK_DEADLOCK FALSE`: the outbox stops when its rows are deleted, an order when it is over and its
payment decided, a key when all its requests are answered, a charge when it and its payment are over, a shipment when
it has arrived, a notification when it is sent. `inventory` checks for deadlock: admins may always count again.

## Fairness

- Outbox: time passes (`LeaseExpires`, `BecomesDue`), `runTick` reschedules itself in its `finally`, and
  a publish ends in a confirm or an error. A relay that gets to a row again and again does not lose its lease
  before every single write-back (30 s of lease against one publish): strong fairness of the owned
  write-back. Without it a row could be published for ever and never marked.
- Orders: the lifecycle and reservation workers sweep again and again, and PostgreSQL grants a row lock
  that keeps coming free: strong fairness of the beginnings and of the steps. No fairness is assumed of
  customers, admins, couriers or the gateway. `EventuallyDecided` is about payments with a window:
  cash on delivery has none and is settled by hand. That every due payment is among the rows a sweep
  takes is part of the assumption.
- Gateway: the reconciliation worker reschedules itself after each tick, and a request that does not die runs
  on: strong fairness of `Sweep` and `Step`. Nothing is assumed of the provider, of notifications, or of any
  other caller. `Recovered` says what holds where the worker runs: it is off by default
  (`MIDTRANS_RECONCILIATION_ENABLED`), and that the charge is among the oldest batch of a sweep is part of
  the assumption.

- Shipments: where they are enabled, the reconciliation and tracking workers tick for ever, and a row that they select
  again and again is in the end taken: strong fairness of `Reconcile` and `PollReads`, which select what the workers
  do: `Reconcile` a row that is `Claimable`, not FAILED and `Bookable`, `PollReads` a row whose courier is polled. Both are off
  by default (`SHIPMENT_RECONCILIATION_ENABLED`, `SHIPMENT_TRACKING_ENABLED`), and the two properties say what holds where
  they run. A JNE shipment is polled only with `JNE_TRACKING_POLL_ENABLED=true`; without it, its webhooks lost, it stays
  where it is. A Paxel shipment is claimed only once an operator has recorded a slot, unless
  `PAXEL_AUTO_PICKUP_ENABLED` has one chosen (`Slotted` is then empty). That a row is among the oldest batch is part of the
  assumption, and not a light one: rows that wait for a slot stay in the batch (a hazard of its own). A process that does not die
  goes on (`BookingStep`, `PrepareRecords`, the poll, the cancellation), leases and cache entries run out. Nothing is
  assumed of webhooks, admins or operators. `Disturbance` is what must stop: errors, deaths, operators' new
  requests, new slots among them.
- Notifications: queues are served (strong: a paused consumer delivers again after each pause), timers, TTLs,
  leases and back-offs run out, handlers and senders that do not die go on. A delivery left
  unacknowledged on an open channel (`BuryFails`) comes back when the broker closes the channel, by its
  acknowledgement timeout: `Orphaned /\ ChannelCloses`. Nothing else in the code brings it back.

## Proofs

The theorems hold for every value of the constants under each module's `ConstantsAssumption`, which TLC
also evaluates on every run. Each is proved from an inductive invariant `IInv` with one step per action.

- `OutboxRelayProofs`: `OutboxTypes`, `OutboxNeverLoses`, `PublishedStaysPublished`, `AttemptsSpentExactly`,
  `RelayKeepsTheLog`. `NeverLost`
  alone is not inductive. Needed: a locked row is pending (`LockedIsPending`), no two ticks share a token
  (`TokensDistinct`), what an owner loaded is still in the table (`SnapshotFresh`), a pending row has
  budget left (`Budget`), and a confirmed row was accepted (`ConfirmedAccepted`). The refinement also needs that
  batches hold rows of the table (`BatchesExist`); it maps the owned write-backs to `Publish` and `Spend`, and
  those that find the lease gone to a stutter.
- `OrderSettlementProofs`: `SettlementTypes`, `BooksAreKept`, `CancelledOrderHoldsNothing`, `EventsWrittenOnce`,
  `UnpaidOrdersEnd`, `PaymentEndsOnce`, `NoPaidCancelledOrder`,
  `OrderKeepsToItsTransitions`, `NoDeadlock`, `SettlementIsAtomic`. `CancelledOrderHoldsNothing` is about orders
  that `cancelAndRestock` has cancelled. The invariant says for each
  transaction at which statement it is (`Phase`), what it may still claim (`Claims`), which locks that
  implies (`LockShape`) and which guards the locks keep true until it commits (`GuardsHold`). The
  deadlock proof ranks transactions by the kind of row they wait for. The refinement maps `Commit` to one
  step of `OrderLife` and every other transactional step to a stutter.
- `CheckoutKeyProofs`: `CheckoutTypes`, `OneOrderPerKey`, `CompletedMeansPlaced`, `AnswersAreReal`,
  `CompletedStaysCompleted`, `KeyIsIdempotent`. The invariant adds that an open
  finalize holds the row's lock and still owns it, that a reservation identity is used once, and that a
  record in hand for the present row never has a later token than the row. For the refinement: a request has been
  answered exactly when it is over (`AnsweredAtEnd`), one whose order was placed is answered or about to be told of
  an error (`PlacedAtEnd`), and the row's fingerprint is that of the request it names (`RowPrinted`).
- `GatewayPaymentProofs`: `GatewayTypes`, `LedgerAgreesWithPayment`, `SettledIsCarriedOut`, `NoNewsLost`,
  `AttemptEndsOnce`, `MoneyIsKept`. A process acts on what it read some steps ago, so the invariant says why that is still
  true: a final word of the provider never changes (`Stages`), a process that holds one holds the charge's
  (`Holds`), what it is about to conclude has happened, and a payment once decided stays so (`Closed`, from
  `OrderLife`'s transitions). `MoneyIsKept`, that a settled attempt has a paid payment, follows once it is known
  that no charge is paid at once and that a failed attempt has no other end (`PaidLater`).

- `ShipmentBookingProofs`: `ShipmentTypes`, `UndisturbedBooksOnce`, `EachStatusToldOnce`, `ReportsMoveForward`. `OneClaim` says
  that while nothing was disturbed one booking is in flight, holds a fresh PENDING, and what it has been issued is
  the only parcel; `OneStory` that while there is one parcel, whatever was told lies behind the status. The
  stale readers are bounded by `About`: a poll acts on a pollable status it has read, and its transition compares it.
- `NotificationPipelineProofs`: `NotificationTypes`, `EventsNotLost`, `UnslippedSentOnce`, `PipelineImplementsOnce`. The
  invariant says that ledger and row were written together (`Ledger`), that a claimed row is PENDING with attempts
  left (`Claims`), that a held copy belongs to one handler (`Deliveries`), that an event not yet processed has a copy
  beside those a handler is about to drop for the one in the DLQ (`Kept`), and that while nothing slipped the
  sender at work owns the row (`Recorded`). The refinement maps `Write`, the fenced write-backs and `Resend` to
  steps of `NotifyOnce`, everything else to a stutter.
- `InventoryProofs`: `InventoryTypes`, `HoldsAccounted`, `NothingOversold`, `OneMovePerApproval`, for any number of
  orders, outlets, products and admins. `Phase` and `Claims` say what a transaction's locks keep as it was read;
  `Roomy` that a row locked with enough of it still has enough when the transaction commits; `Origins` that a
  reservation lies on a row its order was sent to.
- `StockBookProofs`: `NobodyDeadlocks`, `TransactionsSerialize`. `BookInv` adds to the invariant to whom each lock
  belongs (`LocksOf`, `LocksOfAdmins`), that a transaction has done, or still has to do, exactly the products it set out
  for (`Complete`), and that the unit it found free stays free until it commits (`StaysFree`). With it `Commit` is the one step `Reserve`, `Pay`, `GiveBack` or `Expire` on the rows
  locked, although the outlet's row was looked for without a lock and may have come into being since. For the
  deadlock, whoever waits waits for somebody with a greater rank: a checkout for one that has come to a later product,
  an expiry for what locked its reservation or row, a transfer at its destination for no other of its kind. Ranks are
  bounded, so a set of waiting transactions has one that waits for none of the others.

Only model-checked: the liveness properties (`EventuallySettled`, `EventuallyDecided`, `HoldsEnd`, `Recovered`,
`EventuallyAttempted`, `EventuallyTracked`, `EventuallyTold`), since fairness is out of the prover's reach, and
`TransferMovesOnce` and `CancelledIsRestocked`, which TLC refutes. `MovesAreApproved` says nothing with one admin, and with two the
state space (2.6 million states) is too large for a run beside the refinement: TLC has checked it once, the theorem
stands for it. `AtMostOneOrder`, `Serializable` and the others are proved for any number of
processes; the sizes of the runs matter to the mutants and to liveness only.

## Where code and comments differ

Checked by a run:

- `stock-transfer.service.ts:131` refuses to approve a transfer that is not REQUESTED, but reads it outside the
  transaction in which `approveTransfer` (line 133) writes by id. The completion is a compare-and-swap ("concurrent completions
  of the SAME transfer can't both move stock", lines 144-145), which cannot help: an approval that is late sets a COMPLETED transfer back to APPROVED and it is completed, and its stock moved,
  again (`transfer_twice`).
- `order-cancellation.service.ts:6-7` ("Single source of truth for cancelling an order and restoring its reserved stock"):
  a courier's cancellation sets the order CANCELLED by a compare-and-swap of its own (`shipment-sync.service.ts:287-297`) and
  restocks nothing, so the stock of an order that was settled stays deducted (`restock_bypassed`; its shortest trace has the
  report come while the order is PROCESSING, and it is the same from SHIPPED). `cancelForShipment` leaves the order alone by its
  comment; the courier's own report of the cancellation then takes this way.

Met while modelling, and told here without a run:

- `outbox-relay.worker.ts:19`: two relays may work on one row once a lease has run out. The fence keeps the
  table right; the broker sees the message twice.
- `payment-settlement.service.ts:78-82`: an expired hold does not stop the settlement; `commitForOrder` passes over it
  and the order is paid with no stock deducted.
- `idempotency.service.ts:149-153`: the re-read that ends `claim` can adopt a later owner's token, and that
  request's `markFailed` then fails the later owner's reservation. `AtMostOneOrder` survives, since the token
  still admits one completion.
- `midtrans-webhook-fingerprint.util.ts:77-83`: providerStatusAt holds times of two clocks, so a stale
  `pending` can replace `settlement` in the snapshot. The status is not affected (`LedgerFinal`).
- `payment-webhook.service.ts:231-232`: a payment may expire while the status API is out; its settlement is
  then closed as NOT_ELIGIBLE, and the charge is no candidate of the sweep any more.
- `shipment.service.ts:194-198` promises no duplicate bookings: true as far as `BookedOnceUndisturbed`. A courier that
  books and answers late, or an error of another caller before its own claim, leads to a second parcel.
- `shipment.service.ts:428-457`: the catch marks FAILED whoever holds the claim; it and `prepareForOrder`
  write metadata they have read without the row's lock, though the webhook services speak of every metadata
  writer being serialized. A late slot erases the time of the last applied event, so that an older report is
  no longer refused for its age (its rank still is), and renews `updatedAt`, which postpones the takeover of a stranded claim.
- `shipment.service.ts:434-436` merges the metadata so that a failure does not lose the pickup slot; the merge is of
  what it has read a statement before, so a slot recorded in between is lost all the same (`MarkFailed`), and the shipment
  waits for an operator to choose one again.
- `payment-settlement.service.ts:166-167` calls the update of the ledger row guarded by a compare-and-swap; it is by id, and it
  is the payment's compare-and-swap before it, in the same transaction, that keeps it right (`LedgerAgrees`).
- A consumer's `start()` after a reconnection does not reset `paused`: the first infrastructure error after it is
  requeued without a pause (`InfraFails` with `paused`), again and again while the outage lasts.
- `ProcessedEvent` rows are deleted by retention: an event redriven from the dead-letter queue later than that is
  enqueued a second time.

## Not modelled

Prices, texts, payloads and logs. The pre-reservation restock of `order-cancellation.service.ts` (orders
older than reservations). In `OrderSettlement`, a `ProductInventory` row appearing after an order reserved on `Product.stock`
(`OutletItem` is fixed there; `Inventory` has it). COD and QRIS specifics. Of the gateway: signatures and
the disabled gateway (nothing changes state there), refunds, card states, fees and the instructions shown;
a second attempt of a payment, since `initiate` is called once, by the checkout.

Of shipments: the airwaybill an admin records for a shipment booked by hand and other editing and deletion of a shipment, `pollAndUpdate` (no caller),
the automatic pickup scheduler and JNE's recorded slot (they merge metadata and renew `updatedAt` as `prepareForOrder` does, in a narrower window), words the
mapper maps to UNKNOWN, which change nothing. Of notifications: events without a recipient or that cannot be
parsed, and the circuit breaker, which only delays a tick. The admin notification consumer marks `ProcessedEvent` before it
notifies, so a failed dispatch is a duplicate when it is delivered again: at most once by construction. Of stock: the `available` column,
which the code writes and no decision of a reservation reads (`adjustStock`, and `completeTransfer` at the destination, compute it from unlocked reads, so it can
be wrong until the next write); `requestTransfer` (transfers begin REQUESTED); quantities (every line is one unit); the
admin's editing of `Product.stock`; allocation without an active outlet. Deadlocks among commits, releases and
transfers are PostgreSQL's to break and appear as `Rollback` and `AdminFails`.

The map covers a small share of the repository's lines because most of them are the web front ends, a site template, tests'
helpers, imports and single-row services, which have no protocol to model. The other components are listed with their reasons in
`PROJECT.json`.

## Plan

Done, in this order because everything else hands its results to them: `OutboxRelay`; `OrderDomain`,
`OrderLife`, `OrderSettlement`; `CheckoutKey`; `GatewayPayment`; `NotificationPipeline` with `NotifyOnce`;
`ShipmentBooking`; `Inventory`; their proofs. What is left that has a protocol of its own, each a small module, besides one composition:

1. End to end: `EventLog` in front of `NotificationPipeline`, so that `PublishedAgain` is the relay's own step and an
   event is followed from its table to its notification.
2. `Vouchers` and unique codes: counters read and then raised by concurrent checkouts.

The suite is kept at a dozen runs: a new component shares one run for safety and liveness, where its size allows,
as `shipment` does.
