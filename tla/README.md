# PrintForge in TLA+

PrintForge is a multi-tenant shop platform: a NestJS backend over PostgreSQL
(Prisma) and a React storefront. This directory models the parts of the backend
in which several handlers, cron ticks and outside services act on the same rows.
The modules are checked with TLC on small instances, and theorems about each of
them are proved with TLAPS for every size.

## 1. The system

All paths are under `src/backend/src` unless they start with `src/`.

| component | state | operations | talks to |
|---|---|---|---|
| payments (`payments/payments.service.ts`) | `orders.status`, `orders.razorpayOrderId`, `payment_attempts` | initiate, verify (browser callback), apply webhook, reconcile, expire | Razorpay, outbox, orders |
| webhook inbox (`payments/webhooks/`) | `webhook_events` | receive (`ON CONFLICT DO NOTHING`), cron every 30 s, retry 6 times, dead letter | payments, refunds |
| reconciliation (`payments/payment-reconciliation.service.ts`) | none of its own | cron every 5 min: ask Razorpay, settle or expire pending orders | Razorpay, payments |
| refunds (`payments/refunds/`) | `refunds` | reserve under a row lock, call the provider, settle or fail; webhooks complete | Razorpay, webhook inbox |
| orders (`orders/`) | `orders.status`, history | customer and staff cancellation, staff transitions, REFUNDED recorded | refunds, outbox |
| outbox (`notifications/outbox/`) | `outbox_events` | enqueue in a caller's transaction; cron claims, mails, retries 5 times | Resend |
| checkout (`checkout/`) | `orders`, `idempotency_keys`, the order number | one transaction under the cart's lock; repeats by key | cart, coupons, usage limits, subscriptions |
| cart, coupons (`cart/`, `coupons/`) | `cart_items`; `usedCount`, limits, `coupon_usages` | add, change, remove; validate and claim inside checkout, edit | checkout |
| payment accounts (`payments/payment-accounts/`) | account per store, credentials | create, connect, disable, resolve for a store or for an order's past | payments, refunds |
| subscriptions (`subscriptions/`) | `subscriptions`, `billing_webhook_events` | provider-first create, upgrade, downgrade, cancel; webhooks; three crons | billing provider, plans |
| usage and limits (`usage/`, `limits/`, `entitlements/`) | counters per tenant and key | reserve and release inside a caller's transaction | checkout, products, team |
| auth (`auth/`) | `refresh_tokens`, `tokenVersion` | login, rotate, reuse detection, logout(-all) | users |
| team (`team/`) | `tenant_memberships` | invite, change role, suspend | limits, auth |
| store domains (`store-domains/`, `common/tenant/store-domain-resolution/`) | `store_domains`, an in-process cache | add, verify, set primary, remove, refresh TLS; cached lookups | DNS, hosting provider |
| tenant guards, support sessions, platform, catalogue, invoices, uploads, settings | their tables | CRUD | - |

PostgreSQL runs at READ COMMITTED. What makes the system hard is that most
handlers read a row, call out or start a transaction later, and only then act
on what they read; what keeps them apart is a small set of devices:
compare-and-swap updates (`WHERE id = ... AND status = <as read>`), partial
unique indexes, `SELECT ... FOR UPDATE`, and idempotency keys. Webhooks are
repeated, late, out of order or lost; ticks overlap; processes die between two
statements. `PROJECT.json` lists the hazards at their lines, with the properties
that cover them, and every component, the ones left out included.

## 2. The modules

| module | models | correspondence |
|---|---|---|
| `OrderLifecycle` | `order-state-machine.ts` | the transition table and `isTransitionAllowed` |
| `OrderLedger` | abstract | what payments promise the shop: per order a status, whether money is taken, whether the customer was told; `Pay`, `TakeLate`, `Move` |
| `Payments` | payments, webhook inbox, reconciliation, the staff's moves | see below |
| `PaymentsProofs`, `PaymentsLedgerProofs` | - | theorems about `Payments` |
| `RefundBook` | abstract | what the refund services promise the shop's accounts: a book whose entries are made and settled in single steps, those of the app only where there is room for them |
| `Refunds` | refunds, refund webhooks, cancellation and recorded refunds | an order has one captured attempt, as `PaidOnce` proves of `Payments`, or none yet, if the staff have set it to PAID |
| `MailQueue` | abstract | what the outbox promises whoever announces something: a queue of mails owed, each mailed at most once an attempt and again only for something lost, concluded once mailed |
| `Outbox` | outbox poller and mail service | one worker per `processOne` |
| `OneShotCheckout` | abstract | what checkout promises: an order is placed at one moment, from all that is in the cart then |
| `Checkout` | checkout, cart items, one coupon, idempotency keys, order numbers, the reservation of orders per month | its orders are the ones that `Payments` starts from |
| `Subscriptions` | the tenant's subscription: service, orchestration, crons, billing webhooks | the billing provider's side is external; its moves of the plan are `PlanChanges` of `TenantUsage`, its renewals `Renew` of `Checkout` |
| `TenantUsage` | team membership, limits and their resolution, usage counters, their reconciliation, plan limits and overrides | what counts against a limit and what the counter says |
| `StoreDomains` | store domains of merchants and platform, the hosting provider, the lookup cache | the process's cache against the table |
| `OutboxProofs`, `RefundsProofs`, `CheckoutProofs`, `SubscriptionsProofs`, `TenantUsageProofs`, `StoreDomainsProofs` | - | theorems about the module each is named for |
| `MCPayments`, `MCRefunds`, `MCCheckout`, `MCSubscriptions`, `MCTenantUsage`, `MCStoreDomains` | - | symmetry, and the values of constants a configuration cannot write |

In every module a *worker* is one handler or cron tick in flight and `session[w]`
is what it holds between steps. A handler is cut exactly where it has read
something it acts on later: before its transaction (`VerifyRead`, `VerifyLookup`,
`CancelRead`), inside it where READ COMMITTED lets others commit in between
(`VerifyFind`, `WebhookTarget`), around a provider call (`CallProvider`,
`Send`), and after a rollback (`WebhookReport`, `ReportMiss`). The last step is
the transaction's writes with their `WHERE` clauses evaluated on the rows of
that moment. `FOR UPDATE` shows as a guard (`Processing`, `Locked`), a unique
index as a test whose failure rolls everything back (`PaymentIdTaken`,
`CapturedElsewhere`, `Announced`). `Abandon` and `Crash` end a session at any
step.

`Payments`, action by action: `InitiateRead`, `InitiateAssociate` and
`InitiateOpen` are `initiatePayment` (status retry; create and bind a Razorpay
order; insert the attempt). `VerifyRead` to `VerifyCommit`/`VerifyRollback` are
`verifyPayment`. `ReceiveWebhook` stores an event; `WebhookRead`,
`WebhookTarget`, `WebhookCommit`, `WebhookRollback`, `WebhookReport` are
`processOne` with `findOrCreateAttempt`, `applyCaptured`, `applyFailed` and
`safeUpdate` (the merchant variants differ only in the account they check).
`WebhookMiss` is a transaction that fails before it has read the event, whose attempts
are then counted from 0. `ReconcileRead`, `ReconcileSettle`, `ReconcileExpire` are the
cron with `reconcileCapturedPayment` and `failStalePendingOrder`: it asks Razorpay
about the `BATCH_SIZE` oldest candidates that are not older than seven days
(`InBatch`; `GrowOld` lets an order pass that age, the oldest first), acts on the first
captured payment it is told of, and leaves an order alone, at every run, if that one
does not match it; orders that never got a Razorpay order only expire.
`AdminTransition` is the
staff's part of `OrdersService`. `CustomerPays`, `ProviderCaptures` and
`Emitted` are Razorpay, modelled from how the code uses it: signatures verify, a
captured payment stays captured, events may be lost, late or repeated.

`Refunds`: `RefundLock`/`RefundInsert` are phase 1 of `createRefund` under the
attempt's row lock, `CallProvider` phase 2 (no effect, effect with a lost answer,
answer), `SettleRefund` and `MarkFailed` its compare-and-swaps;
`ApplyRefundWebhook`, `MissRefund`, `ReportMiss` are `applyRefundWebhookEvent`
and what the webhook inbox makes of its error; `CancelRead`/`CancelLookup`/`CancelCommit`
and `RecordRead`/`RecordCommit` are `performCancellation` and
`performRefundRecording`, both of which write refunds before their
compare-and-swap on the order. A cancellation looks for the captured attempt before
its transaction and owes a refund only if it has found one; `PaymentCaptured` is a
webhook that captures the payment of an order meanwhile. `captured` holds the orders
with a captured attempt; `missed`, kept for the property, those cancelled by one who
had looked in vain.

`Outbox`: `Claim`, then `Send`, `Skip` or `Reject`, then `MarkSent` or
`MarkFailedOrRetry`; where the lookup of the recipient or the update of `Reject` fails,
`RejectFails` leads to `MarkFailedOrRetry` too. `Crash` is a claimer that dies, or whose
last update fails; `died` holds the rows it leaves. In `MailQueue` a row is *owed* while
it is PENDING or PROCESSING, so that claims and crashes do not show; a row left in
PROCESSING is owed for ever.

`Checkout`: the transaction is cut at its waits. `LockCart` takes the cart,
`Claim` the idempotency key (and reads the items), `ValidateCoupon` counts the
customer's uses, `ClaimCoupon` takes the coupon, `TakeNumber` the order number
(and reads the billing period), `Commit` reserves and writes. Rows written by an
open transaction are not seen by others but keep them waiting: `CartLocked`,
`KeyLocked`, `CouponLocked` and `NumberLocked` say which step of a session holds
which row, and the writes show at `Commit`. `Repeat` is the fast path, `Replay` a
claim that finds the key committed, `Abandon` every rollback and `Refused` those
that the code's own tests force. `AddItem`, `RemoveItem`, `UpdateCoupon` and
`Renew` go on meanwhile. Prices, tax, shipping, dates and scopes of coupons are
data; changing a quantity, which like removing takes no lock, is left out.

`Subscriptions`: `Create`, `CreateAtProvider`, `createPendingSubscription` and
`confirmActivation` are the provider-first creation; the provider's acceptance counts
(`granted`) from the call on, whatever becomes of the request. `Request` claims an
Idempotency-Key (or finds it claimed and answers with the row as it is), `CallProvider`
calls (effect, refusal, or a timeout with or without effect), `ReconcileTimeout` is the
question asked after a timeout, `ApplyRequest` the service method. `Reconcile`,
`ReadPeriod`, `ApplyDowngrade`, `Downgraded`, `StopBilling`, `Stopped` and `Renew` are
the hourly reconciliation, `FindOverdue` and `EndOverdue` the two deadline crons,
`ProcessEvent` and `FinishEvent` one webhook event. A transaction that fails, before the
event is read (`MissEvent`) or after, is rolled back first and recorded later
(`RecordFailure`), by id and so on whatever the event has become. Every service method
tests its move on the row its caller once *read* and then updates the row if the status
still is as read: nothing but that swap makes the two agree. Periods are numbers;
whether an event's timestamp is newer than the row's `updatedAt` is a flag (`fresh`)
that every write of the row takes away.

`TenantUsage`: `inviteMember`, `updateRole`, `suspendMember` and `Create` (a
product, an upload); `resolveEffectivePlanId`, `resolvePlanLimits` and
`applyOverrides` are the three reads that resolve a limit, `reserve` the conditional
increment with the rows it is for, in one transaction; `CountRows` and
`upsertUsage` reconcile a counter.

`StoreDomains`: `Add`, `StartCheck`/`FinishCheck` (verify and reverify around the
DNS lookup), `revoke`, `override`, `FindPrimary`/`ReplacePrimary`/`SetPrimary`,
`PlanRemoval`/`Detach`/`Delete`, `StartRefresh`/`AskStatus`/`WriteTls`,
`Attach`. After its commit a request still has to `Bust` the cache, and a lookup
reads (`ReadRow`) before it stores (`StoreRow`). `setPrimary` writes and lists the
hosts to bust (`ReplacePrimary`) before it commits (`SetPrimary`), and `remove` lists
them when it is planned: what the store gets in between is not busted. The rows
`setPrimary` has written are locked until then (`Held`), and another primary of that
store waits to know whether there is one (`Replacing`). Locks are taken in one step, so
transactions that PostgreSQL aborts for a deadlock do not occur. `missed` marks, for
the property, an entry or a lookup that a bust came too early for or was not meant for.

Abstractions, the same everywhere: times (ages, back-off) become "at any later
moment"; tenants, accounts, credentials, audit rows, history and wording are left
out; amounts are left out of `Payments` but for "matches the order or not"
(`Mismatched`), and are small numbers in `Refunds`.

## 3. The runs

| run | instance | shows |
|---|---|---|
| `payments` | 1 order, 2 payments (one of a wrong amount), 2 Razorpay orders, 2 workers, 2 widgets, retry budget 2, a staff move to PAID; 1.3 million states | the safety properties below |
| `payments_live` | 2 orders of different age in batches of 1, 1 payment, 2 Razorpay orders, 1 worker, one aborted transaction | liveness |
| `refunds` | 1 order, its payment of 2 units captured at the start, later or never, 2 refund rows, 2 provider refunds, 2 workers; 1.7 million states | the safety of refunds |
| `refunds_timeout` | 2 refund rows | violation, section 6 |
| `outbox` | 4 rows (2 with a mail, one without, one without recipient), 2 workers, budget 2, 2 lost answers, 1 crash | safety and liveness |
| `checkout` | 2 customers, 3 items, 3 keys (one sent by both), 2 workers, a coupon with limit 1 or 2 and one use per customer, 2 orders in each of 2 billing periods; 234 thousand states | safety and liveness |
| `subscriptions` | 2 plans, 2 keys, 3 billing periods, 1 webhook event, 2 workers, 1 fault (a lost answer, a failed query or a dead process) | the safety of subscriptions |
| `subscriptions_missed_cancellation` | 1 plan, 2 periods, 1 event, 1 worker, no fault | violation |
| `usage` | a team of 2, 1 resource up to 2, 2 plans, 2 changes of plan, limits or overrides, 2 workers | the safety of limits and counters |
| `domains` | 1 store with its subdomain, 2 custom domains, 2 hostnames, 2 workers | the safety of domains and cache |
| `domains_live` | 1 hostname | liveness |
| `domains_without_primary` | 1 custom domain | violation |

Payments, safety: `PaidIsCapturedOnce` (an order that is paid, but not by the
staff's hand, has exactly one captured attempt), `ReceiptIffCaptured` (ORDER_PAID
is queued for money and only for money), `AttemptsOnBoundOrder` (no attempt or
payment sits on an orphaned Razorpay order), `ProcessedCaptureIsRecorded` (a
capture event is never written off with nothing captured, unless its payment had
failed before, section 6),
`CapturedForGood`, and `KeepsLedger`: the whole refines `OrderLedger`. Liveness:
`EventsSettle` (every stored event is in the end processed or given up on) and
`CapturedMoneyIsFound`: an order whose money Razorpay has, and which is again and again
`Findable`, ends up with a captured attempt, although no callback and no webhook
arrives. Findable means that the order is pending and in the batch, and that no payment
taken for it is of a wrong amount or `Blocked` by an attempt newer than its own (section
6). An order that expires to
PAYMENT_FAILED with its money unrecorded is not findable from then on and does not
count as found either: expiry needs Razorpay to say that nothing was taken. In the
run nothing mismatches; the older order takes the only place of the batch until
it is paid, expires or is too old, and the younger waits for it.

Refunds: `InAppWithinCaptured` (concurrent requests never reserve more than was
captured), `AppliedMeansSettled` (an event that overtakes the answer it stems from is
not written off), `CancelledIsOwed` (a cancelled order's money is owed or returned,
unless it was captured after the cancellation had looked for it), and `KeepsBook`: the
whole refines `RefundBook`. The book tests for room when an entry is made, against
everything refunded or owed at that moment; the code tests when it reads the balance,
and what makes the two agree is that not only other requests but also a cancellation,
whose row refers to the locked attempt, waits until the insert. `RefundSettlesOnce` (no
answer, webhook or recording rewrites what another has settled) follows from it and is
stated for the proofs only. The book also shows what is not promised: a cancellation
enters the whole amount whatever was given back before, and does so even if it then
loses the order (section 6).

Outbox: `ClaimedByOne`, `DuplicatesHaveCauses` (a row is mailed again only after an
answer or an update was lost), `MailsWithinBudget`, `KeepsQueue`: the whole refines
`MailQueue`, and `OutboxSettles` for liveness: every pending row is sent or given up
on, unless it is left in PROCESSING by the very claimer that died; the death of one
claimer is no excuse for any other row. The queue mails a row only while it is
owed and looks at what was mailed, failed and lost in that very step; the poller knows
only what its claim returned. `SentWasAccepted` (SENT means accepted, or no mail to
send) follows and is stated for the proofs only.

Checkout: `OneOrderPerKey` (repeats, lost answers and a key of someone else),
`ItemOrderedOnce` (two tabs), `OrderNumbersRunOn` (no number twice and no gap,
whatever is rolled back), `CouponPerUser` (a plain count under the cart's lock),
`UsageCountsOrders` (reservations are orders, within the plan, when a renewal comes
in between), `PlacesAtOnce`, and `CheckoutEnds`: no order of locks makes checkouts
wait for each other. `PlacesAtOnce` says that `Checkout` refines `OneShotCheckout`,
in which an order is placed in one step, with the key unknown, the coupon available
and the plan not used up in that step, from everything that is then in the cart.
Each of these was looked at earlier and at different times; what makes them true
together is the locks, and for the cart that adding an item waits for the lock too.
Two things may be older than the order, and `Place` says so: items removed
meanwhile, and the billing period. `CouponUsedWithinLimit` (a use is within the
limit of that moment, with the staff changing it) follows and is stated for the
proofs only.

Subscriptions: `FollowsStateMachine` (the row itself only makes legal moves,
although each was tested on an earlier read), `PlanWasAccepted` (no plan is given or
promised that the provider has not accepted, and until a first fault a creation that
the provider has accepted is carried through by one of the requests racing for it),
`PeriodIsConfirmed` (late, repeated
and racing news never move the row back, nor ahead of the provider),
`KeyCallsOnce`.

Usage: `CounterStaysExact` (a counter that agrees with the rows goes on to, unless
a reconciliation was overtaken since it counted), `ReservedWithinLimit` (racing
requests never pass together every limit that was in force since they began; of two
changes while one request resolves, its three reads may mix what was never in
force together, so those are excepted).

Domains: `CacheIsCurrent` (the cache agrees with the table up to a bust under way
and the entries a bust has missed: a row read before a write and stored after its
bust, a host the store has got since `setPrimary` or `remove` listed its hosts; no
write forgets anything else of what it changes),
`PrimaryKept` (a store keeps a primary domain through every race but the one of
section 6), and, for liveness, `RevocationTakesEffect`: whatever is stored late, a
domain that stays revoked is in the end not served.

*Why the bounds are enough.* Conflicts are between two handlers over one order
or row: every race here needs two workers and two payments (or refunds) at most,
since each device (index, lock, swap) compares one row with one remembered value.
Orders share no rows, so one is enough, but for the reconciliation's batch, where
two compete for one place. A retry budget of 2 has a first, a
repeated and a last failure. Two refund rows allow two racing partial refunds, or one
and a cancellation. Two checkouts, of one customer or of two, are enough for every lock of
`Checkout`, and three items let one customer order twice beside another. Two
custom domains and the subdomain are three candidates for primary; three periods have
a first, a missed and a later boundary. The proofs do not depend on any bound.

`CHECK_DEADLOCK FALSE` is set where, with bounded payments, refunds, rows, events
and errors, everything may simply be over.

*Fairness.* `CronFairness` and `Outbox!FairSpec` say that the crons run for ever, so
that what they look for again and again is found (strong fairness, since other requests
may occupy the model's few workers, which are no limit of the server), that a handler in
flight goes on, and that its transaction is not killed every time. The cron is fair only
to orders in the batch that no taken payment of a wrong amount keeps from being looked
at further, and nothing says that an order gets into the batch before it is seven days
old. `Subscriptions!FairSpec` says the same of its reconciliation and events.
`StoreDomains!FairSpec` says that a cache entry's 15 seconds pass and a request in
flight goes on. `Checkout!FairSpec` says that a checkout others overtake again and again
gets its turn: PostgreSQL grants row locks in the order of the requests. Nothing is
assumed of customers, the staff, Razorpay, or webhook delivery.

## 4. What is proved

All of it holds for every value of the constants, from `ConstantsAssumption`,
`RefundConstants`, `OutboxConstants`, `CheckoutConstants`,
`SubscriptionConstants`, `TenantUsageConstants` and `StoreDomainConstants` only
(naturals, finite payments and users, an owner for every item, names of different
kinds are different, NULL is no id).

`PaymentsProofs` proves the inductive invariant `Inv` (`InvHolds`), and from it
`TypeCorrect`, `PaidOnce`, `ReceiptOnlyForMoney` and `NoOrphanIsPaid`. Typing alone
is not inductive and neither is any of the properties: a session acts on what it
read, so `Inv` says in `SessionsOK` what of a read is still true (a status read
may be stale, but a Razorpay order once bound stays bound, an attempt read still
exists and still is on its order), in `OwnMint` that a Razorpay order not yet
bound belongs to one session, in `Binding` and `RowsOK` how orders, attempts and
payments refer to each other, in `EventsEmitted` that stored events tell of
what happened, in `UniquePayment` and `UniqueCapture` what the two indexes keep,
and in `PaidHasCapture` and `ToldHasCapture` what a status and a queued receipt
imply. There is one preservation lemma per action.

`PaymentsLedgerProofs` uses `Inv` for the refinement (`ImplementsLedger`): a step
of `Payments` is a `Pay`, a `TakeLate`, a `Move` or a stutter of the ledger; the
compare-and-swap is what makes a stale read a `TakeLate` and never a second `Pay`.
`CaptureIsFinal` is the action property `CapturedForGood`. `NoCaptureIsWrittenOff`
(`ProcessedCaptureIsRecorded`) needs a second invariant beside `Inv`, `RecordInv`: only
what Razorpay reported is stored or handled, and an attempt that carries a payment
once authorized is captured (`AcceptedRows`), so that whatever unique index refuses
a capture, the row in its way is a captured one of the same order
(`RefusalIsRecorded`). It is proved with late authorizations too, for the payments
that are not late.

`OutboxProofs` proves `ClaimsExclude`, `DuplicatesExplained`, `BudgetKept` and
`SentAccepted` from one invariant that says what a claimed row looks like at each step
of its worker and how many mails a row can have had by then. `StrandedByDeath` says that
a row in PROCESSING is in the hands of a worker or was left by a claimer that died, so
that the exception of `OutboxSettles` is no wider than it reads. From the same invariant
`ImplementsQueue` proves the refinement `KeepsQueue`: a mail is a `Mail`, the closing
update a `Conclude`, a `Fail` or a `Refuse`, a lost one a `LoseUpdate`, and claims and
crashes are stutters.

`RefundsProofs` proves `SettlesOnce`, `EventsNotLost` and `MoneyStaysOwed`. Their
invariant says which rows a session in flight refers to (made by it, in the
app), that rows of cancellations never get a provider id, so that no webhook can
fail them, that what a cancellation found is captured, and that a handled event's
refund is settled. `WithinCaptured` and
`ImplementsBook` need a second invariant, `Balance`: one request per payment is past
the lock, what it is about to insert fits beside all that counts (`InsertFits`), and
a handler still knows that the move it has tested was legal (`Remembers`). The total
of the rows is not inductive without it: a request tests the balance one step before
it uses it up. Balances are sums, which the model writes as folds over sets. The
proofs unfold such a fold to the function it chooses, show by a least counterexample
that there is only one (`AddsUpOnce`), and that it counts units, one pair `<<row,
k>>` for each `k` below the row's amount (`SumIsCount`); sums are then compared as
cardinalities (`SumJoined`, `NoMore`). For the refinement there is one lemma per
action that writes a row: the insert is an `Ask`, a cancellation a `Cancel`, the
answer and the webhooks a `Settle` or nothing, a recording a `Record`.

`CheckoutProofs` proves all of `Checkout`'s safety (`KeysAreOnce`, `ItemsAreOnce`,
`NumbersRunOn`, `PerUserKept`, `UsageKept`, `CouponKept`). None of these is
inductive: each tests something early and writes late, so the invariant says
that two sessions never hold the same lock (`Apart`), and that what a session
has read (`ItemsHeld`) or tested (`TestsHold`) is still so, which is what the
locks are for. `MoveInv` covers the steps that only take a lock; the commit has a
lemma per part of the invariant. `ChecksOutAtOnce` proves the refinement
`PlacesAtOnce`. It adds `ShopInv`: a cart that a session has read holds nothing that
the session has not seen, and the period it noted has begun (`Reads`); the order
number and the coupon's counter are numbers of orders (`Counts`). Then the commit is
a `Place`, an answer to a known key a `TellAgain`, and every other step of a checkout
leaves the shop alone.

`SubscriptionsProofs` proves all four properties. Their invariant orders the three
places that know a period (row, event, provider), says that a plan anyone carries
was accepted (`granted`), and in `Fine` what of a read is still true: a row read
live stays live, a key about to be called for is claimed and was not called for.
`Apart` keeps two workers from one key's call and from one event. `MovesGood`,
`KeepsGood` and `MethodsGood` say of the service's methods that what they write is
legal now, although tested on an earlier read. The second half of `PlanWasAccepted`
needs a second invariant, `Creating`: without a fault, what the provider has accepted
is about to be inserted as long as there is no row, and a row that is PENDING is about
to be confirmed.

`TenantUsageProofs` proves both action properties. `CounterExact` adds up what each
step changes in the rows and in the counter (with the theorems on cardinalities).
`WithinLimit` needs `Resolution`: up to the first change of plan or limits what a
request has read of them is what is in force, and up to the second what it will
resolve is a limit that was.

`StoreDomainsProofs` proves `CacheCurrent` and `PrimaryStays`. The property of the
cache alone is not inductive: a lookup on its way will become an entry, so `Current`
says the same of it, and what a lookup finds is only well defined while hostnames
and primaries are unique (`Rows`). `WorkerInv` is the argument common to all
requests: each host's entry is about to be busted, or gone or missed, or nothing a
lookup would find of it has changed (`LookupKept`). `Sessions` keeps the rows a
request remembers in one store, and `OneReplaces` says that one request at most is
between writing a store's primary and committing it, and that nothing it relies on
changes until then.

That a refinement is no weaker than it should be is proved too, from the abstract
specification alone: `LedgerSuffices` (the customer is told only of money on record,
nothing is taken back, orders move along the state machine), `BookSuffices`
(`InAppWithinCaptured`, and a settled entry never changes), `QueueSuffices`
(`DuplicatesHaveCauses`, `MailsWithinBudget`, `SentWasAccepted`) and `ShopSuffices`
(`ItemOrderedOnce`, `CouponPerUser`, one order per key, each answer names it, numbers
run on). What these need of an abstract state is an invariant of its own
(`LedgerKept`, `BookInv`, `QueueInv`, `ShopKept`), without sessions or locks.

Only model-checked: liveness (`EventsSettle`, `CapturedMoneyIsFound`, `OutboxSettles`,
`CheckoutEnds`, `RevocationTakesEffect`), which rests on fairness and so on ENABLED,
beyond the prover. Every safety property that a passing run checks is a theorem.

## 5. What is not modelled

* **Authentication sessions.** Refresh rotation, reuse detection and logout work on
  one table of tokens apart from everything modelled here. Two refreshes with one
  token can both pass the test of `revokedAt` (`auth.service.ts:246`) and leave two
  live descendants; this is listed among the hazards, without a property.
* **Pricing, tax, discounts, invoices.** Arithmetic and rendering from one request's
  data. `Checkout` and `Payments` take a total as given.
* **Merchant payment accounts.** An order's account is bound to it for good;
  activation is a single guarded update. `Payments` and `Refunds` have one account.
* **Tenant isolation** is enforced by stateless guards and row-level security,
  **support sessions** by a test of one row at each request: nothing interleaves.
* **Catalogue, users, postal codes, settings, audit, SEO** are CRUD in single
  transactions, and so are the parts of **coupons**, **cart** and **platform
  administration** that `PROJECT.json` calls partly modelled; the counters that products
  and uploads claim are in `TenantUsage`.
* **Migrations and backfills** run once; the unique indexes they create are part of
  the models, and the backfill of the counters, which is also the reconciliation, is in
  `TenantUsage`.
* **The web frontend** is a client: it is the customer, merchant or operator whose
  requests come in any order, twice or never.

Within modelled parts: Host and Origin normalisation and the liveness of store and
tenant, which resolution reads anew each time; `subscription_events`; verification
tokens; a change of a cart line's quantity; the content of mails.

## 6. Where the code and its documents differ

With a run that shows it (`PROJECT.json`, findings, quotes the lines):

* **A FAILED refund may have moved money** (`refunds_timeout`). A timeout at the
  provider marks the row FAILED, and its amount is free to be refunded again.
* **A scheduled cancellation is forgotten** (`subscriptions_missed_cancellation`). When
  the renewal webhook records the new period first, the reconciliation no longer
  sees the boundary at which it should have cancelled.
* **A store is left without a primary domain** (`domains_without_primary`). `remove`
  decides before the provider call whether the subdomain must take over, and does
  not look again.

Also seen while modelling, each reachable in the models but without a run:

* *A second failure is taken for a capture.* The outbox key of PAYMENT_FAILED is
  unique per order, so the second failure of a retried order is rolled back by that
  index, and the inbox, which takes every unique violation for "a concurrent
  verify/webhook/reconciliation already captured a different attempt"
  (`webhook-processor.service.ts:111`), marks the event PROCESSED. The order stays
  pending, and cannot expire either, as that needs the same key.
* *A verdict overwrites a processed event.* `safeUpdate`
  (`webhook-processor.service.ts:192`) is by id, after the row lock is gone; an
  overlapping tick's PROCESSED, "terminal-success" in the class comment, becomes
  PROCESSING_FAILED again.
* *A captured attempt may come to name another payment.* The stamp in
  `findOrCreateAttempt` (`payments.service.ts:745`) is by id too; an attempt that
  verify captures in between then carries a failed payment's id, which a refund
  (`refunds.service.ts:223`) takes to identify the captured one.
* *A lost cancellation leaves its refund behind.* `performCancellation`
  (`orders.service.ts:379`) inserts the refund before the compare-and-swap whose loss
  is "a safe no-op"; an order somebody else has confirmed keeps its full amount
  recorded as owed.
* *A late capture of a cancelled order is not owed.* The other way round,
  `performCancellation` looks for the captured attempt (`orders.service.ts:372`) before
  its transaction. If the staff have set the order to PAID and the webhook captures the
  payment after that look, the order is CANCELLED with money and without a refund row.
  `CancelledIsOwed` excepts these orders (`missed`).
* *Captured money that reconciliation does not find.* A payment that mismatches keeps
  its order in the batch, unsettled, until it is seven days old
  (`payment-reconciliation.service.ts:152`); twenty such orders, or orders that cannot
  expire for the reason above, keep all younger ones out, and after seven days nothing
  looks at those. A payment that failed first and was captured later has an attempt of
  its own; if a newer open attempt exists, `payments.service.ts:1238` picks that one,
  the unique payment id refuses the update at every run, and the log says "captured
  concurrently". `CapturedMoneyIsFound` excepts both.
* *A claimed mail dies with its process.* `outbox.poller.ts:109` commits PROCESSING,
  and ticks select PENDING only; `DEPLOYMENT.md:239` says that undelivered mail is
  retried. `OutboxSettles` excepts these rows, and no others.
* *A removed item may be ordered.* The blueprint (line 163) has every cart mutation
  lock the cart; `cart.service.ts:227` does not, and checkout orders what it has read.
* *An overtaken reconciliation makes a counter wrong.* The backfill counts and sets in
  two transactions, and its comment says that it converges; a reservation between
  the two is lost. `CounterStaysExact` excepts it.
* *A limit that never was.* `resolveEffectivePlanId`, the plan's limits and the
  overrides are three reads; two changes between them give a limit that was at no
  moment in force, where the comment says the limit is that of one moment.
* *The last owner can go* if two are suspended or demoted at once
  (`team.service.ts:173`), though it takes a second owner added in the database: no
  request makes one.
* *A merchant's DNS check can undo a revocation or an override*, the update after the
  lookup being by id; and *`setPrimary` and `remove` bust the hosts they listed before
  they commit* (`store-domains.service.ts:442`, or the removal's plan), so that a domain
  added and looked up since keeps an entry with the old primary for 15 seconds.
* *A subscription at the provider that no row names.* If the process dies between the
  provider's acceptance and the insert (`subscription-orchestration.service.ts:136`), if
  the call times out, or if another request has inserted first, what the provider made
  stays there. With the Razorpay adapter as it stands this is the rule: a new
  subscription has no confirmed period until it is authorised, and
  `razorpay-billing-provider.ts:178` throws after it was made (the adapter's comment
  says that onboarding is not wired yet).
* *A failure recorded late overwrites a success.* The billing inbox writes the verdict
  on a rolled-back attempt by id (`billing-webhook-processor.service.ts:377`): an event
  that an overlapping tick has processed becomes due again, or FAILED.
* With late authorization, a failed and a captured event of one payment can stamp two
  attempts, and the captured one is written off; `applyFailed` asks for an illegal
  transition when the order is paid already, and the event ends in the dead letters;
  `performRefundRecording` may mark a refund PROCESSED whose provider call is still in
  flight and then fails, which `callProviderAndSettle` calls "structurally not
  expected"; an omitted refund amount is the captured amount, not, as the comment says,
  what remains of it.

## 7. Plan

Done: payments with their ledger, refunds, outbox, checkout, subscriptions, usage
and team, store domains, each with its proofs; payments, refunds, outbox and
checkout also refine an abstract specification. What would come next:

1. `Sessions` (auth): rotation, reuse detection, logout-all.
2. `PaymentAccounts`: one active account per store; an order's account is the one it
   was bound to.
3. `Pricing`: paise rounding, tax split and discounts against a reference definition
   over bounded inputs.
4. An abstract specification for subscriptions, refined as payments, refunds, the
   outbox and checkout are.

To parse, check or prove, in this directory: `tlasany M.tla`,
`tlc -config X.cfg M`, `tlapm M.tla`.
