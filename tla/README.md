# Verification of the photo store

The store sells photos of race events. Photographers upload photos, the worker
makes derivatives and indexes faces, participants find themselves by bib or by a
selfie, put photos in a cart, pay through Stripe, receive downloads or prints, and
may ask for a refund. Photographers are credited in a double-entry ledger and paid
out weekly. The code is an API (`apps/api`, Fastify), a worker (`apps/worker`,
BullMQ and cron), a Python inference service (`apps/inference`) and shared packages
(`packages/db` holds the drizzle schema with its indexes). Almost no handler opens
a database transaction: what keeps the system correct is the order of its
statements, a few unique indexes and idempotency keys. That is what these modules
model: a statement, a call of a service or an insert into a queue is a step of its
own, other handlers come in between, and a process may die there.

Paths below are relative to `src/`; `PROJECT.json` maps every definition to its
lines, and lists the hazards with the properties that are about them.

## 1. Inventory

| component | state | operations | hard parts | correct means |
|---|---|---|---|---|
| carts, checkout (`services/carts.ts`, `checkout.ts`) | carts, cart_items, orders, order_items, PaymentIntent | cart routes, createOrderFromCart | double clicks, lost Stripe answers, a cart that changes meanwhile | one charge per cart, for what was ordered |
| Stripe webhook (`services/stripe-webhook.ts`) | stripe_webhook_events, orders | handleWebhookEvent | repeated and reordered events, handlers that break off | money taken becomes a sale |
| refunds (`services/refunds.ts`, `admin-refunds.ts`) | refund_requests, orders, ledger_entries | createRefundRequest, decideRefund, reconcileRefundFromWebhook | lost answers, two admins, webhook against admin | books and Stripe agree |
| ledger (`services/ledger.ts`, `order-split.ts`) | ledger_entries | split, allocate, post | rounding, bundles, missing photographers | balanced, exact, fair, earned |
| payouts (`services/payouts.ts`) | payouts, ledger_entries, transfers | runPayouts, reconcile, retry | concurrent runs, crash after the transfer, late events | nobody is paid twice, the books follow the money |
| Stripe Connect (`services/connect.ts`) | payout_accounts | onboarding, account.updated | overlapping starts, events out of order | one account, the latest capabilities |
| digital fulfilment (`workers/fulfillment-digital.ts`) | fulfillments, zip | job, e-mail, download | retries that insert rows, a last attempt that fails | a link that was sent works |
| print fulfilment (`jobs/print-fulfillment.ts`) | print_lab_orders | submit, poll, lab webhooks | lost answers, polls against webhooks | one print, no state the lab never reported |
| outgoing webhooks (`jobs/webhook-delivery.ts`) | deliveries, subscriptions | enqueue, sweep, circuit breaker | at least once, stale counters | repeated only after a death |
| notifications (`jobs/notifications-send.ts`) | participant_notifications | enqueue, sweep | marks that throw, deaths | the same |
| consents, faces, retention (`services/consents.ts`, `workers/face.ts`, `jobs/retention.ts`) | consents, face_vectors, Qdrant points, search sessions | grant, search, erase, sweep | crash between revoke and purge, searches overtaken | nothing of an erased consent comes back |
| sessions (`routes/auth.ts`, `auth-passwordless.ts`) | users, links, sessions | login, refresh, logout, links | two tabs, prefetched links | a link gives one session, a rotated or logged-out one no more |
| photo pipeline, moderation, takedowns (`services/uploads.ts`, workers, `services/moderation.ts`, `takedowns.ts`) | upload_sessions, photos, objects, takedown_requests | upload, jobs, bulk actions, purge | jobs against admins, failed purges | hidden stays hidden, an approved takedown purges |
| cloud drives, SFTP (`jobs/cloud-import.ts`, `services/sftp.ts`) | cloud_imports, files, accounts | bind, list, batch; provision, rotate | deaths in a batch, throttling | every file accounted for |
| timing, rosters (`jobs/timing-sync.ts`, `services/roster-import.ts`) | bindings, participants, finishes | bind, sync, preview, commit | late crossings, two sources of one person | no crossing and no e-mail lost |
| events (`services/events.ts`) | events, members, credentials | create, publish, members | writes that overtake a check | splits within 100 % |
| catalogue (`services/products.ts`, `bundles.ts`) | products, bundles | create, edit, sell | creation that stops half-way | what is sold is whole |
| pricing (`services/pricing-evaluator.ts`) | pricing_rules | evaluatePricing | precedence, stacking, rounding | the quote its rules say |
| paged lists (`lib/cursor.ts` and its users) | | list | rows that come, go and tie | no row is left out |
| payout dashboard, statistics, audit log, scheduler, integration clients, inference | | queries, I/O | | |

How they meet: checkout leaves an order `pending_payment` with its PaymentIntent;
the webhook takes it from there; a paid order is split by `order-split.ts`, posted
into the ledger (the fulfilment enqueuer it then calls is never set: section 7); an approved refund calls Stripe, writes
the order and posts a reversal; the weekly run reads a photographer's balance,
makes a transfer to the Connect account and posts a pair of payout entries;
`transfer.*`, `charge.*` and `account.updated` events come back through the same
webhook. Uploads and cloud imports insert photos and queue the ingest job, which
fans out to the jobs that make a photo findable; takedowns, moderation, consents
and retention take away again what those jobs write.

## 2. The modules

| module | models | composed or used by |
|---|---|---|
| `Checkout` | one cart on its way to an order and a PaymentIntent | `MCCheckout` |
| `OrderPayments` | one order from payment to refunds, with Stripe | `MCOrderPayments` |
| `Ledger` | fees, allocation, balance check, batches, dedupe | `OrderPayments`, `Allocation`, `Attribution` |
| `Allocation` | the loop of allocateProportional | `MCRules` |
| `Attribution` | who a sale is credited to | `MCRules` |
| `Pricing` | evaluatePricing | `MCRules` |
| `Payouts` | one payout account | `MCPayouts` |
| `Connect` | one photographer's Connect account, with Stripe | `MCOffice` |
| `Fulfillment` | the digital and the print order | `MCOffice`, `MCSweeps` |
| `Outbound` | outgoing webhooks and notifications | `MCSweeps` |
| `Outbox` | what the two senders of `Outbound` promise | `Outbound` |
| `CloudImport` | one folder's import | `MCSweeps` |
| `Photos` | one photo with its upload, jobs, moderation and takedown | `MCPhotos` |
| `Biometrics` | consents, faces, searches, erasures, retention | `MCBiometrics` |
| `Access` | users, magic links, sessions | `MCOffice` |
| `Events` | events, members, FTP and SFTP credentials, permissions | `MCOffice` |
| `Timing` | binding, roster, finishes of one event | `MCOffice` |
| `Catalog` | products and bundles of one event | `MCOffice` |
| `Pages` | a walk through a paged list | `MCOffice`, `AuditPages.cfg` |

The eight modules of proofs are in section 6.

State corresponds to code in the same way everywhere. A variable is a table, a
column or what an external service keeps, named as in the schema; a variable with
a `pc` (`call`, `hook`, `run`, `sweep`, `job`, `request`, ...) is a handler in
progress with what it read earlier. An action is one statement or call and what
follows it without another; a check that only refuses is a branch that ends the
handler. An action named `...Dies` or `BreakOff` ends a handler anywhere. External
parties (Stripe, the lab, the drive, the timing provider, Qdrant) are modelled from
how the code uses them, with answers that get lost. A unique index or an
idempotency key is a guard on the step that meets it: `Ordered` in Checkout,
`IdempotencyKey` in Fulfillment, `InsertNote` in Outbound.

### Money: Checkout, OrderPayments, Ledger, Allocation, Attribution, Pricing, Payouts, Connect

In `Checkout` an order is named after the call that inserted it. `ReadCart`,
`ReadItems`, `InsertOrder`, `SnapshotItem` (per row), `CreateIntent`, `MarkFailed`,
`AttachIntent`, `ConvertCart` and `Reply` follow createOrderFromCart from top to
bottom; `Resume` is the branch for a converted cart. The edits begin with
requireActiveCart (`OpenFor...`, or `SeeExpired` then `Expire`) and write later
without looking at the status again, as the code does. A discount is any member of
`Discounts`: `Pricing` has the rules.

`OrderPayments` begins where Checkout ends, with an order that holds its
PaymentIntent. Stripe is `captured`, `refunds`, `issued` and `acked`. `Deliver` is
the insert of the event row, which decides who handles the event and answers every
later delivery; `MarkPaid` and `PostSale`, `MarkFailed`, and `LookUpOrder` to
`MarkRefunded` are the three branches; `LoadRequest` to `PostReversal` and `Deny`
are decideRefund, by any number of admins at once. Stripe sends an event until it is
answered, in any order, and may make several Event objects about one success. Every
delivery splits the sale anew, into any of `Nets`, since photos and members may have
changed. `contested` is history: the requests two admins decided at the same time,
and the sale once two deliveries split it differently.

`Allocation` is the largest-remainder loop as a state machine. Fractions that are
equal as rationals but come from different weights are compared by the code as
floats and may compare either way, so `Allocations` in `Ledger` is a set of results
and the properties hold for each. `Attribution` and `Pricing` compute in steps, a
line or a rule at a time, over enumerated orders and rules.

`Payouts` is the body of runPayouts' loop for one account. Time is in half-days: an
even tick is the part of a payout date before the cron at 03:00, an odd one what
follows. A pair of ledger entries is one element of `pairs`, and adding an element
that is there is the dedupe index. `Connect` interleaves calls of startOnboarding
with each other, with Stripe's keys, which are forgotten after a day, and with
account.updated events in any order.

### Delivery: Fulfillment, Outbound, Outbox, CloudImport

`Fulfillment` has an order that is digital or print (`content`). A digital job is
tried `JobAttempts` times, may stall and run twice, and inserts a row per attempt;
the print row is written by two sweeps and by the lab's webhooks. `Outbound` has one
`channel` per behaviour. Both senders read their rows at the start of a sweep and
work on what they read. `Outbox` is their abstract specification: a message goes out
only while its row is queued, is called delivered only after it went out, and is
settled in the end. `Abstract` in `Outbound` maps a row to a message with `RowState`
and leaves `sent` as it is. `CloudImport` has the request that binds a folder and the
ticks of the worker, from which a death takes everything but the rows; `oauth` and, in
`Fulfillment`, `adapter` say how the worker is configured.

### Photos and people: Photos, Biometrics

`Photos` follows one photo. The jobs of five queues write its row without looking at
what the admins wrote, and the other way round; `Deployments` says which of the
queues a deployment runs. A takedown names several photos, of which this is one: an
admin approves it or leaves it out, and others of the request may fail; `approved` and
`removed` keep what the decisions said of it. `Biometrics` keeps Qdrant points and
face_vectors rows apart, since each purge deletes them in two calls. `owed`, `running` and `left` are
history: rows that were stored when an erasure purged, searches an erasure overtook,
sessions it failed to delete.

### Office: Access, Events, Timing, Catalog, Pages

These have users whose requests interleave between their statements. `raced` in
`Events` and `excused` in `Timing` are history: which kinds of write overtook a check
and which crossings a sync may skip. `Pages` has the cursor of `lib/cursor.ts` with
its truncation to milliseconds (`TicksPerMs`) and the lists that use it. In the list of
a bib the rows are tags, of which a photo may have two (`bib_tags` has no unique
index); in the moderation queue photos have `flags`, which come first in its order and
are not in its cursor. Nothing in `src/` but the seed script writes tags, and nothing
writes flags, so any are possible when a walk begins.

### Mistakes

Definitions whose comment begins with "Mutant:" or "A mistake the properties catch"
belong to no specification. Each is a plausible error in the code, kept beside the
definition it would replace; with it in place the property that `PROJECT.json` names
fails in the same run.

## 3. Runs

Components that share no state are checked in one run, one of them per behaviour
(`part`, `channel`, `subject`), so the state spaces add up instead of multiplying.
Deadlock is not checked, as buyers, admins and clocks may stop for good.

| run | shows | bounds |
|---|---|---|
| `payouts` | statuses, ledger pairs and transfers agree (`SettledPosted`, `ReversalEarned`, `PostedOnTransfer`); nobody is overpaid while no call fails (`NeverOverpaid`); every pending row has a run at work on it, or its run broke off outside the try (`PendingOwned`) | two dates, two sales, two runs, one delivery at a time, one each of refund, retry, reversal, fault |
| `order_payments` | `MoneyFirst`, `BooksNotAheadOfStripe`, `ReversalBacked`, `LedgerBalanced`, `KeyFresh` | a dollar in two splits; two admins, two requests of up to two approvals, two refunds; one mishap: a fault, a decline, a second Event object or an overlap of decisions |
| `order_delivery` | liveness: `EventsDrain`, `SaleSettles` | two Event objects of one success, a decline, four mishaps; no refunds |
| `checkout` | `OneIntentPerCart`, `ChargedAsOrdered`, `ConvertedResumable` | a photo and a bundle, two calls, one edit at a time, two rows, quantity 2, a discount above the price, one fault |
| `rules` | `FairSplit` and `Returns` of the loop, `SplitEarned` of the attribution, `QuoteSound` of the discounts | totals -4 to 16, all lists of up to three weights 0 to 3 and three with float ties; three photos, two payees, two lines; three rules out of ten, ten baskets |
| `biometrics` | `LastRevocationPurges`, `ErasedStaysErased` | two consents, two erasures, one search, one job, one death |
| `biometrics_retention` | `QuotaHeld`, and the liveness `RetentionHonoured` | a quota of one, two searches, the sweep, one death |
| `sweeps` | `RepeatedOnlyByDeath`, `DisabledForCause`, `ImportExact`, `PrintMatchesLab`; the refinement `ImplementsOutbox`; the liveness `ImportEnds`, `PrintEnds` | two events, two attempts, two windows; three files, one unusable; three submissions, two copies of a lab webhook; a death |
| `photos` | `UploadKept`, `ModeratedStaysOut`, `FulfilledMeansPurged` | two clients, two admins, two operations, jobs of three queues at a time with two attempts, one fault |
| `office` | `SessionsEarned`, `HoldsUnraced`, `SyncLosesNothing`, `SoldWhole`, `OnePayee`, `PagesWhole`, `LinksKept` | seven parts; two overlapping requests each, one to three rows of each kind; a flag per photo |
| `order_acked` | expects a violation: section 5 | |
| `audit_pages` | expects a violation: section 5 | |

Why the bounds are enough: each of the races in the hazard list needs two actors
and one failure; each bound lets them meet in every order, and a third row or
attempt where the code has a "last" one (attempts, files, windows, photos of a
bundle). `MaxFaults`, `MaxDeaths`, `MaxMishaps`, `MaxRetries`, `MaxCalls`, `MaxRows`,
`MaxTime` and the like bound the surroundings: the code has no such limits. (Where it
has one, such as `MAX_ATTEMPTS`, `CIRCUIT_FAILURE_THRESHOLD`, attempts of a job or a
page's limit, the constant is smaller than the code's.)
`office` adds three bounds as constraints, named in `MCOffice`: at most one kind of
overtaken write in a behaviour, an event with an SFTP account has no members, and a
roster is committed before anybody crossed a line. Symmetry is used for clients,
admins, desks, photos, consents, searches and erasures that the specification treats
alike, and never in a run with a liveness property that names them.

Many properties say of themselves what they except, and each exception is a real
behaviour of the code, found by TLC: `HoldsUnraced` (two concurrent writes of
members exceed 100 %; two rotations leave two FTP passwords),
`BooksNotAheadOfStripe`, `KeyFresh`, `LedgerBalanced` (`contested`: of two admins who
approve one request at once both may be refunded or share a key, and the later
reversal loses the entries of accounts the first one has; a sale replayed after a
member left keeps the first delivery's entries and takes in the second's for other
accounts), `NeverOverpaid` (the
retry of a payout has the time in its key, so a lost answer makes a second
transfer), `PendingOwned` (`abandoned`: a death, the account lookup before the try or the
update of the catch block leaves a row that nothing picks up), `SyncLosesNothing`
(`Skippable`: a crossing between pull and stamp, or published late, is skipped for ever), `OnePayee` (after Stripe forgot
the key a second account is made), `PagesWhole` (rows that share the millisecond of
a page's end are left out, or repeated by the queue; photos of the queue with more or
fewer flags than a page's last are passed over or repeated; a photo with two tags of the
bib is shown twice), `FulfilledMeansPurged` (a takedown closes when the approved photos
are gone, whatever else it names), `ImportExact` (a file taken up again after a death has
two photos), `ImportEnds` (a token the worker is not configured to refresh is met at every tick), `PrintEnds` (rows
of a lab without an adapter are skipped: `scheduler.ts:130-139` has one for Bay Photo
only, when its key is set),
`LinksKept` (the last failing attempt marks rows failed that completed before),
`ErasedStaysErased` (a search that was under way stores its session afterwards; a
purge of the sessions that failed is audited and answered as success).

## 4. Fairness

Stated only where the code's scheduling justifies it: weak fairness, except for the
three statements of the retention sweep in `Biometrics`.

- `OrderPayments`: `Deliver(e)` and `Handle(e)`. Stripe sends an event until it is
  answered; a Node handler whose awaited calls return runs on. `SaleSettles` is about
  behaviours without a failure, since with one the finding of `order_acked` stands.
- `Outbound`, `CloudImport`, print orders of `Fulfillment`: cron starts each sweep
  every minute, a sweep goes on or dies, and delays, cooldowns and the quiet hours
  end. A tick takes up three imports (`IMPORTS_PER_TICK`) and a sweep 100 print orders
  (`BATCH_LIMIT`), without an order, so of more open rows than that Postgres may leave
  one out for ever: `ImportEnds` and `PrintEnds` are about a row that is taken up.
  `Reconfigure` and `TokenExpires` have no fairness. `RequestPoll` has fairness because the poll is asked for by the same cron.
  Deaths and errors are bounded, as every liveness property needs.
- `Biometrics`: weak fairness of the jobs of BullMQ, which are retried; strong fairness
  of the sweep's `DropCollection`, `DeleteRows` and `RevokeAll`, since a search or an
  event that is archived anew can disable them between two passes, while cron starts
  one every six hours.
- `Allocation`: its one action, a loop in one thread.

Nothing is assumed of buyers, admins, participants or subscribers.

## 5. Where the code and its comments disagree

Two runs expect a violation and quote both sides in `findings`:

- `order_acked`: a success whose handler broke off before the sale is posted is
  answered as a duplicate when Stripe retries; the sale is never recorded, although
  `stripe-webhook.ts` and `routes/webhooks-stripe.ts` rely on the retry.
- `audit_pages`: the audit list's cursor holds the id "so ties still paginate
  stably", but the query does not use it; rows that tie with a page's last are on no
  page.

Other statements of the repository that TLC refuted are kept as definitions, without
a run of their own:

- `SuccessMarksPaid` (OrderPayments): a card declined first, or a decline delivered
  late, leaves a paid order failed.
- `LedgerBalanced` without its exception (OrderPayments): `ledger.ts` posts "a balanced
  batch atomically" and calls a replayed batch "a no-op" (155-156); of a second approval
  of one request by another amount, and of a sale split anew on a replay, the dedupe
  indexes leave half of a batch.
- `RetriedPairStands`, `FailedRollsOver` (Payouts): the retry of a reversed payout is
  not posted again; after a failed payout later runs end with `net_mismatch`.
- `RetryAfterFailure` (Checkout): after a Stripe failure the buyer's retry meets the
  unique `cart_id` of the failed order.
- `ErasureComplete` (Biometrics): the "full erasure cascade" of `routes/consents.ts`
  leaves the session of a search that was under way, and answers 204 although a failed
  statement left the sessions where they were (`consents.ts:570-593`).
- `RestartNeverDoubleSends` (Outbound): `schema/notifications.ts` claims it of the
  unique row of a window; a death between the send and the mark sends twice.
- `DeletedIsPurged` (Photos): `moderation.ts` says a delete purges the derivatives;
  they are in another bucket.
- `PagesMoveOn` (Pages): `moderation.ts:76-79` says the queue's paging "is exact within a
  severity tier"; its cursor is cut to milliseconds and compared with `gt`, so the last
  row of a page comes again on the next, and a page of one row follows itself for ever.
- `UnconfiguredImportEnds` (CloudImport): `scheduler.ts:307-308` says that a missing OAuth
  client throws "so the import records an error instead of looping"; the error is no
  `CloudStorageError`, so every tick takes the import up and throws again.
- `ImportedIsIngested` (CloudImport): the second photo of a file taken up again gets
  no ingest job, as the job's id is the first one's.

## 6. Proofs

Every safety property that a passing run checks is also a theorem: TLAPS checks it
for every value of the constants that the named assumptions admit. The assumptions
give constants their types and say which sets are finite or not empty. There is a
module of theorems per area:

| proofs | about | theorems of run properties |
|---|---|---|
| `LedgerTheorems` | sums over sets, `Ledger` | the facts the modules below rest on |
| `RulesProofs` | `Allocation`, `Attribution`, `Pricing` | `FairSplit`, `SplitEarned`, `QuoteSound` |
| `CheckoutProofs` | `Checkout` | `OneIntentPerCart`, `ConvertedResumable`, `ChargedAsOrdered` |
| `OrderPaymentsProofs` | `OrderPayments` | `MoneyFirst`, `ReversalBacked`, `BooksNotAheadOfStripe`, `KeyFresh`, `LedgerBalanced` |
| `PayoutsProofs` | `Payouts` | `SettledPosted`, `ReversalEarned`, `PostedOnTransfer`, `PendingOwned`, `NeverOverpaid` |
| `SweepsProofs` | `Outbound`, `CloudImport` | `RepeatedOnlyByDeath`, `DisabledForCause`, `ImportExact`, and `StepsOfOutbox` |
| `MediaProofs` | `Photos`, `Biometrics` | `UploadKept`, `ModeratedStaysOut`, `FulfilledMeansPurged`, `QuotaHeld`, `LastRevocationPurges`, `ErasedStaysErased` |
| `OfficeProofs` | `Access`, `Events`, `Timing`, `Catalog`, `Connect`, `Pages`, `Fulfillment` | `SessionsEarned`, `HoldsUnraced`, `SyncLosesNothing`, `SoldWhole`, `OnePayee`, `PagesWhole`, `LinksKept`, `PrintMatchesLab` |

The argument has the same form everywhere: an inductive invariant (`...Inv`) with the
types, what a program counter implies of what the handler has read and written, and
what rows say of each other; a lemma per action, or per group of actions that write
the same; frame lemmas for what an action leaves alone. Why each invariant is needed:

- Sums. A balance, a batch or a split is a sum over a finite set, and the library's
  induction theorems take an operator that no installed prover can instantiate. So
  induction is done on sets (`Smallest`): if a statement failed for some subset of a
  finite set it would fail for a smallest one, which loses an element and cannot.
  From this `LedgerTheorems` has that such sums exist as the folds of the community
  modules compute them, add up over disjoint sets, are monotone, and go through a
  renaming (`SumImage`); `RulesProofs` does the same for products.
- `Ledger`: `AllocationExact`, `AllocationQuota` and `AllocationMonotone` are about
  every result of allocateProportional: the odd cents are fewer than the positive
  fractions (`LeftoverBound`), so the ones who get one have a quota that is rounded
  up. `SaleBalanced` and `ReversalBalanced` say that batches made of them balance.
- `Allocation`: `AllocationInv` says that a share is its quota rounded down, plus one
  for whom the loop has served. So the loop never goes round the list, and what it
  returns is a member of `Allocations` (`LoopAllocates`): the loop implements the
  definition that `OrderPayments` and `Attribution` use.
- `Attribution`: a line is divided to within a cent (`LineExact`), so after n lines
  a photographer's gross is off by less than n (`CreditedSoFar`); two more roundings
  make the net (`Chained`). A part of a cent is counted in units of `Scale`, a
  constant that the number of photos of each line divides.
- `Pricing`: each rule rounds what is left by half a cent at most and later ones
  only make an error smaller (`ErrorGrows`), so n rules are off by n halves. The
  sorted rules and the tier of `selectQtyDiscountPct` exist for every finite set.
- `Checkout`: `CheckoutInv` says that there is one order, that the call which
  inserted it has not asked Stripe before `intent` and never asks again, and that it
  converts the cart only after the order holds its PaymentIntent. Subtotals are
  sums, whose types come from `LedgerTheorems`.
- `OrderPayments`: all of it is for any number of admins and any splits. `IInv` has
  what a program counter implies of Stripe. `DecisionsInv` adds that two admins at work
  have different requests or contest one (`Separate`), that of an uncontested request
  the stored attempts are never behind those Stripe knows (`KeyInv`), and that what an
  admin read of the order is not ahead of Stripe (`Bounded`); `Others` says what one
  admin's step leaves to the rest. `BalanceInv` adds that an uncontested request being
  decided has no entry yet, so a batch is new to the ledger or there as a whole, and
  the dedupe indexes, which drop entries one by one, never drop a part of one. The
  exceptions are needed: without them TLC refutes all three (a request of a dollar
  approved for 1 cent by one admin and for all of it by another).
- `Payouts`: `IInv` has what every program counter implies (from `post` on a transfer
  exists, from `mark` on the pair is posted, a delivery about to reverse has seen a
  reversed transfer). `NeverOverpaid` needs `CalmInv`: as long as nothing failed, the
  payouts not reversed, with those a run is about to insert, are covered by what the
  account has earned (`Covered`), since the row's unique period keeps a second run of
  the date out and the first one's debit is posted before the next date (`InHand`).
- `Outbound`: what a sweep read is still queued, in the attempt it read, except for the
  row it has just written; an attempt was made for every number counted; a message
  taken before its row is settled is under way or paid for by a death. `StepsOfOutbox`
  is the safety half of the refinement: initial states map to initial states and
  every step to a step of `Outbox` or a stutter.
- `CloudImport`: `NoMishap` says that without a death or an error every photo is the
  one of a file that is imported or at work, and every ingest job such a photo's.
- `Biometrics`: each charge is counted (`AnswersCounted`), rows are owed only for
  events without an active consent, and after an erasure was answered a search of the
  consent is past its check, or has a session, only if the erasure overtook it or
  failed to delete that (`ErasedFor`).
- `Photos`: what an upload, a job and an admin know of the row and the original
  (`UploadKnows`, `ModerationKnows`), and where the photo of a completed session is
  when nothing failed (`NothingLost`).
- `Events`: what a request that nobody overtook has read is still so (`MembersKnown`,
  `CredentialsKnown`), which is what the check before its write relied on.
- `Timing`: a crossing that is owed a finish is in the answer a sweep works on, is
  stored, or is later than the stamp (`FinishInv`). `EmailsStay` is an action property.
- `Pages`: what is shown comes before the cursor but for the exceptions (`Ahead`), and a
  row that stayed is shown, still to come, or excepted (`Accounted`). A page
  begins at the first row after the cursor in the list's order, which exists because
  the order is strict and the rows are finite (`LastExists`).
- `Connect`: what a key at Stripe and each call know of the account (`KeyHolds`) and
  what the row has of the events delivered so far (`LastWord`). `Catalog`: what a
  creation under way knows of its bundle (`EditorInv`) and how its product is named
  (`NamesWhole`). `Access`: what each request knows of its link and session (`VisitInv`)
  and what session rows say of each other (`SessionInv`). `Fulfillment`: what each
  step of a job established (`JobKnows`) and what a row, a poll's answer and a
  webhook on its way may say of the lab (`Reached`).

Only model-checked: liveness under fairness (`EventsDrain`, `SaleSettles`, `Returns`,
`RetentionHonoured`, `ImportEnds`, `PrintEnds`) and the fairness half of
`ImplementsOutbox`, which are out of the provers' reach. Of `Returns` the part without
time is `LoopAllocates`. The two properties of section 5's runs are false and stay
with TLC, as do the definitions listed there. Type invariants that are no theorem by
themselves are conjuncts of the inductive ones.

## 7. Not modelled

- Money on the dashboard. `payout-dashboard.ts` sums, it changes nothing. Its lines
  6-7 say that a payout's debit is recorded when the row is made; `payouts.ts` posts
  it after the transfer, so meanwhile the same money counts as available and as
  pending.
- `jobs/bipa-retention.ts`: it looks for consents with a `retentionWindowEndsAt`, a
  column no statement sets.
- `jobs/sftp-ingest.ts`: the half of a watcher outside this repository; nothing in
  `src/` calls it. (A crash between its insert and its queue entry loses the file.)
- The fulfilment enqueuer of `stripe-webhook.ts`: lines 36-46 say that the routes or
  the boot wire it, but no code in `src/` calls `setFulfillmentEnqueuer` outside tests,
  and the default only warns. No paid order queues a digital job by itself;
  `Fulfillment` begins with a job that somebody queued.
- `services/pricing-tiers.ts`: its multipliers are applied by no code.
- Five of the ten status words `bayphoto.ts` knows: they are synonyms of the modelled
  ones, or say that the order failed.
- `jobs/takedown-sla.ts`: it only alerts. The search sessions of bib searches are
  read by nobody.
- The inference service and what scores mean: the jobs take any answer.
- Signature checks, hashing, cookies, access tokens, rate limits, encryption, HTTP,
  generated types, wording, CSV columns beyond bib and address, tracking numbers.
- Several currencies, and several orders, carts, payout accounts or photos at once.
  Their own rows are disjoint; what several photos share, as a takedown request does, is
  in the model as what the others may do to it.
- Several timing bindings of one event: the index allows one per provider, and two
  would write the finishes of the same bibs, the later sweep over the earlier.
- Floats in discounts: `centsFromPct` rounds a float product, `Pricing` the exact one.
  They may differ by a cent where the exact product is half a cent.

## 8. Plan

1. The composition of `CloudImport` with `Photos` over the ingest job, where the step
   that hands over may be repeated after a death; and of `OrderPayments` with
   `Fulfillment`, once the code connects them.
2. An abstract payout that moves once from the balance to the bank, implemented by
   `Payouts` where no call fails, and an abstract event consumer that applies each
   Stripe event at most once, implemented by `OrderPayments`.
3. Theorems for the surviving half of what fails today, if the code changes: the sale
   posted in a retried event, the audit list that uses its id, and the ledger with two
   admins once a request is claimed before Stripe is called.
