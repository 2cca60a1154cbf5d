# Omnidance: a verification development

TLA+ models, model-checking runs and machine-checked proofs for the Omnidance
API (`src/apps/api`): ticketing, payments, check-ins and billing for dance
events and academies.

- [The system](#the-system): its parts, their state, and where they are hard
- [What is modelled](#what-is-modelled): module by module, against the code
- [The runs](#the-runs): what each one checks, its bounds, its fairness
- [The proofs](#the-proofs): what holds for every size, and why
- [Findings](#findings)
- [What is only model-checked, and what is not modelled](#limits)
- [Plan](#plan)

Paths are relative to `src/apps/api/src/` unless they begin with `src/`.
`PROJECT.json` maps every definition to the lines it stands for.

    tlc -workers 2 -config MCTicketCustody.cfg MCTicketCustody
    tlapm PaymentSettlementProofs.tla

The modules, and who uses whom:

    OrderLifecycle <- PaymentSettlement <- PaymentSettlementProofs   (refinement)
    PaymentLedger, SocialPass   <- LedgerProofs
    TicketCustody, TicketSales  <- TicketProofs
    PayoutFees     <- Payouts           <- PayoutsProofs
    JobRunner      <- JobRunnerProofs
    CardMembership    <- CardMembershipProofs
    MembershipPeriods <- MembershipPeriodsProofs
    ClassBookings     <- ClassBookingsProofs

Each of them but `OrderLifecycle` and `PayoutFees` has an `MC` module and one or
two `.cfg` files. `LedgerProofs` and `TicketProofs` prove about two components
each; so `SocialPass` and `TicketSales` name their specifications `PassSpec` and
`SalesSpec`, and their initial predicates, actions and types alike.

## The system

A pnpm monorepo: a NestJS API over Prisma and PostgreSQL 16, a Next.js PWA, and
a package of shared types. `src/openspec` holds behavioural specifications that
the code's comments cite.

Three facts shape every model. **Several handlers run at once**, in one Node
process between its `await`s and in several instances of it. **Transactions run
under READ COMMITTED**, which is Prisma's and Postgres' default and nowhere
overridden: each statement sees what was committed when it began, an `UPDATE`
waits for the row lock of another transaction and then evaluates its `WHERE`
again, and nothing protects a decision taken from an earlier read. There is no
`FOR UPDATE`; mutual exclusion comes from conditional updates, unique keys and
four families of advisory locks (payment ledger, membership and platform
subscriptions, academy codes). **A process may die** between any two statements,
and then only its open transaction is undone.

### Components

| Component | State | Operations | Hard because | Correct if |
|---|---|---|---|---|
| Payment settlement (`payments/application/payment-settlement.service.ts`, `webhook.controller.ts`) | `Payment`, `Ticket`, `DiscountCode.usedCount`, `DiscountRedemption`, `TableReservation`, ledger rows | webhook, poll, proof approved → `settle` | notifications repeat, contradict each other and race; the row in memory is old; crashes | a PAID order has its tickets exactly once and for ever; single-use codes are single-use |
| Payment ledger (`payments/domain/payment-ledger.ts`) | `PaymentEvent` chain per payment | `emitPaymentEvent`, `verifyPaymentChain` | read-then-insert under a hashed lock; several locks per transaction | chains verify, have no gaps, betray changes; no emitter is stuck |
| Ticket checkout (`payments/application/checkout.service.ts`) | pending orders, capacity, credits | `purchaseTicket` | counting queries outside the transaction, 30-minute hold, two transactions for a free order | caps hold; credits are neither lost nor doubled |
| Ticket custody (`payments/infrastructure/tickets.controller.ts`) | `ownerId`, `claimToken`, status | claim, transfer | read, then write by id | one claim per link; a link never takes from a new owner |
| Check-ins (`checkins/`) | `Checkin`, ticket and pass status | register, sync, out, void, door sale | offline devices, races, voids | a pass admits one person once |
| Pase Social (`payments/application/social-pass.service.ts`) | `SocialPass`, its ledger of credits | subscribe, cancel, confirm, redeem, billing events | Stripe's events in any order, repeated or lost, against polling and re-subscription | a period fills the balance once; the row agrees with Stripe |
| Payment gateways (`stripe.gateway.ts`, `flow.gateway.ts`) | remote | charge, look up, cancel | answers late or never | normalisation of answers |
| Proofs of payment (`producer-claims.service.ts`, `academy-claims.service.ts`) | claim rows and files | create, approve, reject | approval and settlement are separate statements; two reviewers | an approved proof is settled, and a paid order has one |
| Payouts (`payouts.controller.ts`, `payout-settlement.service.ts`, `billing.service.ts`) | `Payout`, its lines, `BillingDocument`, `BillingCounter` | generate, approve, pay, disburse, issue, annul | overlapping generations, money moved before the row, lost answers | an order is paid out once; deductions leave the agreed net; folios have no gaps |
| Academy deals (`academy-sales.service.ts`) | agreements, codes, debt | sell, attribute, settle debt | counts and debts read before they are written | quota and debt respected |
| Membership subscriptions (`subscriptions.service.ts`) | `MembershipSubscription`, `Enrollment.endsAt`, remote subscriptions and invoices | subscribe, return, adopt, cancel, reconcile, reprice, sweep, order by transfer | two systems without a common transaction; the job and the webhooks race the person | one membership per plan; what is paid gives a period; no remote one charges for nobody |
| Platform subscriptions | the same for academies and producers | the same, and plan changes | the same | charged as told |
| Academy classes (`classes.controller.ts`, `class-series.controller.ts`) | `ClassBooking`, waiting list, series, attendance | book, cancel, buy, cancel the class | counts read before they are written, no lock | places and credits not exceeded; a cancelled class costs nobody a credit |
| Scheduled jobs (`jobs/jobs.service.ts`) | job row: mutex, schedule | sync at start, tick, run, edit | a starting instance frees every mutex | one run at a time, latest schedule, what is due runs |
| Mail campaigns, notifications | delivery queues | enqueue, send, retry | duplicates on retry | each recipient once |
| Social, events, discounts, auth, dance sessions, CRM, admin, search, people | rows | forms and reads | little | unique keys, guards |

How they interact: the checkout creates a `Payment`; a gateway, the producer (an
approved proof) or the checkout itself (an order of zero) reports to `settle`,
which issues tickets, appends to the ledger in the same transaction and notifies
afterwards. Custody passes tickets on; the check-ins consume them. A checkout
may redeem credits of the Pase Social, which Stripe's billing events refill. The
payouts read PAID orders and append to their ledgers. The daily job of the
`JobRunner` reconciles memberships, whose paid invoices and transfers go through
`settle` too, as do single classes. Everything meets in the
database rows; there is no other shared state between requests.

The hazards of this code, each at its line with the properties that would catch
it, are the list `hazards` of `PROJECT.json`.

## What is modelled

One module per component, one action per database statement, remote call or
decision; a call keeps what it read in its job record, which is how stale reads
get into the model.

### OrderLifecycle, PaymentSettlement

`OrderLifecycle` is what an order promises to everybody who reads it: PENDING,
perhaps FAILED, and PAID in the one step that hands out all of its tickets.
`PaymentSettlement` is the code that keeps that promise.

| Code | Model |
|---|---|
| `Payment.status`, `Ticket` rows, `usedCount`, redemptions, reservations, `PaymentEvent` types | `status`, `tickets`, `uses`, `redemptions`, `reservations`, `log`: committed data only |
| row locks | `orderLock`, `codeLock`; the ledger's advisory lock is `LedgerFree` |
| `confirm`, `getPayment`, approval of a proof and free checkout | `Confirm`, `GetPayment`, `ApproveOrder`: read the row into `job[k].seen` |
| `recordWebhookReceived` | `RecordWebhookReceived` |
| `settle`: the copy in memory is PAID; FAILED claim | `SettleDuplicated`; `ClaimFailed`, `CommitFailed`, `NotifyFailed` |
| `settleTicket`: claim `status <> PAID`, ledger, tickets, table, code, commit, notices | `ClaimPaid`, `EmitSettleEvents`, `IssueTickets`, `SkipCode`/`ConsumeCode`/`RejectCode`, `CommitPaid`, `NotifyPaid` |
| process death, exceptions | `Crash`, `RejectCode` |
| `table-reservations.controller.ts`: a person asks (a read, then a create), the producer or the person cancels, the producer confirms a row again | `AskTable`, `GrantTable`, `CancelTable`, `ConfirmTable`; `withdrawn` counts the CANCELLED rows |

Writes of an open transaction are applied at its commit (nobody can see them
earlier), while its locks are taken statement by statement. Abstracted: who
receives which ticket, amounts (the comparison with the provider's amount is a
free Boolean), the wording of notices. `unseated` is a history variable: the
orders of a table of which a reservation was cancelled after they had been paid,
or after their settlement had found one there and decided to book none. One
request at a time asks for a table.

### PaymentLedger

Transactions emit events one statement at a time: `Emit`, `Acquire` (the
advisory lock `hashtext(paymentId)`, which may collide and is re-entrant),
`ReadLast`, `Insert` (with the unique key's waiting and rejection), then
`Commit`, `Rollback` or `DeadlockAbort`. `FirstBadSeq` translates
`verifyPaymentChain`. SHA-256 over the previous hash and the body is the
injective constructor `Hash`: the evidence property is relative to that.

### TicketSales

`purchaseTicket` counts what is sold and in flight with queries that run in
parallel (`RunQuery`, in any order and interleaved with everything), compares
(`SoldOut`, `Create`), takes credits in the creating transaction (`Redeem`), and
settles a free order in a second one (`SettleFree`, which `Crash` may prevent).
`Expire` is the 30-minute hold running out, `Refuse` a provider's FAILED, after
which an order holds no place either, and `Settle` a payment of any age: of an
order that is PENDING or FAILED. `lapsed` remembers which orders have expired or
been refused once.
`CheckDoor`/`SellAtDoor` are `doorSale`; `RegisterManual`/`VoidManual` are the
manual check-ins it counts. A settlement is one step here because
`PaymentSettlement` shows it to be one. Left out: prices, discount codes,
recipients, attribution.

### TicketCustody

Every operation has its read and its write apart: `ReadClaim`/`WriteClaim`
(conditional on the token), `ReadTransfer`/`WriteTransfer` (by id alone),
`ReadOpen`/`ResolvePass`/`CreateCheckin` (`register` and `syncCheckin`),
`RefuseDuplicate`, `ReadVoid`/`WriteVoid`, `ReadOut`/`WriteOut`. The history
variable `raced` records whether two check-in calls ever overlapped. A check-in
is named after the call that created it. Abstracted: `ResolvePass` may take any
ACTIVE ticket of the person where the code takes the oldest, so the model has
more behaviours than the code, and the invariants hold in all of them. Entry
passes, series passes and the QR's signature are left out.

### SocialPass

The row of one person, the ledger of credits, and handlers that run in `Slot`s,
one after another for ever, against a model of Stripe Billing (`Pay`, `Expire`,
`Renew`, `Charge`, `End`): sessions, periods, charges that fail and succeed.
`Deliverable` says which event Stripe may send at a moment: any that is true,
any number of times, or never. Handlers read the row (`Begin`), may ask Stripe
(`CancelOrphans`, `OpenSession`, `AskToEnd`, `AskRemote`) and write by id
(`Update`). `findPass` is modelled by what it does: the events of a pass are
marked, so a marked event finds the row through the customer whatever
subscription it speaks of. Two history variables: `raced`, some handler wrote
over a row it had not read; `crossed`, some handler acted on a subscription that
is not the pass's own. Assumption: an event of a billing period is not delivered
after the next period began (Stripe retries for days, periods last a month).
Left out: creating the customer, prices, the audit log.

### PayoutFees, Payouts

`PayoutFees` is `payout-settlement.service.ts` as operators: the lines of
deductions of each fee mode (`ManagedLines`, `AcademyLines`, `OwnLines`,
`LegacyLines`), which orders accrue, rounding and VAT with the code's integers.
`Payouts` is the life of a liquidation around it. An administrator's request
reads and then writes: `FindPayout`/`Compute`/`CreatePayout` (the look-up is not
in the transaction that creates), `ReadToApprove`/`Approve`, `ReadToPay`/`Pay`
(both by id), `ReadToDisburse`/`Transfer`/`ClaimPayout`/`AuditConflict` (the
transfer at Stripe, idempotent by payout, precedes the conditional claim),
`Issue`/`TakeFolio`/`Insert` (one transaction, in which the counter's row is
locked) and `ReadToVoid`/`Void`. `Crash` loses a request between any two, and the
answer of a transfer with it.

### JobRunner

`ReadDue` is what a tick reads; `Begin`, `Claim`, `HandlerEnds` and `Release`
are `execute`, for one job of its list after the other, while other ticks and
runs by hand go on; `EditRead`/`EditWrite` are the administrator's change of a
schedule. `Crash` ends an instance with its workers, `Restart` and the four
`Sync` steps are `onApplicationBootstrap`, of a deploy that may have lost a
handler. Any statement may throw: what a tick, a run by hand or an edit then
leaves is `BeginThrows` and `Throw` (the tick logs it and goes on, the mutex and
the open `JobRun` stay: `holder` is `Stuck`), and `SyncThrows` is a `sync` that
`onApplicationBootstrap` catches and logs: the instance is up ("unsynced"), with
nothing closed after that statement, and nobody tries again until an instance
starts. A cron is an interval in minutes: what matters of it is which row it
was computed from.

### CardMembership

A membership by card lives in a row and in a subscription of the provider. Every
statement and every call to the provider is a step of a `Request`:
`SubscribeLocked` (the transaction under the advisory lock of the person),
`Claims`/`Create`/`Link`/`Activate`/`Compensate` and `Adopt` (the return from
the form), `CancelRead`/`EndRemote`/`Ended` (cancel), `Fetch`/`Sync`/`Flag`/
`Undo` (reconcile with its reprice), and the `Sweeper`'s `SweepRead`/`Kill`
(orphans). The two providers differ as in the code: the form of Stripe creates
the subscription, Flow's only registers a card. A remote call may throw, and its
answer may be lost with the process (`Crash`). A subscription may also end
without being asked, from the provider's portal or after its dunning
(`EndsOutside`); reconciles and events then end an ACTIVE row, as in the code.
History variables name the rows where the code's protocol was crossed:
`overwritten` (a stale status was written), `putBack` (a create failed and the
row waits again), `repricing` (a cancellation met a reprice that was noted, or
that a worker had read as noted) and `dropped` (a remote subscription was
canceled and no note of it was left on the row, or a row was made ACTIVE with
one that no longer goes on). `outside` holds the remote subscriptions that ended
outside the platform.

### MembershipPeriods

What pays for a membership and what it gives. `Subscribe`, `SwitchToCard`,
`Cancel`/`CancelVoids` and the job's `IssueRead`/`Issue` are the orders by
transfer; `Upload`, `Approve`, `RejectRead`/`Reject` their proofs;
`SettleBegins`/`SettleCommits` the branch of `settle` that extends the
enrollment; `Fetch`, `Examine`, `Collect`, `CollectThrows`, `Fail` and `Mark`
what a reconcile does with the invoices of a card. A collect that throws deletes
its order by id (`:2408`); another pass that had read the invoice then finds
nothing to claim and marks it (`:1880`), and `CollectThrows` sends such a worker
there. The provider (`Bills`, `Recovers`, `LinkPaid`) and the clock are
external.

A monthly plan ends at noon of the last day of a month. So an instant is half a
step: `2m` lies in month `m` before that noon, `2m + 1` after it
(`LastAfternoon`). `CutOff` is the date that `membership-vigency.ts` computes
from a base, and `Extended` the one that a settlement writes: from the end of an
enrollment that is in force (`InForce`: ACTIVE and not past), and from now
otherwise. Paid on the last afternoon of a month with nothing in force, it is a
noon that is past already, and the payment gives nothing; a paused enrollment
starts anew and loses what it had left. `EditEnrollment` is the staff's change of
an enrollment (pause, resume, clear the date).

History: `given` (how many periods each payment was turned into), `settled`
(payments), `missed` (those of a last afternoon with nothing in force), `adrift`
(settlements overlapped, an enrollment was edited or restarted from a pause).
`stranded` holds the orders that a dead or overlapped request left without their
effect and the invoices whose order was deleted while they were settled, `torn`
says that a cancellation was interrupted between its two writes.

### ClassBookings

`BookBegins` (class and credit), `BookCounts` (own row and places) and
`BookWrites`; `CancelBegins` (the booking, read outside the transaction),
`CancelWrites` (which locks the row and picks who is promoted) and
`CancelCommits`; `PurchaseReads` (the class is not cancelled), `PurchaseCounts`
(places, and the order), `Fails`, `SettleBegins` (any order that is not PAID)
and `SettleCommits` for a single class that is bought. The academy's
cancellation is a transaction of three kinds of step: `CancelClassSelects` (the
flag, and the rows it will update by their ids: `releasing`, `affected`),
`CancelClassCommits` and `CancelClassAborts`; whatever begins or commits between
is seen by neither. `unreleased` is the history of what the cancellation cannot
reach: places of calls and orders that were under way, or began, before it
committed, and of orders that were not paid yet, a FAILED one included. `line`
keeps the order of `createdAt`, so that a row that starts anew goes to the end
and one that a payment takes over keeps its turn. One enrollment with a weekly
limit stands for the order in which `resolveQuota` tries several; all classes
are of one week.

## The runs

All bounds are constants of the modules or of the `.cfg` files. The small
instances are chosen so that each hazard needs no more actors than there are: a
race needs two calls, a loser that arrives later needs a third.

| Run | Instance | Shows |
|---|---|---|
| `settlement` | 3 orders: two (of 1 and 2 tickets) share a single-use code with one use and one of these has a table, the third has neither; 3 calls, any verdicts; crashes anywhere; the person asks for a table of his own, it is cancelled and confirmed. 2,448,618 states up to symmetry of calls | `TicketsIffPaid`, `SingleUseRespected`, `LedgerTellsStatus`, `AnsweredPaidIsPaid`, `TableIsHeld`; `LifecycleSpec`: settlement implements `OrderLifecycle` |
| `ledger` | 3 transactions, at most 2 events each, 3 payments of which 2 share a lock key; 179,564 states | `ChainVerifies`, `SequencesHold`, `TamperEvident`, `EmittersEnd` |
| `sales` | a purchase of 2 tickets, 2 purchases with a pass of one credit, one door sale, a manual check-in; both caps 2; 1,026,004 states | `CreatedWithinCap`, `PresaleOversoldOnlyByRaces`, `CreditsConserved` |
| `custody` | 3 persons, 2 tickets of one buyer, one with a link; 5 calls; 540,266 states | `OneClaimPerTicket`, `UsedTicketHasEntry`, `TicketAdmitsOne`, `InsideOnce` |
| `social_pass` | 2 slots, 2 subscriptions, the first renewed once; 1 credit per period; 2,066,688 states | `CreditsExplained`, `PeriodFillsOnce`, `EndIsKnownToStripe`, `CanceledWins` |
| `payouts` | 2 orders (a managed sale whose gateway cost more than was agreed, a sale by the seller's own methods), a week within a month, 2 payouts, 2 requests; 2,554,661 states | `NetIsOwed`, `LiquidatedTwiceOnlyByRaces`, `PaidTwiceIsKnown`, `FoliosAreGapless` |
| `jobs` | one job, 2 schedules, 2 instances with a tick each and an administrator, one crash, one exception, one edit, 2 minutes; 521,070 states | `RunsAloneUnlessStolen`, `DeadRunsEndAtRestart`, `DueJobRuns` |
| `card_membership` | a plan of each provider, 2 rows, 2 remote subscriptions, 2 requests and the sweep, 4 calls, one crash, one change of price, any ends outside the platform; 533,253 states | `OnePendingCard`, `OneMembershipPerPlan`, `EndsOnlyIfAsked`, `RevivedOnlyByReprice`, `OrphansEnd` |
| `periods` | 2 rows by transfer, 2 orders, 2 proofs, one invoice; 2 requests with 5 calls, the job without bound, one crash, a month before and after the noon that ends it; 1,187,401 states | `ProofTellsOrder`, `OneOrderWaits`, `OnePeriodPerPayment`, `PaidMonthsAreGiven`, `PaidInvoiceGivesPeriod` |
| `classes` | 2 classes with one place, 2 students with one credit, one order, 2 requests, 5 calls; 4,244,965 states up to symmetry of requests | `RacesAloneBreakLimits`, `CancelledClassIsReleased` |
| `late_proof`, `late_cancel` | one request at a time | counterexamples: see [Findings](#findings) |

Why the bounds are enough to be interesting:

- *settlement*: two calls race for one order while the third takes the shared
  code with the other order, or arrives after a crash; the two orders with it compete for
  the code's last use. Each call is used at most once, so repeated
  notifications are several calls. `MaxTables` bounds the rows up to which a
  person asks for a table: with one, a reservation can be cancelled before,
  between and after the statements of a settlement, and a settlement and a
  request can both create one. The constraint `TableApart` keeps to calls about
  the order of the table once somebody has touched it: orders without a table
  neither read nor write reservations.
- *ledger*: two payments that collide in `hashtext` make lock re-entrance and
  false sharing happen; a third key makes deadlocks possible. Two events per
  transaction are the least that makes one wait while it holds a lock.
- *sales*: the order of two tickets meets a cap with one place left; the two
  credit purchases compete for the last credit. `MaxManual` bounds the manual
  check-ins that are not voided, which could alternate for ever.
- *custody*: claim against claim against transfer, or scan, void, scan, out and
  scan again: five calls. In the model a call is never re-used. The check-in
  invariants `TicketAdmitsOne` and `InsideOnce` are conditional on `~raced`
  because they do not hold otherwise (two devices that synchronise one person at
  once both register him); the calls about custody overlap with everything in
  any case.
- *social_pass*: the second subscription is a re-subscription, the renewal is
  needed to tell "this period" from "already active". `MaxRow`, `MaxReset` and
  `MaxRedeem` are guards: they stop a behaviour at a third row, a third line of
  one kind for a period, a second redemption per run. The constraint
  `Undisturbed` stops exploration once `raced` or `crossed` is set: the first
  such state is still checked, what follows it is not. So this run is evidence
  for all four properties up to the first lost update; that `CreditsExplained`
  holds beyond it is proved.
- *payouts*: a week and the month around it are two periods that overlap; two
  requests are enough for two generations, an approval over a payment, or two
  folios at once. The constraint `OnePaid` explores money leaving for one payout
  and one mishap (an overwritten status, a lost answer, a conflict).
- *jobs*: the tick of the other instance is what steals; two schedules tell the
  old from the new. `MaxNow`, `MaxEdits`, `MaxCrashes` and `MaxThrows` are guards:
  one crash and one exception are a mutex that a dead run left and the sync that
  throws before it frees it. A job that stays due at the last minute still has to
  run.
- *card_membership*: two requests are a return and a subscribe, or a cancel and
  a reconcile; the second row is the next attempt, the second remote one a
  duplicate, a reprice or an orphan. `MaxCall` and `MaxCrash` are guards; the
  sweep is not counted, and neither are the steps of a call that began.
- *periods*: two proofs of one order are two reviewers, two orders the voided
  and the new one. `Months` is the length of the plan and `MaxTime` bounds the
  clock: one payment can come before and one after the noon, in a month that has
  been paid or not. The job's calls have no bound, so that a liveness property
  cannot hold because the calls ran out.
- *classes*: one place and one credit put every count at its limit; a promotion
  needs the third call and its consequences a fourth; the fifth is what a
  cancellation of the class overlaps with. The constraint `OtherClassStays`
  keeps the academy and the clock to the first class; the second one is there
  for the credits.

`CHECK_DEADLOCK` is off where an instance may really stop, which is everywhere
but in `payouts`, whose requests come for ever: calls are finite, and when they
have ended the system waits for no more.

**Fairness.** `ledger` assumes weak fairness of each transaction's own
statements and of the deadlock detector, which Postgres runs after
`deadlock_timeout`; starting to emit and rolling back are not fair. `jobs`:
node-cron fires every minute (`jobs.runner.ts`), a statement that does not throw
is answered, handlers end and an instance that died is started again; nothing
makes an instance start whose sync threw. `card_membership`: a
request that did not die goes on, time passes for every audited id, and the daily job walks
through every id in the audit, each time it runs (strong fairness of `SweepRead`
per id, because the sweep leaves and comes back, and of `Kill`, whose call to
the provider may throw but not always). Assumption: the grace of the sweep (two
minutes) is longer than the writes that follow a create's answer. `periods`: what
began goes on unless it dies, and the job fetches every invoice again and again
(strong fairness of `Fetch` per invoice). Nowhere are crashes, arrivals, or the
answers of people fair.

The history variables (`disturbed`, `raced`, `crossed`, `stolen`, `lost`,
`overwritten`, `stranded`, `torn`, `unreleased` and the like) say when an
interleaving took place that the code does not guard against. They are written
beside the state and never read by a guard, so they forbid nothing; a property
that is conditional on one says precisely under which schedules the code keeps
its promise.

## The proofs

TLAPS checks these for every number of orders, calls, codes, persons and
tickets, from the named assumptions on the constants only (the `ASSUME` of each
module, which TLC evaluates on each run). They say which constants are numbers,
sets or functions, that different kinds of names are not mixed up, and that the
classes and students of `ClassBookings` and the purchases of `TicketSales` are
finite in number.

| Theorem | Statement |
|---|---|
| `PaymentSettlementProofs!TypeCorrect` | the type invariant |
| `TicketsExactlyOnce` | `Spec => []TicketsIffPaid` |
| `SingleUseSafe` | `Spec => []SingleUseRespected` |
| `PaidIsFinalTheorem` | `Spec => PaidIsFinal` |
| `AnswersAreTrue` | `Spec => []AnsweredPaidIsPaid` |
| `NoticesOnce` | `Spec => []NoticesAtMostOnce` |
| `TablesAreHeld` | `Spec => []TableIsHeld`, however tables are asked for, cancelled and confirmed |
| `LedgerAgreesWithRow` | `Spec => []LedgerTellsStatus` |
| `ImplementsLifecycle` | `Spec => LifecycleSpec`, the refinement of `OrderLifecycle` |
| `TicketProofs!TypeCorrect` | the type invariant |
| `FirstClaimWins` | `Spec => []OneClaimPerTicket` |
| `LinksOnlyTakeFromBuyer` | `Spec => []TokenOnlyWithBuyer` |
| `NoTicketIsLost` | `Spec => []UsedTicketHasEntry` |
| `SerialCheckins` | `Spec => [](~raced => Serial)`: what a call about check-ins read is still so when it writes |
| `OneEntryPerTicket` | `Spec => []TicketAdmitsOne` |
| `NobodyInsideTwice` | `Spec => []InsideOnce` |
| `SalesTyped` | `SalesSpec => []SalesTypeOK` |
| `OversoldOnlyByRaces` | `SalesSpec => []PresaleOversoldOnlyByRaces` |
| `NoCreditLost` | `SalesSpec => []CreditsConserved` |
| `OrdersWithinCap` | `SalesSpec => CreatedWithinCap` |
| `PayoutsProofs!ManagedSaleKeepsNet` | the deductions of a managed sale leave the frozen net, for every amount, cost and VAT |
| `PayoutsProofs!TypeCorrect` | the type invariant |
| `LiquidatedOnce` | `Spec => []LiquidatedTwiceOnlyByRaces` |
| `PaidOnceOrKnown` | `Spec => []PaidTwiceIsKnown` |
| `FoliosWithoutGaps` | `Spec => []FoliosAreGapless` |
| `SellerGetsWhatIsOwed` | `Spec => []NetIsOwed`, for every set of sales and every mode |
| `JobRunnerProofs!TypeCorrect` | the type invariant |
| `RunsAlone` | `Spec => []RunsAloneUnlessStolen` |
| `DeadRunsEnd` | `Spec => []DeadRunsEndAtRestart`, whichever statements throw |
| `ScheduleFollows` | `Spec => []ScheduleIsCurrent` |
| `LedgerProofs!SequencesWithoutGaps` | `Spec => []SequencesHold` |
| `ChainsVerify` | `Spec => []ChainVerifies` |
| `TamperIsReported` | `Spec => []TamperEvident` |
| `PassTyped` | `PassSpec => []PassTypeOK` |
| `CreditsHaveLines` | `PassSpec => []CreditsExplained` |
| `PeriodsFillOnce` | `PassSpec => []PeriodFillsOnce` |
| `StripeKnowsTheEnd` | `PassSpec => []EndIsKnownToStripe` |
| `CanceledStays` | `PassSpec => CanceledWins` |
| `ClassBookingsProofs!CancelledClassesEmpty` | `Spec => []CancelledClassIsReleased` |
| `LimitsBreakOnlyByRaces` | `Spec => []RacesAloneBreakLimits`, for any capacities and limits |
| `MembershipPeriodsProofs!TypeCorrect` | the type invariant |
| `OrderFollowsItsProof` | `Spec => []ProofTellsOrder` |
| `OneOrderWaitsForTransfer` | `Spec => []OneOrderWaits` |
| `EachPaymentOnce` | `Spec => []OnePeriodPerPayment` |
| `MonthsPaidAreGiven` | `Spec => []PaidMonthsAreGiven`, for a plan of any number of months |
| `CardMembershipProofs!TypeCorrect` | the type invariant |
| `OneCardPending` | `Spec => []OnePendingCard` |
| `OneInForcePerPlan` | `Spec => []OneMembershipPerPlan` |
| `EndsOnRequest` | `Spec => EndsOnlyIfAsked` |
| `StaysCanceled` | `Spec => RevivedOnlyByReprice` |

**Settlement.** `TicketsIffPaid` is not inductive: a state where two calls stand
before their commits for one order satisfies it, and the second commit doubles
the tickets. The invariant `IInv` adds `ClaimInv`, that a call with an open
transaction holds its row's lock and that the row is as its claim found it (not
PAID, or PENDING for a FAILED claim), and `CodeInv`, that a call about to commit
holds its code's lock and found a use left. Both say the same of one idea: what
a conditional update established stays true until the commit because the lock is
kept. `OthersFrame` is the lemma behind it: a step of one call leaves alone what
another call's lock protects. Finality and the refinement are then
non-temporal facts about one step (`PaidStep`, `LifecycleStep`): every action is
a stutter of `OrderLifecycle` but the two commits.

The other invariants rest on it with one more each. `AnswerInv`: a call that
read PAID, committed a payment or has answered so is right, and stays right by
finality. `NoticeInv`: who is about to send a notice is the only one and nobody
sent it before, because two commits of one kind would contradict `ClaimInv`.
`TableInv`: a settlement that decided to book no table saw an active reservation,
and either one is still there or its order is `unseated`. `ReservationStep` is why:
calls only add reservations, and the cancellation that takes the last one away
finds the order PAID or its settlement past its look (`Looked`). All the other
invariants pass over what people do about tables in one lemma, `Steps`. `LedgerInv`: the log of an order tells one of the stories
that its status allows. `Transitions` is a recursive function over the log, and an
induction over data is out of the prover's reach; so the induction is the one over
the steps of the system: `Tells(s, x)` says that the equation of `Transitions` has a
solution for the log `s` and that every solution ends in `x`, and `TellsMore` carries
both over one more event.

**Custody.** `OneClaimPerTicket` needs `ClaimedIsBurnt`, that the link of a
claimed ticket is burnt, and `DoneOrNothing`, that a call in progress has neither
answered nor created a check-in; the latter also makes a check-in's name fresh,
on which `UsedTicketHasEntry` rests when a scan of a ticket races a void of it.
One lemma per action, one step per conjunct that the action can disturb.
`TicketAdmitsOne` and `InsideOnce` have an invariant of their own, `Serial`,
which holds until `raced` is set: one call at most is at work on the check-ins,
and what it read is still so when it writes (`ScanStillFree`, `PassStillActive`,
`VoidedStillStands`). Transfers and claims do interleave with it, but change
neither the status of a ticket nor a check-in (`CalmKeepsSerial`). The tie between
the two tables is `StandingUsesItsPass`, the converse of `UsedTicketHasEntry` that
only holds here: when two scans overlap, the void of one check-in gives back a
ticket that the other one still has.

**Sales.** `PresaleOversoldOnlyByRaces` has a hypothesis about every presale order:
that none was disturbed, or paid after it had lapsed. A step that makes one order late says
nothing of the others, so the property cannot be carried from step to step.
`UndisturbedFit` can: the presale orders that nothing disturbed and that still
hold their places fit within the cap, whatever became of the others, and where the
hypothesis holds these are all. The step to show is `Create`, and it rests on
`CountIsCovered`: what an undisturbed purchase has counted is at least what is
there, although its queries are not one snapshot, because until it is disturbed
nothing that counts can grow. `OrdersWithinCap` follows from the same fact, for the
door too. Tickets are counted as the cardinality of a set of pairs (order,
number), since an induction over a sum is out of the prover's reach; so
`TicketsAdd` and `TicketsGrow` follow from the theorems about finite sets, and
`CreditsConserved` is inductive with `StageTellsOrder`.

**Payouts.** `ManagedSaleKeepsNet` is arithmetic: the lines of
`managedSettlementLines` add up to the deduction that was frozen, rounding and
the cap included. `LiquidatedOnce` needs `SawItsPeriod`: a generation that found
nothing knows every payout of its period up to the number it has counted.
`PaidOnceOrKnown` needs to know what each request read and that evidence, transfer
and status go together (`MoneyIsRecorded`, `HandFirst`). `FoliosWithoutGaps` needs
`FolioIsHeld`: who took a folio holds the counter's row until it has inserted.
`NetIsOwed` compares two sums over the same orders. `EverySaleLeavesWhatIsOwed` shows
that they agree term by term, in each mode of charging; a fold over a set is the
function that a recursive equation chooses, and equations that are equivalent
choose the same one, so `NetIsSumOfOwed` needs neither an induction nor that the
orders be finite. `NetIsOfItsOrders` carries it from the creation of a payout on.

**Jobs.** `RunsAlone` rests on `RunHoldsMutex`: unless it was stolen, the mutex
names the worker that runs. `DeadRunsEnd` on `CrashIsCleared`: a mutex that a
dead run left is taken away by the last statement of `sync`, and until then some
instance is down, starting, or up after a sync that threw; so that invariant
speaks of the sync that is still to come, or that has failed. `ScheduleFollows` on `SeenIsCurrent`: unless an edit
overlapped, whoever has a job in hand has read the row that is there.

**Ledger.** The invariant says that the events of a payment are a `Chain` of some
length, as committed and as each open transaction sees them (`ChainsHold`); that
who has written events of a payment, or is about to, holds its key (`LocksHold`);
and that what was read last is still the end of the chain when the row is
inserted (`ReadIsLast`). A commit is the step that matters: where it adds rows,
the lock keeps every other transaction from having any or having read
(`CommitInv`). Because the inserted number is one above every visible one, the
unique key never rejects. What `verifyPaymentChain` answers is then a fact about
chains alone (`ChainIsVerified`, `TamperIsFound`), and the number of events
follows from a bijection with `1..n` (`ChainLength`). The one thing assumed of
SHA-256 is that `Hash` is a constructor.

**Pase Social.** The billing periods of all the subscriptions are in one order
(`NotAfter`). `PeriodFillsOnce` asks why a line that is about to be added is not
there. `LinesBehind` says that no line is of a later period than the row; and
`OnOwn`, that a handler activates no earlier one than that of the row it read, on
the row's own subscription. So where the row was not overwritten, what it
activates is either the row's period, which `Duplicate` sees, or a later one,
which has no line. `RowInOrder` and `StripeInOrder` place the periods of the row and
of the handlers among those that Stripe has begun. `EndIsKnownToStripe` needs what
brought a handler where it is (`Justified`): who writes that the pass ends has
asked Stripe, or was told so; and `Grows`, that Stripe never takes an end back.
`CreditsExplained` needs no hypothesis: the row and the ledger are written in one
transaction, whatever was read before. The lines are a set (`ResetLines`), each with
its number, for the same reason as the tickets. The run stops at the first lost
update; the theorems do not.

**Classes.** A class that is being cancelled, or was, may still be written by a
booking, a cancellation or a payment that had begun. So the invariant is about
both kinds of class (`Closing`): while the transaction is open, who has a place is
among the selected rows, which it will update by their ids, or is `Known`, that
is, recorded as out of its reach (`PlacesAreKnown`). `CallsAreKnown`
says the same of every call, and `OrdersAreKnown`, of a class whose cancellation
has committed, that every order that is not paid, a FAILED one included, was
recorded; a promotion picks from who waits, which in such a class is known too.
At the commit the selected rows are released and what is left is known.

The limits need an invariant about calls rather than rows (`LimitInv`). `Relies`
says what a call has read and still holds when it writes: the place it counted is
free (`PlaceIsFree`), the credit it found is left (`CreditIsLeft`), a late
cancellation loses a credit that was spent or can be (`LateIsSpent`), and who is
promoted takes the place of who leaves, who has it until then unless the academy
has released it, and then it is free (`PlaceIsHandedOver`). All of it is said
of classes and students that are not in `crossed`, and `OneCallEach` says that
such a class or student has one call at most; so the step of one call writes
nothing that another relies on (`OthersRely`). Only the academy, whose
cancellation is no call, writes under a call's feet: it frees places and gives
credit back, except for a row that a transaction has locked. The counts need
classes and students to be finite and four facts about cardinalities
(`OneMoreCounts`, `ExchangeCounts` and the like).

**Periods.** `ProofTellsOrder` says that the order of an approved proof is paid
or about to be. Two rows are written by two requests, so the invariant follows
the order: `OrderIsThere` (whoever settles has an order that is not deleted),
`CommitAlone` (between the claim and the commit nobody else can settle or void
it), `PaidIsApproved` and `ApprovedIsPaid` (the two directions, each with the
worker that stands between the two writes). `OneOrderWaits` rests on
`OrdersMatchRows`: unless a cancellation was torn, orders wait only while a row
does. `OnePeriodPerPayment` needs that the commit finds the payment not yet PAID
and that one that is not PAID has given nothing (`GivenOnce`). `PaidMonthsAreGiven`
is an account (`MonthsAddUp`): what the enrollment covers never exceeds the
present month and what was paid, and unless it is `adrift` it is no less than
what was paid, up to the months of a last afternoon. It rests on what a settlement read being
still there when it writes, which is what overlap takes away; and on the calendar:
`Extended` adds its months to the month of its base, which is the present one
when nothing is in force. An attempt at this proof found that the model had claimed an
order that a collect had deleted, where the code's conditional update counts no
row; the model now does what the code does, and the run sees one more race.

**Cards.** `OnePendingCard` is inductive by itself with `WorkKnown`: a `Sync` never
writes PENDING_CARD, because nobody reads a remote id of a row that waits.
`OneMembershipPerPlan` is not: it becomes `OneLivePerPlan`, that a row is in force
no more once there is a newer one of its plan, because that is what the
transaction under the lock looks at (`RowsKnown`: rows are numbered in the order
of their creation). The steps that could bring an older row back are the `Undo`
and the `Activate` of a reprice, which `NotesKnown` shows to be of a row where a
cancellation met the reprice, and the writes of what is stale. A row that is being
activated is in one worker's hands (`ClaimsAlone`) and nobody has read it as
ACTIVE (`NeverActive`). `AskedStays` keeps a canceled row canceled as long as
nobody has a note of a reprice of it. `EndsOnlyIfAsked` relates the row to the
remote subscription: `ActiveIsCharged` says that the one of an ACTIVE row goes
on, or was ended outside the platform, or that its end is noted or somebody is about to note it, and it rests on what the
ids mean (`CreatedAlone`: a subscription that a worker has had created is on no
other row and in no other hands; `KillsNoActive`: the sweep holds none of an
ACTIVE row; `ToldTruth`: an end that the provider told stays true). With a second
reprice under way the properties needed the wider `repricing` and `dropped` that
[CardMembership](#cardmembership) describes; the instance of the run is too small
to show it, and the proof showed it.

## Findings

Each is a run that TLC must find violated, with the text it contradicts quoted
in `PROJECT.json`.

| Run | What the code does |
|---|---|
| `late_proof` | a proof that is approved late pays an order that a replaced attempt had voided, and activates whatever row of the plan waits |
| `late_cancel` | a student who cancelled after the cutoff, which costs the class, joins the waiting list of the same class, and the credit is back |

Other behaviour that a reader of the code should know of. The models have it,
and the properties that pass are stated around it:

- two purchases that count before either creates its order exceed `presaleCap`
  (`checkout.service.ts:832`), and so does an order that was refused, or is 30
  minutes old, and is paid after its place was sold
  (`payment-settlement.service.ts:469`; `PresaleOversoldOnlyByRaces`);
- the producer may confirm a reservation that was cancelled while the person has
  another (`table-reservations.controller.ts:194`), and a person whose
  reservation is cancelled after she paid for it is not given another;
- a `sync` that throws is logged and not tried again (`jobs.service.ts:58`), and
  so is the statement that frees the mutex at the end of a run (`:199`): the job
  stays blocked until an instance starts and its `sync` completes
  (`DeadRunsEndAtRestart`, `Blocked`);
- a monthly plan paid on the last day of a month after noon, with nothing in
  force, ends before it begins (`membership-vigency.ts:59`; `missed` in
  `PaidMonthsAreGiven`); a payment of a paused membership drops what was left of
  it, and of two payments at once one gives nothing
  (`payment-settlement.service.ts:894`; `adrift`);
- who books, or pays a FAILED or pending order, while the academy cancels the
  class keeps a place in it (`class-series.controller.ts:1044`; `unreleased`);
- `doorSale` compares `doorCap` with MANUAL check-ins only, so the staff sells on
  after the app has sold the door out (`checkins.service.ts:385`);
- a process that dies between taking credits and settling the free order leaves
  it PENDING for ever (`checkout.service.ts:1094`);
- two devices that synchronise one person at once both register him
  (`checkins.service.ts:182`), and a voided check-in still counts as open
  (`prisma-checkins.repo.ts:51`);
- the deletion of the subscription that `subscribe` itself cancelled cancels the
  new pass (`social-pass.service.ts:533`);
- the ticks of two instances that read the same due job run it one after the
  other (`jobs.service.ts:235`: the claim does not ask that it is still due);
- a reprice noted before a cancellation brings the membership back when its
  remote subscription ends (`subscriptions.service.ts:1949`;
  `RevivedOnlyByReprice`);
- a collect that throws after its payment was settled deletes the PAID order
  with its ledger events (`subscriptions.service.ts:2408`); when it throws while
  another pass retries the same invoice, that pass marks an invoice that has no
  order (`:1880`), and the period it paid for is not given (`stranded` in
  `PaidInvoiceGivesPeriod`);
- two reprices of one row under way at once, after one that had failed: the first
  makes the row ACTIVE, the owner cancels, and the second makes it ACTIVE again,
  since the row is CANCEL_PENDING as it had read it
  (`subscriptions.service.ts:1949`; `repricing` in `RevivedOnlyByReprice`);
- a payment of a class by someone who already has a place in it counts that
  place, and in a full class moves the payer to the waiting list
  (`payment-settlement.service.ts:1071`); two cancellations at once promote the
  same person and leave a place free.

<a name="limits"></a>
## What is only model-checked, and what is not modelled

Only model-checked: liveness (`EmittersEnd`, `DueJobRuns`, `OrphansEnd`,
`PaidInvoiceGivesPeriod`), which needs reasoning about fairness that the prover
does not do. Every safety invariant and every action property that a run checks
is proved; so are `NoticesAtMostOnce`, `PaidIsFinal`, `TokenOnlyWithBuyer` and
`ScheduleIsCurrent`, which no run repeats. That the counterexamples of the two runs under [Findings](#findings)
exist is TLC's word alone.

Not modelled:

- **Other writers of an enrollment**: the academy's approval of declared payments,
  imports, a new student at the desk and an arbitrary date (`EditEnrollment`
  keeps or clears the date), and plans of a trial, single classes or packs.
- **The other branches of `settle`** (series passes, private lessons, platform
  charges). They share the claim that is modelled and proved.
- **Platform subscriptions.** The card part repeats `CardMembership` under other
  names; what is its own is pricing and the blocking of academies.
- **Academy deals.** Checks that count and then create, as in `TicketSales`, and
  a debt that two clicks may settle twice (`academy-sales.service.ts:652`).
- **Series and attendance of classes, packs, private lessons.** Edition of rows
  and dates; `releaseBookings`, which they share, is modelled.
- **Gateways.** HTTP and signatures; their outcomes are nondeterministic inputs.
- **Auth, mail, social, events, CRM, reports, administration, people and the web
  application.** Single-row operations, reads and presentation.

Hazards that no property covers carry their reason in the list of
`PROJECT.json`. Others that are real and belong to parts that are not modelled,
or to a case that an instance leaves out: the reservation of a table is looked
for and then created, so that two orders of one person settled at once leave two
(`payment-settlement.service.ts:553`); receipts are sent after the commit by the
winner of the claim alone, so a crash in between loses them (`:605`; `NoticesOnce`
says that they are never repeated, and not that they arrive); `confirm` activates
a Pase Social whose renewal is unpaid (`social-pass.service.ts:401`); two
purchases pass the `maxTickets` of an academy's agreement with the same count
(`academy-sales.service.ts:288`); the pass of a guest is looked for among the
ACTIVE ones, so one that was used is issued again
(`guest-lists.controller.ts:304`).

## Plan

Built so far, in the order of what each protects: settlement and its ledger,
sales and custody of tickets, the Pase Social, payouts, jobs, memberships by card
and by transfer, classes. Next:

1. `AcademyDeal`: agreements, codes and debts; entry and series passes in
   `TicketCustody`.
2. `PlatformBilling`: plan changes, promotions and the blocking of academies.
3. Packs and several enrollments in `ClassBookings`, with the series that
   materialise and cancel classes.
4. Mail campaigns and sessions of authentication.
