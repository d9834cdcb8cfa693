# A verification project for logand.app

logand.app is a small-business backend (FastAPI, SQLAlchemy, Postgres) with a
web frontend and an Android client. Its core is an invoice ledger: customers
pay by card (Stripe) or PayPal, admins record other payments and refund any of
them, webhooks and a daily scheduler bring news from the providers. Around it
stand accounts, recurring billing, sales tax, stock, uploads, mail and an
editor of raw rows. Everything here is about `backend/src/logand_backend/`;
paths below are relative to it.

## 1. Inventory

| Component | State it keeps | Operations | Hard part | Correct when | Module |
|---|---|---|---|---|---|
| Collection: `domain/invoices/service.py`, `api/invoices_public.py`, `api/invoices.py`, `api/webhooks.py` | `invoices.status, stripe_payment_intent_id, paid_at, needs_review`; `payments` | create, send, void, record a payment, pay (card, PayPal), capture, `payment_intent.*`, poll of held captures, overdue sweep | concurrent requests on one invoice, at-least-once unordered webhooks, a provider that acted before an answer is lost or a commit fails | credits are backed, over-collection is flagged, a paid invoice is covered | `Collection` |
| Refunds: `domain/invoices/refunds.py` | `refunds`, and the payment's and the invoice's status | request (two transactions around a provider call), settlement by webhook or poll | retries under an idempotency key, the lock released during the call, events that overtake the row | never more given back than was paid; pending ones settle | `Refunding` |
| Statistics: `domain/invoices/stats.py` | none | figures of the dashboard | refunds and disputes overlap | net is what was kept | `Statistics` |
| Recurrence: `domain/invoices/recurrence.py` | `is_recurring, due_date`, the cycles | the daily job | overlapping runs, `SKIP LOCKED`, short months | one successor per due cycle, the series goes on | `Recurrence` |
| Accounts: `domain/auth/`, `domain/users/`, `auth/sessions.py` | users, sessions, single-use tokens | register, verify, claim, reset, log in, use a session, log out, (de)activate, seed | one token redeemed twice at once, sessions beside a reset, a request that is two transactions | a token works once, nobody gets a password without the mailbox | `Accounts` |
| Rate limiter: `auth/rate_limit.py` | a Redis counter, local memory | check | crash between `INCR` and `EXPIRE`, fallback | it limits, and lets go again | `RateLimiter` |
| Inventory and BOM: `domain/inventory/`, `domain/bom/` | quantities, audit rows, material lines | adjust, set, build, edit lines | row locks in no agreed order, lost updates | the audit explains the quantity; a build is whole | `Stock` |
| Sales tax: `domain/invoices/tax/`, `scripts/fetch_tax_rules.py` | classifications, charges, flags; rates by period | classify, review, charge; add a rate, load a file, look up | a slow call inside a transaction, a write that fails half way, concurrent rate changes | what is not decided is not charged but flagged, and nothing else is charged than what an admin decided, unless two UPDATEs crossed; a rate at every instant | `TaxReview`, `TaxRates` |
| Raw data editor: `domain/admin_data/` | any row, the audit log | insert, update, delete, revert | writers beside each other | the audit row of each write is exact, and a write can be undone | `RawData` |
| Disputes: `api/webhooks.py` | `payments.dispute_status` | webhook | repeated, concurrent, unordered events | admins are written to about changes, once | `Disputes` |
| Notifications: `domain/notifications/` | the cached Gmail token, opt-outs | send | one cache, many sends; 401 and renewal | no mail lost to a dead token, no verify or reset link to a token that is not committed | `Mail` |
| Uploads: `domain/storage/`, receipts, documents, evidence, proofs | rows and objects | attach, delete, reconcile | row, object and commit are three steps | a row has its object | `Uploads` |
| Provider clients, database session, scheduler | - | - | what a repeated call answers; commit after the response | - | in the ledger's modules |
| Export, PDF, logging, scripts, frontend, Android, ops, ASCII renderer, test doubles | - | - | - | - | none |

Interaction. Handlers share one Postgres database under READ COMMITTED; a
request is one transaction unless it calls a provider in the middle. The ledger
and the statistics read the same rows; `Recurrence` writes an invoice's
status beside the ledger; creating an invoice asks `TaxReview` for charges and
for `needs_review`; accounts mint the links that `Mail` carries; a dispute
ends in a mail. Everything else meets only in the database.

The hazards, each at its line, are in `PROJECT.json` with the properties
aimed at them.

## 2. Modules

The ledger:

- `LedgerState`: the rows of `invoices`, `payments`, `refunds`, the webhook
  events Stripe has emitted, and the arithmetic that every handler shares
  (`get_paid_so_far`, `get_amount_due`, `settle_invoice_if_paid`,
  `_refunded_so_far`, `_reserved_so_far`, `to_minor_units`).
- `Collection`: how an invoice collects money. External state: `intent`
  (Stripe's PaymentIntents) and `order` (PayPal's orders).
- `Refunding`: refund requests and settlements. External state: `moved`, the
  refund a provider holds under each idempotency key.
- `InvoiceLedger`: the two composed over the same rows, the fairness, the
  properties, and the refinement.
- `Till`: what all that promises, with no webhook, lock, poll or retry in it:
  money is taken once for each payment and for the sum collected, given back in
  steps that never add up to more, and an invoice is settled only at a moment
  when what was taken and kept covers it.
- `Statistics`: `stats.py`'s figures as operators over the ledger's state.

The rest, one module each and no variable in common:

- `Recurrence`: overlapping runs of the daily job (`JobReads`, `JobClaims`,
  `JobCommits`, `JobAborts`), dates as <<month, day>>, and what happens to a
  cycle outside the job.
- `Accounts`: users, tokens, sessions. A transaction whose writes rest on an
  earlier read is a row of `txn` between its two steps. A request
  that changes something is three: the middleware reads its session
  (`ValidateSession`), slides and commits it (`RequestCommits`), and the route
  runs and commits in a transaction of its own (`RouteCommits`, `Logout`); a
  safe one is answered in the transaction that read the session.
- `RateLimiter`: the Redis counter, the expiry set by a second call, each
  worker's fallback memory, deaths and restarts.
- `Stock`: a request begins, locks its rows one at a time in the order the
  database visits them, and commits, or is the victim of a deadlock.
- `TaxReview`: the request that creates an invoice, from the lookup of what is
  classified, through the call to Claude, to its commit; the admin's review
  beside it, with the unit of work's partial UPDATE (`Flushed`). Two history
  variables: `ruled`, the decisions admins have taken of a kind of item, and
  `crossed`, the kinds of which an UPDATE met a row changed since it was loaded.
- `TaxRates`: one transaction takes its instant, looks up its topics one by one
  without locks, closes what it read and inserts its own; the in-memory
  resolver and `lookup_rate`.
- `RawData`: locks, snapshots, writes, the log, and replay backwards; the
  application writes the same rows.
- `Mail`: who is written to; single-use links minted, committed or rolled back
  (`RequestLink`, `CommitLink`, `LinkCommitFails`) before their mail is
  scheduled (`ScheduleMail`), a claim link after its mail (`SendEnds`); one send
  through the Gmail API as several actions.
- `Disputes`: one disputed payment; row lock, commit, then the mail.
- `Uploads`: row, object, commit; both storage backends by what a failed put
  leaves.

For TLC: `MCInvoiceLedger` (symmetry), `MCAccounts`, `MCRecurrence`, `MCStock`,
and `MCBackOffice` (symmetry of the requests that create an invoice and of the
sends), which puts the seven components that share nothing side by
side. Its variable `focus` is chosen at the start and only that component
moves, so that the run has the sum of their states and not the product.

For tlapm: `Sums` (lemmas about sums over finite sets), and on it the ledger's
`InvoiceLedgerProofs`, `BackedProofs`, `MoneyProofs` and `TillProofs`, each
extending the one before; `AccountsProofs`; `TaxProofs` for `TaxReview` and
`TaxRates`; `BackOfficeProofs` for `RawData`, `Uploads`, `RateLimiter`,
`Recurrence`, `Stock`, `Mail` and `Disputes`, one section each.

What an action is. A handler that holds its row with `SELECT ... FOR UPDATE`
from its first read to its commit is one action, its early returns the guards.
Where a handler reads without a lock, or commits and locks again, or waits for
another system, it is several: the overdue sweep (`SweepRead`, `SweepWrite`), a
refund request (`RefundPayment`, `CallProvider`, `RecordRefund`; any of them
may be the last, `DropRequest`), a settlement (`SettlementSums`,
`SettlementCommits`, `SettlementAborts`: the sum is taken before the invoice
lock), a mint or a redemption of a token. `get_db` commits after the response
has left, so a commit may be lost after a provider has acted (`lost`, at most
`MaxCommitFailures` times). An answer to a capture may be lost, late or
unreadable any number of times: PayPal has acted, the route fails
(`api/invoices_public.py:431`), and the order's `heard` stays false. The ORM writes an attribute only when it differs
from the loaded one and does not reload it after a commit: a refund request
carries what it saw (`seenPayment`, `seenInvoice`; `Written`), and so does a
classification that was read before the call to Claude.

Abstractions. An amount is an integer, counted in the smallest step of
`Numeric(14,3)`; `MinorUnit` such steps are one cent, so that rounding is
visible. Rows are named by what their unique index protects. `paid_at` only
tells unset, first and later. A password is a value of a set, a hash in the
raw data editor only tells set, unset or struck out. Time is a tick where an
expiry matters and an instant per transaction in `TaxRates`. Wording, logging
and layout are left out. Several Stripe deliveries of one event are one
element of `inbox` that an answer may or may not remove.

## 3. Runs

| Run | Asks | Bounds |
|---|---|---|
| `collect` | can one invoice be paid in any way and order and stay right, lost answers and one lost commit included? | 2 intents, 2 orders, 1 manual payment; 3 storage steps to the cent, so that what is left due rounds up (2), down (4) or not (3); 1 lost commit |
| `refunds` | concurrent, retried, dropped and late refunds, webhooks redelivered; the statistics over every state of it | a manual and a card payment, 2 requests, 2 refunds, every set of disputed payments; the overdue sweep reads and writes between requests (`SweepsBetweenRequests`, a constraint of this run); beside requests in progress it runs in `live_refund` |
| `live_collect` | does money stay with its invoice; what must eventually happen (card money, reviews), and the refinement of `Till` | 2 invoices, 1 intent, 1 order, 1 manual payment, tax that may ask for review, 1 lost commit, no symmetry |
| `live_refund` | the same for refunds, and types | 1 order, 2 requests, 2 refunds, no symmetry |
| `accounts` | tokens, logins, requests, resets and deactivations beside each other | 1 address (also the seeded one), 2 tokens, 2 sessions, 2 transactions, 2 passwords, timeouts of 1 and 2 ticks, a lifetime of 2 |
| `recurrence` | overlapping and failing runs; does the series go on? | 3 cycles, 2 runs, 1 failure; weekly, monthly, yearly from 31 January and 29 February 2024 |
| `stock` | two requests over shared items, with deadlocks | 2 items, 1 bill of materials, builds of -1 and 1, 2 audit rows per item |
| `back_office` | each of the seven other components by itself | two of everything that races; 3 audit rows, 3 Gmail tokens, 4 dispute deliveries, 3 rate changes, 3 uploads, the local storage backend, a limit of 2 in a window of 2; 2 decisions for one kind of item, 1 for the other, which is never overridden (`PlainStaysPlain`) |

One invoice is enough for most questions about money: handlers lock one
invoice and touch no other; what two can confuse (an order captured through the
wrong route, a sweep over both) is `live_collect`. Two of each racing thing
give every race of two; a third would repeat it. Where a counter is bounded
(`MaxEntries`, `MaxTokens`, `MaxLinks`, `MaxDeliveries`, `MaxChanges`,
`MaxAdjustments`, `MaxCycles`, `MaxAborts`) the bound is in a guard and is past
the first point where a second event meets the traces of a first. Deadlock is
not checked: an invoice nobody pays, or a bounded log that is full, has nothing
more to do.

With two workers `refunds` and `live_collect` take about three minutes, the
others less.

### What holds, and what it rests on

- `ChargeableIntentIsHeld`: the intent an invoice holds is the only one its
  customer can still confirm, because the stale one is canceled before its
  successor is created. With a lost commit two may be chargeable, hence
  `lost = 0` in it.
- Over-collection is flagged by the transaction that records it
  (`OverCollectionIsFlagged`), credits are always backed
  (`RecordedPaymentsAreBacked`), even when commits are lost.
- `CapturedMoneyIsRecorded` is about orders whose capture the invoice's own
  route has been answered, once, and has committed: such money has a row,
  whatever was lost before, whatever is due by then and whatever else was paid.
  Without that there may be no row: the answer was lost, late, unreadable or in
  another currency, the commit failed, or the order was captured through
  another invoice's route (the check of `reference_id` comes after PayPal has
  acted). A retry by the customer repairs a lost answer or commit, if
  it comes.
- `NoOverRefund` counts refunds that went through, a provider's by what it
  moved: whole cents. With pending ones counted too the bound can be passed for
  a while: a refund the provider has already given up stays pending on the
  books until its event is handled. The rows' own amounts can pass it for good
  (`fractions_overrun`, below).
- `ImplementsTill` is checked with and without refunds. Its mapping counts
  money as taken from the moment its row is credited and keeps it taken
  whatever a late event writes over a refunded row. It is what catches an event
  that credits twice or settles an invoice that is not covered.
- `NetIsWhatWasKept`: `net_collected` equals what `get_paid_so_far` still
  credits, in every overlap of partial refunds and lost disputes, as long as
  refunds match receipts: a late `payment_failed` over a payment refunded in
  part, and refunds in fractions of a cent, break that (both below).
- `OldSessionsOverlapped`: a session under an old password, or of a disabled
  account, is one whose login ran beside that very change. A request that
  begins once the account is disabled is not carried out even through such a
  session, and none prolongs it (`DisabledAccountsDoNothing`); a request that
  has passed the middleware before is carried out (below).
- `MailedLinksAreCommitted`: the commit of a verify or reset link is a step
  before its mail is scheduled, and it may fail; no mail has gone out then.
- `UnreviewedTaxIsHeld`: an invoice whose tax was applied has every line priced
  by a decided classification or is flagged, and a flagged one leaves only when
  acknowledged. What a kind of item is charged as is what some admin decided of
  it, with one exception: where an UPDATE met a row changed since it was loaded
  (`crossed`), a row may be called confirmed with what Claude answered, and it is
  charged unflagged (`human_decision`, below). It is not claimed that a decided
  line charges anything.
- `AuditIsExact` is about the audit row each write leaves, the write of a revert
  included. The second row a revert leaves (`data.revert`) quotes the states of
  the entry it reverts and not the row's, and is not in the model.
- `SeriesHasOneHead`, `PeriodsAreKept`: overlapping runs neither fork nor lose
  a series; a month-based one is clamped to the month's last day and then stays
  there.
- `TrailExplainsQuantity`: the audit rows of an item chain and end at its
  quantity, which never goes below zero; not for a quantity entered by hand.
- `RatesHaveNoGap`: a closed rate always has a successor that starts no later.
- `ImplementsTill` does not say that a status stays: the till permits an
  overdue sweep over a paid invoice and a void one that becomes paid, because
  the code does both.
- `BlocksEnd`: only a worker that died, or lost Redis, between `INCR` and
  `EXPIRE` leaves a counter without an expiry.

### Where code and documentation disagree

Four runs expect a counterexample (`PROJECT.json`, "findings"):
`settlements_race` (a stale sum of refunds is written over a newer status),
`refund_event_lost` (the webhook overtakes the row it is about and is answered
200), `fractions_overrun` (two concurrent refunds with a fraction of a cent: the
provider rounds and refuses neither, the rows add up to more than the payment,
which `refunds.py:334` says only a provider's leave can bring about) and
`human_decision` (an admin's decision is partly overwritten by an answer of
Claude's: it commits between the SELECT of `upsert_pending` and its flush).

Others were met while modelling and have no run of their own; the models
contain the behaviour and the properties above are worded around it:

- the overdue sweep writes over a payment committed between its read and its
  write; the invoice is payable again and `paid_at` may move a second time;
- a void invoice becomes paid when an intent that survived the void is charged;
- `payment_intent.succeeded` delivered again after a refund, or
  `payment_failed` delivered late after a partial refund, rewrites the status of
  the refunded payment; after the latter `net_collected` is too low by the
  refund;
- what is left due below half a cent is never charged;
- a capture whose answer was lost, or whose commit failed, is recorded only if
  the customer's browser asks again; when the invoice has been paid by other
  means in between, that retry answers 409 before it asks PayPal, and the
  captured money stays without a row;
- a mutating request resolves its session in the middleware, which commits, and
  its route asks no more (`app.py:198-254`): one that was let through is carried
  out although its account is deactivated meanwhile, where
  `domain/users/service.py:49-56` has "deactivated" mean logged out now;
- a line whose decided category has no rate configured is neither charged nor
  flagged: `tax/apply.py:112-118` says such a line is held for review, but only
  undecided ones are counted;
- verification and claim of one address at once: the later commit writes its
  password over the earlier one's;
- a login that has checked the old password beside a reset opens a session that
  the reset does not delete;
- automatic tax at the creation of an invoice is best effort: when writing the
  charges fails, the invoice is created untaxed and not flagged; when a flush
  outside the savepoint fails (a classification somebody else has just
  inserted, a deadlock), the error is swallowed, the request answers with an id
  and the invoice is lost with the transaction (`api/invoices.py:184`);
- two current rates for one topic after two concurrent additions, and rows that
  are closed at an instant before the one they begin at;
- evidence under a file name the entry already has replaces the earlier object,
  whose row keeps the old hash (`api/budget.py:54`);
- `update_item_quantity` leaves no audit row;
- the link to claim an account is mailed inside the transaction that mints it;
  when the commit fails the link is dead;
- the mail about a dispute is lost when the process dies between commit and
  mail, and an old event delivered late leaves an old status.

## 4. Fairness

The ledger's `FairSpec` assumes weak fairness of: the success webhook (Stripe
redelivers until it is answered 200); the end of PayPal's reviews, and the
daily polls (the scheduler loops for ever and catches each job's exceptions);
the resolution of pending refunds; the start of a settlement. It assumes strong
fairness of `SettlementCommits`: a settlement may be aborted and tried again,
not always. Nothing is assumed of customers, admins, or a request that failed.
`PendingRefundSettles` holds for PayPal (polled every day) and is violated for
Stripe (one event, `refund_event_lost`).

`RecurrenceFairness`: weak fairness of the steps of a run, because the scheduler
starts one every day and failures are bounded by `MaxAborts`, and of the
passing of days. Nobody has to send, pay or refund: `DueCycleSpawns` is about
cycles that were sent.

`StockFairness`: a request that has begun goes on; strong fairness of taking a
row lock, because Postgres queues those who wait; weak fairness of the
deadlock detector. `RequestsEnd` fails without the detector, since bills of
materials lock their items in no agreed order.

The other components have no liveness property: nothing in them is retried by
the code, and what a customer or an admin does not do need not happen.

## 5. Proofs

Every safety property of a passing run, invariant, action property or
refinement, is a theorem. Each holds for all values of the constants that
satisfy the modules' named assumptions, which the runs evaluate; the refinement
has one hypothesis more, named below.

**Types and links.** `InvoiceLedgerProofs` proves `TypeCorrect`. `TypeOK` is not
inductive: a payment copies its amount from an intent or an order, a settlement
refers to a refund row, a request to a payment. `Linked` adds that what each of
these points at exists; `IInv == TypeOK /\ Linked` is inductive.
`StepKeepsIInv` states once what each table may do in a step that keeps it;
each action is then shown to do no more.

**Backing.** `BackedProofs` builds on `IInv`. `CreditOnlyLostByRefundHolds`
follows from it; `PaymentsAreBacked` needs `Backed`: not only credited rows but
every payment row carries the invoice and the amount of its intent or order; an
event in the inbox, and PayPal's first answer, are backed by what the provider
did; and what a refund, a request or a settlement is about has been collected,
because these write a collected status over the payment. Each provider's record
only grows, which makes it stable. `RefundsAreBacked` needs the same of the
way back (`Reconciled`): the reply a request carries, and the settlement in
flight, are true of the refund the provider holds under that key.

**Sums.** `SumFunctionOnSet` is a fold, and the library's induction theorems
cannot be instantiated here because their predicate is a parameter. `Sums`
takes the set of subsets for which a statement holds instead, and gets its
induction from the well-foundedness of strict inclusion between the subsets of
a finite set (`FiniteMinimum`, `FiniteInduction`). From it come the lemmas the
ledger needs: a sum takes in one element more, changes by what one row changes,
is monotone, splits, filters, and adds up by groups.

**Money.** `MoneyProofs` sorts the ledger's steps by what they do to the rows
(`KindOfStep`: `Quiet`, `Sidelined`, `Credited`, `Shelved`, `Booked`), so that
each property about amounts is shown for five kinds and not for each handler.
`Standing` is the invariant underneath: `IInv`, `Backed`, `Reconciled`, rows
that point at rows that exist, and `SumsStand`, that a settlement which has
computed "refunded" before it locks the invoice has counted enough to say so
whatever commits in between. On it rest `OnePendingAtMost`,
`ChargeableIntentHeld` (whose premise, that no commit was lost, held before a
step if it holds after: `LostIsCounted`), `CapturesAreRecorded`, `PaidStaysCovered`,
`OverCollectionFlagged` and `RefundedGaveBackTotal`. `NeverOverRefunded` needs
`WithinReceipts`: a provider never holds more refunds of a payment than it
collected, and refunds by hand stay within it because the balance is looked at
again under the lock. `NetIsKeptAlways` is then arithmetic over the rows, given
that a payment shown as refunded was refunded in full.

**Refinement.** `TillProofs` shows that every step of the ledger is a step of
`Till` or leaves its variables alone (`LedgerIsTill`), under the hypothesis
`MinorUnit = 1`: amounts are whole cents. Without it the theorem is false, for
the reason `fractions_overrun` shows: what a provider gives back is rounded
while the rows are not, and `Till` gives back no more than it took. `Owned`
says that credit once taken stays taken, whatever a late event writes over a
refunded row; `Priced`, that every sum in sight is one that can be entered or
billed, or a part of one.

**Accounts.** `AccountsInv` says what a transaction between its two steps may
rely on: the tokens it holds are live and nobody else's, one of them is its own
user's when it is about to write a password, the session it serves is gone or
belongs to an enabled user, and a request whose own user is disabled had begun
before. `BeginStep` and `FrameStep` are the two shapes a
step can have. `TokenInstallsOnce` is then immediate, and so is what
`DisabledAccountsDoNothing` says of requests; what it says of sessions needs
`ExpiryInv`, since an expiry may only come nearer. `CredentialNeedsInbox` goes through the actions that write a
password. `OldSessionsOverlapped` needs three more facts, in `SessionsInv`:
tokens, sessions and logins have a row for their user, never taken away; a
session or a login has a verified one; so a redemption, which begins while the
address is unverified, finds no sessions but those of logins it overlapped.
`SessionsExpire` needs that what a session has left and its age add up to no
more than the lifetime, what it has left and its idle time to no more than the
idle timeout of its user, and that an admin stays one (`ExpiryInv`).

**Raw data.** `RawDataInv`: each write in progress holds a row of its own, which
is still as its snapshot has it, and a revert in progress carries what the entry
it names says. `Writes` is what all write paths have in common; both
`AuditIsExact` and `UndoRestores` follow from a step being such a write.

**Tax.** In `TaxProofs`, `TaxReviewInv`: what a request has seen decided stays
decided, what it has written and not committed is no less decided than the row
it replaces (the UPDATE leaves out a status that did not change), each
uncommitted row has one writer, and bill and charges agree in every step.
`TaxIsSumOfCharges` and most of `UnreviewedTaxIsHeld` are parts of that. That a
charge is an admin's decision is `RuledInv`, on top of it: of a kind of item
that nobody crossed, every decided row, committed, written or read, says what
some admin decided, because an UPDATE over the very row it loaded writes all of
it or leaves it undecided. `TaxRatesInv`:
a row that is closed is succeeded at that very instant, whatever was read in
between: `RatesHaveNoGap` is strengthened to all the time to come, and needs
that a transaction closes only rows of topics it has a rate for.
`PricedAsLookedUp` compares a choice by the newest `from` with a query's order
over exact item and catch-all; they agree because a topic has one rate at an
instant (`RatesInv`): each transaction has an instant of its own and brings one
rate of a topic.

**Rate limiter.** `BlocksEnd` is inductive with the shapes of the rows: an
`INCR` from zero leaves its worker on the way to the expiry, and what takes a
worker off that way sets the expiry or is recorded as a leak.
`AdmitsAtMostTwice` needs `AdmissionsInv`: there is an age at which what was
admitted splits into what the counter's present life let in and what the life
before it did, each at most the limit; and a life with an expiry lasts a whole
window, so that what came before the last one has left by then.

**Recurrence.** The cycles stand in line, each the parent of the next, and only
the last one is recurring; a run that has claimed holds rows no other run holds
and a claimed row is recurring still. So a commit appends to the line or fails
(`RecurrenceInv`), and `PeriodsAreKept` is the date arithmetic of one step
(`DatesOK`), month by month.

**Stock.** A row a request has locked is as it saw it, and locks exclude each
other; so a commit extends each trail from where it ends (`StockInv`). A build
asks for less of every row it holds or waits for, which makes `BuildsAreWhole` a
matter of its last step.

**Mail, disputes, uploads.** `MailInv`: a send that tries again has got a token
minted for it, dead only if revoked since; a verify or reset link is open only
while its mail is not scheduled, and a commit is never taken back. `DisputesInv`: one delivery holds the
row, what it read of it is still there, and it knows a status Stripe reported;
each mail to be sent is then one more change. `RowsHaveTheirFile` needs that a
key with a fresh id is written by its own upload only, and that an object, once
stored, is replaced and never removed.

Only model-checked: what must eventually happen (`CardMoneyIsRecorded`,
`ReviewedCaptureSettles`, `PendingRefundSettles`, `DueCycleSpawns`,
`RequestsEnd`), since fairness is about ENABLED, which is out of the prover's
reach; and the four counterexamples.

## 6. Not modelled

- Statistics: the counts by status; soft-deleted invoices (possible only
  through the raw data editor).
- Tax: parsing of rate files, the report, the reconciliation with Stripe's tax
  figures: they only read.
- Memo edits, profiles, descriptive columns, printed lines of a bill of
  materials: data that no action depends on.
- Budget entries and mileage: rows created, listed and deleted one at a time;
  `correct_entry` is called by tests only.
- Mail templates, MIME layout and SMTP; export and PDF: formatting of rows
  already read.
- Raw data: table metadata, coercion of values, listings.
- Row locks of a settlement: which waits for which (the victim's abort is in
  the model, `SettlementAborts`).
- The scheduler's clock and sleep; retention of logs; configuration and wiring;
  downloads; scripts run by hand.
- Web frontend, Android app, deployment and release watcher, the ASCII renderer
  in WebAssembly, and the tests' fakes of the providers.
