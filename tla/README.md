# PrintVendo backend: a TLA+ verification

PrintVendo is the backend of a network of self-service print kiosks (FastAPI, SQLAlchemy,
Postgres). Students upload documents, order prints and pay from a balance or at a Razorpay
checkout; a kiosk's device claims the print tasks and reports on them; owners and the
platform collect money and give it back. This directory models the parts of it whose
correctness depends on what runs at the same time, what is delivered twice or late, and what
dies half-way. Paths below are relative to `src/`; `app/` is the backend.

How the code runs decides everything here, so it comes first:

- Four uvicorn workers and one scheduler share a Postgres database at READ COMMITTED
  (`app/core/db.py`). A request is one transaction: `api/deps.py:get_db` commits it when the
  handler returns and rolls it back when the handler raises.
- There are no version columns. Rows are locked when they are read in three places only
  (`claims.claim_next_task`, `printing/repository.failed_tasks_at`,
  `kiosks/commands.claim_commands`). Everywhere else a request decides by the copy it loaded,
  and what protects the data is a conditional UPDATE (the wallet), a unique index (ledger
  references, Razorpay ids, idempotency keys), or nothing.
- SQLAlchemy writes the columns whose value differs from the one loaded, not whole rows, and
  reads its identity map rather than the database the second time. The models keep both.
- A scheduler job runs in one process at a time, under an advisory lock.

So the models take the step to be the statement at which another transaction can matter: what
a request loaded stays in its session record, and its effects become visible when it commits.

## 1. Inventory

| Component | State | Operations | What must hold |
|---|---|---|---|
| Wallet ledger (`modules/wallet`) | a balance column and an append-only ledger per student | credit, debit, create the row, carry a legacy balance | the ledger explains the balance; a reference moves money once; never overdrawn |
| Order payment (`modules/orders/service.py`, `api/student/orders.py`, `wallet.py`) | order state, method, expiry | place, pay from the balance, open a checkout, verify, mark paid, expire | prints are queued exactly for money on the books, once |
| Payments (`modules/payments/charges.py`, `webhook.py`) | payment rows: account, status, Razorpay ids | record a capture or a failure, credit a top-up | money that arrived is recorded and stays; each event is harmless when repeated |
| Refunds (`app/refunding.py`, `modules/payments/refunds.py`, `modules/orders/refunds.py`) | refund rows, `refunded_inr`, status, the order's REFUNDED | refund under a key, record Razorpay's own refund, close the order | a key moves money once; the books name each movement once; never more than was paid |
| Print queue (`modules/printing/claims.py`, `tasks.py`, `jobs/tasks.py`) | task state, lease, attempts, sheets | claim, heartbeat, report, sweep, operator's confirmation | handed out once; lost work is settled; finished work stays finished |
| Orders following prints (`modules/orders/service.py`) | order state | derive from prints, confirm as printed | an order says what became of its prints |
| Tray (`modules/kiosks/paper.py`) | sheets used | consume, fill, set, empty | each print is deducted once, and never more than fits |
| Stages of a shop (`modules/kiosks/onboarding.py`, `registry.py`, `commands.py`) | type and stage of the kiosk, `stuck_since` of its device, an alert | move, change the type, stuck, recovered | a jammed shop does not sell; nobody's closure is undone by a machine; who sells has passed the gate |
| Device commands (`modules/kiosks/commands.py`) | command rows | request, claim, report, expire | one waiting command of a kind; a report only of what was sent |
| Sessions (`modules/identity/sessions.py`, `api/student/auth.py`) | refresh tokens, the account's switch, a cookie per browser | sign in, exchange, sign out, end every session | a session that was ended stays out; nobody is signed out by chance |
| One-time tokens (`modules/identity/tokens.py`) | token rows | issue, redeem | a link works once |
| Enrolment, invitations (`modules/kiosks/devices.py`, `staffing.py`) | codes, invitations | redeem, accept, revoke | a code works once |
| Subscriptions (`modules/billing`) | purchases, terms, trials, the price negotiated | purchase, verify, activate, grant and end a trial, negotiate | nothing counts unpaid; paid terms follow each other; a captured purchase has its term |
| Payment keys (`modules/payments/configs.py`) | keys, change requests | set, request, review, replace | one approval, one change |
| Gate (`modules/payments/gate.py`) | none (derived from stage, keys, subscription) | who collects here | decided once per checkout |
| Documents (`modules/printing/documents.py`, `storage.py`) | rows, and files on the disk | upload, delete, retention | a paid print's file is there; files and rows agree |
| Alerts (`modules/ops/alerts.py`, `jobs/tasks.py`) | open alerts | raise, bump, stand down, resolve | people are told once; a trouble that is over does not stay on the list |
| Scheduler (`jobs/scheduler.py`) | last runs, by worker; the advisory lock | run due jobs | one sweep at a time; a failed one is not taken for a run; sweeps come round |
| Wakes (`core/bus.py`, `api/device/ws.py`) | marks of a request, a machine's socket | mark, publish after the commit, subscribe | nobody sleeps on work whose wake was not lost; what was lost is found by polling |
| Rate limits (`api/ratelimit.py`, `core/ratelimit.py`) | counters by window and bucket | hit | one account spends its own budget, an address no more than its own |
| Prices, workload (`billing/plans.py`, `discounts.py`, `kiosks/pricing.py`, `orders/quotes.py`, `printing/options.py`) | plan, discounts, prices of a shop, lines of an order | set each; quote an order | a band admits a price; duplex pays; an order pays for the paper it takes |
| Earnings (`modules/payments/earnings.py`, `orders/views.py`) | none: queries over payment rows that go on changing | totals, shops, days, export, the platform's buckets | the reports agree; what they said of the past stands |
| The rest: roles, guests, registry, scope, file formats, other views, audit, mail, provisioning, the Razorpay client, wiring | rows of one request, or none | edits and reads | nothing another actor's step depends on |

They interact through shared rows and through callbacks resolved in `api/deps.py`: the webhook
calls `WebhookSettlement`, which calls `orders.settle_paid_order` or credits the wallet; a
refund calls `OrderRefundSink`, which closes the order; a task report calls the orders module,
which derives the order from its prints; a claim, a report and a confirmation use the tray.

The hard behaviours are the ones PROJECT.json lists as hazards: the browser's callback and the
webhook settling one payment together; a sweep writing to what it selected earlier; events
repeated and out of order; a worker that dies after Razorpay was called; retries in flight
together with the request they retry; a device that goes quiet; prints of one order finishing in
two requests.

## 2. Modules

| Module | Models | Proofs |
|---|---|---|
| `WalletLedger` | what a wallet promises, in single steps (the abstract specification) | |
| `Wallet` | `modules/wallet`, statement by statement; implements `WalletLedger` | `WalletProofs` |
| `Settlement` | placing, paying and expiring orders, checkouts, captures, failures, top-ups; composes `WalletLedger` | `SettlementProofs` |
| `PrintQueue` | claims, reports, sweep, confirmation, tray, and the orders that follow their prints | `PrintQueueProofs` |
| `Refunds` | refunds, Razorpay's own refunds and events, the closing of orders | `RefundsProofs` |
| `SignIn` | the sessions of one account: sign-in, rotation, sign-out, and what ends them all | `SignInProofs` |
| `Shop` | the stages of one kiosk, moved by people and by its machine | `ShopProofs` |
| `Billing` | subscriptions of one owner: purchases, captures, terms, trials, the negotiated price | `BillingProofs` |
| `Pricing` | the plan's price and band, discounts, a shop's prices, the quote of an order; over `PrintJobs` and `Money` | `BillingProofs` |
| `Earnings` | payment rows after the sale, and the reports that read them | `BillingProofs` |
| `Transactions` | a request: load, commit or roll back; taken by the next six | |
| `Links` | links, enrolment codes and invitations | `RequestsProofs` |
| `PaymentKeys` | keys and the requests to replace them | `RequestsProofs` |
| `Commands` | commands of a machine, and its wakes | `RequestsProofs` |
| `Documents` | uploaded files beside the orders and prints that need them | `RequestsProofs` |
| `Alerts` | alerts raised by jobs and by requests | `RequestsProofs` |
| `RateLimits` | the buckets of one route | `RequestsProofs` |
| `Sweeps` | one job of the scheduler and the workers that run it | `RequestsProofs` |
| `MCWallet`, `MCSettlement`, `MCPrintQueue`, `MCRefunds`, `MCSignIn`, `MCShop`, `MCBilling`, `MCRequests` | small instances for TLC | |

### Wallet
`opened`, `balance` and `entries` are the committed rows; `locked` is the row lock; `session`
holds what a request has done and not committed. The actions are the statements of
`ledger._move`, `wallet_for` and `imports.carry_balance`: the lookup (`Credit`, `Debit`,
`CarryBalance`), the INSERT of a wallet row (`CreateWallet`), the two unlocked reads of the
cutover (`MeasureGap`, `NumberCarry`), the conditional UPDATE that takes the row (`MoveBalance`),
the INSERT under the unique reference whose failure rolls the savepoint back (`InsertEntry`), and
`Commit` or `Rollback`. A carry's number counts the adjustments there are, an administrator's among
them, which are credits and debits like any other. Money is in whole rupees.

### Settlement
`orders` is an order's state, method, and whether its twenty minutes are over; `payments` are the
rows in id order; `tasks[o]` counts how often the prints of `o` were queued; `events` is what
happened at Razorpay and may be reported at any later time, any number of times, to the browser
and to the webhook. `gate` is the answer of `kiosk_payment_gate` and moves freely: what moves it
is another component. A request that loads and then writes is two or three actions, with the copy
it loaded in `session` (`Verify`, `Confirm`, `MarkPaid`; `WebhookCaptured`, `Capture`, `MarkPaid`
or `SettleWalletTopUp`; `WebhookFailed`, `RecordFailure`; `ExpireStaleOrders`, `Expire`;
`PayFromWallet`, `PayWithWallet`; `OpenGatewayCheckout`, `OpenCheckout`). A debit or credit is one
movement of `WalletLedger`, which `Wallet` is shown to implement. A signature stands for the
account whose key made it. `RefreshOrderState` stands for everything `PrintQueue` does to a paid
order.

### PrintQueue
A task is a document of an order, with its state, whether its lease has run out, how often it was
handed out, what its device said it used, and what the tray lost to it. `quiet` are tasks whose
device will not be heard from again. A request runs through `pc`: it loads (`ReportStatus`,
`SettleLostTasks`, `ConfirmOrderPrinted`), writes its tasks and so locks them (`Record`,
`LockFailed`), deducts the tray and derives the orders (`Derive`), and commits. `ClaimNextTask` is
the one statement with SKIP LOCKED. Orders are found as the code finds them: the newest in flight
that has the document, its prints by document, kiosk and age. CANCELLED tasks are left out, as
nothing writes that state; so are the payload of a claim and which file is served.

### Refunds
`payments[p]` is the status and `refunded_inr`; `orders[p]` is unpaid, paid (whatever its prints
do) or closed; `refunds` are the rows; `credited[k]` counts ledger credits under `refund:k`;
`returned` is what Razorpay gave back, on our request or from its dashboard. A refund loads the
payment and looks its key up (`RefundAnOrder`), calls Razorpay (`CallRazorpay`, which no rollback
undoes), and writes row, payment, credit and order under the unique indexes (`WriteRefund`). The
load and the two lookups of the key are one step: rows are never removed, so a key found missing
later was missing earlier. A key always asks for the same thing, as a retry does; the refusal of a
key under another payment is left out with it. Razorpay is taken to do what the code relies on: it
answers a key it knows with the refund it made, and refunds no more than is left. A captured event
delivered again after a refund raises in `mark_paid` and is rolled back, so it is no action.

### SignIn
`account` is the user row, `refresh` its refresh tokens in the order issued: live, revoked less than
a minute ago (`grace`), revoked longer ago or with no grace (`dead`), or past thirty days (`lapsed`).
`browser` is the cookie each browser holds. Signing in and exchanging are a load and a commit
(`Register`, `Login`, `SaveSignIn`; `Refresh`, `SaveRefresh`). A new password and a deactivation load
the account, write and so hold every token they find (`RevokeAll`), and commit (`EndSessions`); a
token inserted meanwhile is not found. `Deliver` is the answer reaching the browser, or not. Two
fields of a token are there for the properties: the evictions its request had seen, and whether it
escaped one that overlapped that request. The kill of a replayed token's whole family
(`sessions.py:98`) is undone by the rollback of the request that is refused, so `RefreshRefused`
changes no row. Passwords are not modelled: who may reset or change one, may.

### Shop
`kiosk` is the type and the stage, `device` the row of its machine and whether `stuck_since` is set,
`alert` the one `printer_health` raises, `collects` what the billing check answers. Moving the stage,
changing the type, stuck and recovered are a load and a commit (`MoveTo`, `WriteStage`; `ChangeType`,
`WriteType`; `ReportStuck`, `WriteStuck`; `ReportRecovered`, `WriteRecovered`); a device row deleted in
between fails the commit, which is `Rollback`. A request that changes nothing is no action. `history`
is there for the properties: whether the gate said yes since the kiosk got its type, whether CONFIGURED
was reached since it was approved, who closed the shop, and whether a person moved it since the machine
did. `reconcile_billing_state`, which would suspend a shop whose owner can no longer collect, is not
modelled, because nothing calls it.

### Billing
`rows` are the owner's subscriptions by id; `paid` the purchases Razorpay holds money for, `captured`
those whose payment row says so. `StartPurchase` quotes and loads the pending row that `CommitPurchase`
replaces. Money arrives by the browser (`VerifySubscription`) or the webhook (`WebhookCaptured`), either
any number of times: each loads, `Capture` writes the payment row and so holds it, `Activate` puts the
term behind what was in force when it was loaded, and commits. `GrantTrial`, `EndTrial` and
`SetNegotiatedPrice` are the admin's; `Lapse` is the end of PURCHASE_LIFETIME; `Tick` is midnight. What
lets an owner collect is `InForce`, which no one stores. A date that is null is 0.

### Pricing, PrintJobs, Money
`plan` and its band, the list of discounts (`ladder`), those `promised` to the owner, and the `shop`'s own
prices are rows edited by requests at a desk: one loads its row, is judged by it, and at its commit writes
only the columns that differ, so two edits of one row can both be right and together be wrong. `order` is
the order quoted last with its lines. `PrintJobs` holds the arithmetic as operators: `Selected`, `Format`
and `Normalised` for page ranges, `Sheets`, `Amount` and `Fee` for a job. Beside them stands a reference
definition, the job laid out sheet by sheet (`Layout`, `LaidOutAmount`), with which `OrdersPayForTheirPaper`
compares every order. Amounts are paise, and `HalfUp` is the rounding of `core/money.py`. One colour of
the two: the other has columns of its own under the same rules.

### Earnings
`takings` are the payment rows that were ever captured. `TakePrint` dates payment and order by one instant,
`ConfirmPrint`, the browser's callback, reads the clock twice; `GiveBack`, `FailLate` and `CaptureLate`
change a row after its sale. The reports are operators of a window of instants. A day begins where the shop
is, `ZoneShift` before that of UTC.

### Transactions, and the modules over it
`Start` loads, `Finish` commits, `GiveUp` is every way a request fails; what a request loaded is in its
session's record. Nothing is visible before the commit, except on the disk.

- `Links`. Issuing (`Issue`, `WriteLink`) closes the rows its UPDATE finds; using one (`Redeem`, `Spend`)
  reads its row and writes it without looking again. The one Link stands for a token, a code or an invitation,
  which differ in what they give: `holder` is the code behind the machine, `staff` whether the person works
  here. Removing the machine, taking the person off, barring and expiry are actions of their own.
- `PaymentKeys`. `RequestChange`, `ReviewChange`, `SetFirstKeys`, `ReplaceKeys`, each with its commit, and
  `SetWebhookSecret`, which makes a row that has no keys yet.
- `Commands`. `RequestCommand` and `CommitCommand` queue a row, and `Publish` wakes the machine after that
  commit; `Connect`, `Subscribe` and `Disconnect` are its socket, which is greeted before it listens.
  `ClaimCommands` is the statement with SKIP LOCKED, `CommitClaim` its commit, whose answer may be lost;
  `ReportCommand` and `WriteResult` judge by the row loaded; `Lapse` is ten minutes. `runs`, `missed` are
  there for the properties.
- `Documents`. `CreateDocument` writes the file and `WriteDocument` the row; `DeleteDocument` and
  `PurgeExpiredFiles` load, the file goes (`DeleteFiles`), and the row follows at the commit, if there is
  one: a rollback does not bring a file back. `OrderDocument`, `WriteOrder` and `Settle` are the orders and
  prints that need the file, as far as it concerns them.
- `Alerts`. A job that watches, or a request whose mail fails, is one transaction that looks at one key
  after another: it stands the alert down (`StandDown`), bumps the open one (`Bump`), or finds none
  (`FindNone`) and inserts (`Insert`); an insert beside another's waits in Postgres for that commit, and is
  then refused by the partial unique index (`InsertRefused`), which rolls the whole transaction back and goes
  on in a new one. `CommitAlerts` ends it. `told`, `undone`, `answered` and `kept` are there for the
  properties.
- `RateLimits`. A request (`Arrive`) hits one bucket after another (`Hit`, or `HitNothing` while Redis does
  not answer), and is passed on or refused. Without Redis each worker counts for itself. `NewWindow` ends a
  window, `RedisTurns` makes Redis go and come back.

### Sweeps
`job[w]` is what a worker does about one scheduled job: it runs it when it is due and the lock is free
(`RunDue`), commits (`CommitSweep`), and notes the run in its own memory (`RecordSweep`); or the job raises
(`SweepFails`), the worker dies (`Crash`), or the lock's connection is lost while its job goes on (`Sever`).
`Pass` is a tick of the loop. `Settlement`, `PrintQueue`, `Documents` and `Alerts` take from it that a job
runs in one session at a time.

### MCBilling and MCRequests
These hold parts that share no row: `MCBilling` the terms, the prices and the books, `MCRequests` the seven
modules of requests and jobs. A behaviour is about one part, chosen at its start, and the rows of the others
stand still: interleaving parts that cannot meet shows nothing more. `crossed` remembers whether two requests
about the same thing were ever open together (for documents also whether a file went under an order not paid
yet, or a worker died between the disk and its commit), and a property named `...UnlessCrossed` speaks of the
behaviours in which they were not; what the code does in the others is in section 5. `rate` in `MCBilling` is
the price negotiated last.

## 3. What is checked

Every run finishes with deadlock checking on unless its configuration says why not.

| Run | Instance | Shows |
|---|---|---|
| `wallet` | one student, three requests, two credits and three debits of which only some are affordable together, each retried at will | `LedgerExplainsBalance`, `ReferenceMovesOnce`, `NeverOverdrawn`, and the refinement `ImplementsLedger` |
| `wallet_cutover` | two requests, two passes of the cutover, traffic | `CarriesAreNumbered`: what a carry is numbered by is never above what is counted later, whatever is adjusted meanwhile, so no later pass collides with it; `RequestsEnd` |
| `settlement` | one order, one top-up, three payments, two requests | `MoneyBuysPrints`, `TopUpsCreditedWithCapture`, `WalletOrdersBoughtOnce` hold whatever races |
| `settlement_serial` | one request at a time, two payments, an owner who may collect | `PrintsOnce`, `ExpiredOrdersBoughtNothing`, `ArrivedMoneyStays`, `TopUpsAreCredited`: repeated, reordered and late events alone break nothing |
| `print_queue` | one task, two sessions of its device, a sweep, requests that die, a tray of one sheet and a device that uses two | `TypeOK` (the counter stays inside the tray), `HandedOutOnce`, `LostTasksAreSettled` |
| `orders` | an order of three documents, its device and a second operator at once, prints that take twice the predicted sheet or nobody knows how much | `OrdersFollowTheirPrints`, `PaperTakenOnce` |
| `refunds` | two payments of 2, keys for all, half, the balance and an owner's payment, two requests, three refunds at Razorpay | `KeyMovesMoneyOnce`, `BooksMatchMoney`, `ClosedOrdersWereRefunded`; and `RefundsStayInsideUnlessRaced`, for which `MCRefunds` remembers whether two requests were ever in flight together |
| `sign_in` | one browser of many tabs, two requests, four tokens, one eviction | `EvictedSessionsStayOut`, `NobodyIsSignedOutByChance` |
| `shop` | one kiosk of any type, two requests, two device rows | `JamsCloseAndTell` whatever races: a jammed shop is closed, and its closing is on a list; `OpeningsAreEarnedUnlessRaced` where `MCShop` saw no two requests together: who sells has passed the gate, and a recovery reopens what its machine closed |
| `billing` | one owner, two requests, three subscriptions over three days; one plan, two edits; two payments over four instants, with reports of every window | `OnlyPaidTermsRun`, `TermsStandUnlessCrossed`, `PromisedRatesStand`, `PricesAreFairUnlessCrossed`, `JobsPayForTheirPaper`, `BooksStand` |
| `requests` | two requests and, of each part, one to three rows; for sweeps two workers and a job that is due every third tick | `WorkOnceUnlessCrossed`, `RunOnce`, `CommandsStandUnlessCrossed`, `FilesStandUnlessCrossed`, `ToldOnceAnAlert`, `CeilingsHold`, `SweepsTakeTurns`, `WorkComesRound` |
| `verify_race` | see section 5 | the code does not hold what its text says |

Properties that belong together are checked as one conjunction (`TermsStandUnlessCrossed`, `BooksStand`,
`WorkOnceUnlessCrossed` and others); the conjuncts stand under their names in the component's module. The
type invariants of the modules with proofs are proved instead of run.

Why the bounds are enough. A race in this code needs two requests that load before either commits,
and a third to be in the way of both: `wallet` has three, the others two, since no step there reads
what more than one other request wrote. `MaxCarries`, `MaxPayments` and `MaxReturned` bound rows
that a cause creates one by one: two adjustments, after which no further pass begins, show a number taken
again, three payments hold a checkout that
is abandoned, one that is paid and a top-up, three refunds hold one of ours, its repetition if there
were one, and one from the dashboard. Amounts of 1 to 3 give sums that fit, fit together and do not.
Four tokens hold a sign-in, two exchanges of one cookie and the pair of a reset. In `billing` a month, a
trial and the grace are a day each, so that each can outlast another within three days, and three rows hold
a term, its renewal and a trial; page counts of three and four and up to four copies, one of them refused,
give odd and even sheets, and of the page ranges four are refused and three are not. In `requests` two rows of a kind
show what a newer one does to an older, three change requests a used approval beside a new one, and two
workers a lock that is held. Sessions are interchangeable, so they are symmetric where no liveness is
checked.

Each property has a mutant: a change to one definition, such as a dropped guard or lock, under
which TLC finds the property violated. The mutated forms stand next to the definitions they change.

Fairness. `Wallet`: a request that has started runs its next statement, strongly, since Postgres
grants a row lock in arrival order. `Settlement`: Razorpay redelivers a captured event until it is
answered with success, and not every delivery dies; a request that started goes on. `PrintQueue`:
time passes, requests end (in a commit or a rollback), the job runs every minute again, and a sweep
waiting for a row gets it. `MCRequests`: requests and jobs that started end, in a commit or not, workers
that died are started again, and the loop ticks (weak); the machine polls, the watching job and the
scheduler come round, and what is begun again and again is not rolled back every time (strong, as each is
disabled from time to time by the very request it waits for). This is what `scheduler.run_forever` and the
device's poll do. `SignIn`, `Shop` and `Billing` have none, and no liveness.
Nothing is assumed of students, owners, operators or the dashboard, nor that a wake arrives.

## 4. What is proved

TLAPS proves these for every number of users, orders, tasks, payments and requests in flight. Every
invariant and every action property of a run is a theorem, but for the one of `verify_race`, which the code
does not hold; what is left to TLC is liveness.

- `WalletProofs`. `WalletTypeOK`, `WalletLedgerExplainsBalance`, `WalletReferenceMovesOnce`, from the
  inductive `LockInv`: a request past its UPDATE holds the row, has computed its balance from the
  committed one, and past its INSERT carries a reference no entry has. Without the first the second
  is lost at another commit. `WalletNeverOverdrawn` and `WalletImplementsLedger` also assume
  `NoCutover`: a carry may write any balance, by design. `WalletCarriesAreNumbered`, from
  `NumbersAreKnown`: the number a request has taken is not above what is counted now, as rows of a
  ledger are only added.
- `SettlementProofs`. `SettlementTypeOK`, `SettlementMoneyBuysPrints`, `SettlementTopUpsCredited`, from
  `GroundInv`: a request in flight acts for an order and a payment that exist and go together, with
  an event of Razorpay's behind a capture, and every row is backed by what it says it bought.
  `SettlementWalletOrdersBoughtOnce`, from `RowsFollowTheirOrders`, that a row goes with the method its
  order has for good, and `WalletOrdersOnce`, that such an order has no row and no prints, or one and
  one: the unique reference of the debit is what stops a second. `SettlementSerial` assumes that any two
  sessions are one, as in the run, and shows `PrintsOnce`, `ExpiredOrdersBoughtNothing` and
  `ArrivedMoneyStays` from `SerialInv`: prints are queued once, of an order that says so; what the
  request read is still so; and a row that has its capture says so.
- `PrintQueueProofs`. `QueueHandedOutOnce`, from `QueueInv`: a task that waits was never handed out, no
  two requests hold one task's claim, and a request about a task in hand never writes it back to
  waiting. `QueueTypeOK`, with the tray's counter inside the tray: what a request takes is a fold over
  its tasks, which is shown to be a number by induction on how many there are. `QueuePaperTakenOnce`
  assumes `ServedInTurn`, that the devices and the sweep take turns while operators at the desk do as they
  like, as in the run; it rests on `Speaks`: what a request found of each of its tasks is still so.
  `QueueOrdersFollowTheirPrints` assumes `ServedInTurn` and `DocsApart`, that no file is in two orders; of
  the other cases `MCOrderStuck.cfg` and `MCSharedDocument.cfg` give the counterexamples. That orders follow
  their prints between requests is not inductive, so `FollowInv` says it of every moment: what is
  committed follows, and what each request in flight will leave of its orders follows from its prints as it
  will leave them, for the tasks it has derived (`Tells`). An operator's confirm, which may overlap a report,
  is about an order whose prints are all finished and holds every failed one (`Confirms`), and an order is
  placed before it is paid, so that its prints are found by age (`Timely`). Nothing is assumed of refunds,
  rollbacks or the number of operators.
- `RefundsProofs`. `RefundsTypeOK`, `RefundsKeyMovesMoneyOnce`, `RefundsBooksMatchMoney`, from
  `RefundInv`: a request past its call names a refund of Razorpay's of its own payment, sum and key,
  Razorpay made one refund per key and only for keys that ask for the card, and every row is such a
  refund or a credit. `RefundsCloseNothingEarly`, however requests race, from `RowsBackTheBooks`: nothing
  a payment or a request says of `refunded_inr` is more than its rows add up to. `RefundsStayInside`, from
  `OneByOne`: until two requests were in flight together it is exactly that, and never more than was paid.
- `SignInProofs`. `SignInTypeOK`, `SignInEvictedStayOut`, from `SignInInv`: every token is what its
  request had seen or has escaped, and a request that holds the tokens knows of all that were there.
  `SignInNobodyOutByChance`, from `ChanceInv`: a token belongs to one browser, one on its way to a browser
  is nobody else's and works, and a cookie that stopped working has an excuse.
- `ShopProofs`. `ShopTypeOK`, `ShopJamsCloseAndTell`, from `ShopInv`: the claim, the stage and the alert
  are one commit, a report is of a device that was there, and a person who moves the stage leaves a mark.
  `ShopOpeningsAreEarned`, from `Earned` and `Judged`: until two requests overlap, who sells has passed the
  gate since it got its type, and what a request judged by is still so.
- `BillingProofs`. `BillingTypeOK`, `BillingOnlyPaidTermsRun`, from `BillingInv`: a bought row that is active
  was captured, a row that was not bought has no term, only of a trial the end, and a request about to
  activate is about a purchase that was paid. `BillingPricesAreFair`, from `FairInv`: where a band and the
  prices under it can be between the writes of a desk. `BillingTermsStand`: `Terms` says of every two
  subscriptions which ends first, and `Fits` what of a request's copies is still so, which is why a term
  can be put behind all others by what was loaded. `BillingPromisedRatesStand`, from `RatesKept`: what runs
  without the negotiated rate is outlasted by something that has it. `DuplexNeverCostsMore` is of the
  arithmetic: under the rule `set_pricing` enforces, no job of any length and number of copies costs more
  on both sides. `BillingJobsPayForTheirPaper`, however desks cross: an order was priced at a shop's prices
  when it was placed, and each of its lines costs what `Layout` comes to. A copy's sheets are counted, those
  with two sides printed and those with one (`SidesPrinted`), each as so many units as it costs. That the stored
  range prints what was priced rests on the runs of consecutive pages: every page is in one, no two touch,
  and an ascending sequence of them exists for `Format` to return. `BillingBooksStand`, from `BooksInv`,
  that no more goes back than was taken and every print was sold by a shop: the reports of a window part one
  set of units, by day, by shop or by source, so they add up to its size. The library defines a sum as a fold,
  which picks its elements in some order; that it comes to the number of units, whatever it picks, is shown
  by taking a smallest set for which it did not (`SumsCount`).
- `RequestsProofs`. `SweepsKeepTypes`, `SweepsAlternate`, from `SweepsInv`: who is in a sweep has the lock
  and was due, and who is done has committed the run it is about to record. `CommandsKeepTypes`,
  `CommandsRunOnce`, from `CommandsInv`: no two claims hold one row, what is claimed still waits, and what
  waits never ran. `AlertsKeepTypes`, `AlertsToldOnce`, from `AlertsInv`: no two transactions hold an
  insert of one key, none beside an open alert, and people have heard of a shop exactly as often as an
  alert of it was inserted. `RequestsWorkOnce`, `RequestsKeepTheFiles` and `RequestsKeepTheCommands` are of
  `MCRequests`: until two requests cross, what each of them knows of its link, its keys, its documents or
  its command is still so. That no machine sleeps on its work needs no such condition.
  `RequestsKeepToTheirCeilings`, from `LimitsInv`: of a rule that saw every hit of its window, what an
  account got and what is on its way from its bucket to the address' is no more than the hits counted
  there below the limit, and of the address likewise. Hits and what was let through are counted as sets
  of pairs, so a step adds one element to each.

The assumptions are the named ASSUMEs of the modules: constants have their types, the sets of requests,
orders and accounts are finite, `None` and the names of the accounts are nobody's, a route has a rule and
an address is worth at least one account, the default prices are fair (`DEFAULT_PRICES`), the shops are
finitely many, and the fee's cap is a number. TLC evaluates them in each run.

Model-checked only:

- `RequestsEnd`, `TopUpsAreCredited`, `LostTasksAreSettled` and `WorkComesRound`: liveness, which TLAPS does
  not do under fairness.

## 5. Where the code and its text disagree

One run, `verify_race`, reproduces a disagreement: the browser's callback judges the order by the copy it
loaded before the webhook committed (`api/student/orders.py:383`), so both queue the prints, where
`modules/payments/charges.py:371` promises "exactly once". The counterexample is the run's trace.

The properties below are stated in the modules and are not held by the code either. Most
are hazards of PROJECT.json, and the schedules are short. Where a configuration is named, TLC finds the
violation with it.

Money and orders:

- `RefundsNeverExceedCaptured` (`MCRefundRace.cfg`): two refunds of a payment under different keys are both
  judged by the payment as loaded (`modules/payments/refunds.py:186`); the rows add up to more than was paid
  and `refunded_inr` to less than the rows.
- `MoneyIsRecorded` (`MCLateMoney.cfg`): a student pays a checkout whose order has expired.
  `settle_paid_order` promises an empty list, but `mark_paid` raises, the capture is rolled back, and every
  redelivery ends the same way: the money is never on the books.

- `ExpiredOrdersBoughtNothing`, two requests (`MCExpiryRace.cfg`): the sweep selects an unpaid order, the
  order is paid, the sweep writes EXPIRED (`modules/orders/service.py:535`).
- `ArrivedMoneyStays`, two requests: a failed attempt's event loads the payment, the capture commits, the
  failure overwrites the status (`modules/payments/charges.py:413`). `RefundedMoneyStaysArrived`, one
  request: after a partial refund the status is no longer CAPTURED, which is all that
  `webhook.py:173` looks at.
- `PaymentFoundSettledTheOrder`: a second checkout is opened and abandoned, and `payment_for_order` takes
  the newest row (`charges.py:327`), so a refund finds a payment that was never made.
- `KeyOpenedTheCheckout`, `BalanceSpentAtPlatformKiosks`: the gate moves between placing or opening and
  paying (`api/student/orders.py:349`, `modules/orders/service.py:266`).

Prints and shops:

- `PaperTakenOnce` (`MCRetriedReport.cfg`) and `FinishedTasksStayFinished`, two reports about one task
  loaded together: both pass `_require_in_hand` (`modules/printing/tasks.py:84`), both deduct, and the
  later one overwrites.
- `OnlySilenceExpiresALease`: a heartbeat lands between the sweep's select and its update
  (`modules/printing/claims.py:162`).
- `OrdersFollowTheirPrints`, two devices' sessions: the last prints of an order finish in two requests
  that do not see each other, and the order stays dispatched (`MCOrderStuck.cfg`); or one file is in two
  orders in flight and its print moves the newer (`modules/orders/service.py:412`, `MCSharedDocument.cfg`).
- `RefundedOrdersStay`: a report derives the order it selected before the refund committed
  (`modules/orders/service.py:461`).
- `EvictionEndsEverySession` (`MCEviction.cfg`): an exchange loaded before a reset commits after it, or
  beside it, and its new token lives, where `api/student/auth.py:279` calls the reset's pair the only
  one alive.
- `PersonsClosuresStand`, one request at a time (`MCReopened.cfg`): the machine closes a shop, its owner
  opens it, and later closes it to change a cartridge; the claim on the device row is still there, and
  a queue that clears reopens the shop (`modules/kiosks/commands.py:292`), which lines 28-30 say must not
  happen.
- `AlertsStandDown`: once a person has reopened the shop, `report_recovered` returns False, and
  `printer_health` does not stand the alert down (`api/device/commands.py:144`).
- `SellingIsEarned`, two requests: a move to LIVE judged by a platform kiosk and a change of its type
  commit after each other, and an owner's shop sells without the gate (`modules/kiosks/onboarding.py:85`).
- `BlockedTasksRunAgain` (`MCBlocked.cfg`): nothing moves a task out of BLOCKED
  (`modules/printing/tasks.py:333`), though its comment says it runs once the tray is filled.

Subscriptions, prices and books:

- `PaidMoneyIsTaken`: a purchase lapses and another is opened; the first is then paid, and every delivery is
  refused (`modules/billing/purchase.py:140`).
- `OneLiveTrial`: granting a second trial adds a row when a bought term outlasts the first, where
  `api/admin/billing.py:342` says it extends the first. `DaysGivenAreKept`: a term's grace outlasts a trial,
  the term is the one in force, and a purchase starts inside the trial. `QuotedAsCharged`: once nothing is in
  force, the admin's quote takes the price negotiated last and a purchase does not
  (`api/admin/billing.py:305`).
- `TermsApart`, `CapturedMoneyHasItsTerm` and `OneTrialUnlessBought`, two requests: both place a term or a trial
  behind what each found in force (`purchase.py:154`), or one cancels the purchase the other puts in force.
- `PricesStayInTheBand`: a shop that set no price charges the default, and a band that moves leaves the prices
  where they are. `BandsAdmitAPrice` and `DuplexPays`, two requests: two ends of a band, or two prices, are
  changed together, each judged beside the other's old value (`modules/billing/plans.py`,
  `modules/kiosks/pricing.py:134`).
- `ExportAlwaysReconciles`: the browser's callback reads the clock for the payment and again for the order, so
  a window that ends in between has one and not the other, and a payment that failed after a refund is
  exported and not counted, where `modules/orders/views.py:206` asks that they reconcile.
  `PlatformTakingsStand`: a capture delivered again after a refund, or after a failure that followed one, dates
  a subscription's payment anew and takes it out of a day that is over.
- `modules/payments/earnings.py:51` expects that a net may be negative; it never is, since a refund is filed on
  the day of its sale and is never more than it.

Requests and jobs:

- `LinksWorkOnce`, `OneLiveLink`, `StaffWereInvitedSince` and `NewestMachineHolds`; `KeysMoveByApproval` and
  `OneRequestWaits`; `OneOfAKindWaits` and `ResultsStand`: each is lost to two requests that load together,
  which nothing keeps apart. `modules/identity/tokens.py:12` calls a link single-use.
- `PaidPrintsHaveTheirFile`: the retention sweep looks at print tasks (`modules/printing/documents.py:253`), and
  an order not paid yet has none: its old file goes, the order is paid, and the print it gets finds no file,
  which lines 9-11 say no age makes acceptable. `FilesFollowRows`: a worker that dies between the disk and its
  commit leaves a file without a row or a row without a file.
- `WorkIsKept`: of two who raise one alert together the loser rolls back its whole transaction, where
  `modules/ops/alerts.py:94` says "to before the insert": the request it served is answered with success and
  nothing of it is kept.
- `OneSweepAnInterval`: the workers that found the lock taken "go back to sleep instead of running the sweep
  three more times" (`core/db.py:115`); they are still due, and run it at their next tick.
- `AnonymousRefusedForTheirOwn`: callers who have not signed in share a bucket with those at their address who
  have (`api/ratelimit.py:17`, "the hall is untouched").

More follows from reading the code and is not stated as a property. A captured event redelivered after a
refund is answered with a conflict for ever, where `api/webhooks.py` says only a bad signature is
refused. A refund event that arrives before the capture's is acknowledged and not recorded
(`webhook.py:229`), so Razorpay does not send it again. The alert of a shop that leaves LIVE while it is
offline or short of paper is not stood down, as the watches look at LIVE shops only. A command whose claim was
answered and the answer lost is SENT and runs nowhere.

## 6. Plan

Done, in this order because money comes first: `Wallet`, `Settlement`, `PrintQueue`, `Refunds`, `SignIn`,
`Shop`; then `Billing`, `Pricing`, the seven parts of `MCRequests`, and `Earnings`; then the theorems of
section 4, of each component its types, what holds however requests interleave, and what holds of requests
served one after the other.

Left:

1. The composition of the payment gate: `PaymentKeys`, `Billing` and `Shop` decide what is a free value in
   `Settlement` now. What is checked there holds for every gate, so the composition would only add which
   gates occur.
2. `Documents` beside `PrintQueue`, and the composition of a wallet refund with `WalletLedger`.

## 7. What is not modelled

Text, formatting, logging, mail, audit entries, listings, invoices, file conversion, authentication by
password or Google, row-level visibility (who may reach which order), the registry's edits of names and
places, favourites, and one-off scripts other than the wallet's cutover. They change no row that another
actor's step depends on; response types and configuration are data without steps. Clocks are choices: a
lapse may happen at any moment. Razorpay, devices and people are environments that may do anything they
can do, in any order, as often as they like.

`documents.normalise_pending`, `staffing.revoke_invite` and `onboarding.reconcile_billing_state` are not
modelled because no route and no job calls them. Nothing writes CANCELLED to a task. The pool of database
connections, one of which a device's socket keeps for as long as it is open, is in no model: how many
sockets a worker serves is a matter of deployment.
