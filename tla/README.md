# Verification of the rental platform

TLA+ models of the services under `src/apps`, the TLC runs that check them on
small instances, and proofs by TLAPS. Modules are named after what they model;
`PROJECT.json` maps their definitions to lines of the source, and lists the
hazards of the code, each at its line, with the properties that are about it.

## The system

Five services share nothing but RabbitMQ events and HTTP calls. Each has its
own database; `contract-service` (Prisma on PostgreSQL, READ COMMITTED) holds
the money and is the core.

| Component | State | Operations | Hard behaviour | What makes it correct |
|---|---|---|---|---|
| Rental requests (`rental-request.service.ts`) | `rental_requests`: status, deposit window, its payment | create, review, open window, pay, cancel | every handler checks a status and later writes by id; windows lapse | one request holds a property, the first to win |
| Payments (`payment.service.ts`, `payment.controller.ts`) | `payments`: status, method, code, polls; receipts | create, confirm (gateway, wallet), notification, finalise, refund, reconcile, settle the owner's income | notifications lost, repeated, late; refunds after the commit; a crash in between | money is credited once and behind every holder; losers are refunded |
| Wallets (`wallet.service.ts`) | `wallets`: balance, pending balance; `wallet_transactions`; `withdrawal_requests`; timers in memory | top up, confirm, notification, reconcile, withdraw, process, fee | balances are written as values computed from an earlier read; a timer that does not survive a restart | no debt, balance equals ledger, no double credit, no stuck withdrawal |
| Contracts (`contract.service.ts`) | `contracts`: status, signatures, draft of an update | create, edit, send, sign (tenant, owner), activate, update, cancel | check, then write by id | nothing in force that the tenant did not sign; an update replaces only when signed |
| SmartCA (`smartca.service.ts`) | a session and a signing status for each party; messages to a worker | sign, poll, process | polls and messages overlap, the worker decides on an old read, any error starts over | one worker for a signature |
| Renewals, appendices (`renewal.service.ts`), crons (`cronjob.service.ts`) | rows with a status; end date, appendices, counter | request, approve, reject, cancel; near expiration, renew, expire updates | several writes without a transaction; approval revives what has ended | a lease that renews itself goes on; extensions are on record |
| Billing (`cronjob.service.ts`) | `payments` of a lease | monthly bill, due, overdue, terminate | short months, missed runs, payments between read and write | every month billed once; an unpaid lease ends; a paid rent stays paid |
| Terminations, reports (`termination.service.ts`, `report.service.ts`) | `termination_requests`, `reports`, deposits, both wallets | request, review, negotiate, escalate, resolve, settle, automatic | two wallets and a deposit settled in one go, by several paths, from one read | money neither made nor lost; disputes with a report; one open request; no payout without a cause |
| Properties, listing fees (`property.service.ts`, `listing-fee.service.ts`) | status, approval, expiry | edit, approve, show, hide, rented, returned, renew, hourly sweep | fee taken over HTTP before the write; sweep on a list that grows stale | an expired listing comes down |
| Search, favourites (`property.service.ts`) | a cursor in the client; a counter beside the rows | pages; save, remove | listings come and go between pages; two writes for one removal | each listing once, all of them matching; the count agrees |
| Bookings (`booking.service.ts`) | visits | create, confirm, reject, cancel, complete | overlap check before the insert | no two visits at one time |
| KYC (`kyc.service.ts`) | user status, documents | three kinds of submission, face, review, decisions | a document picked before the upload, decided meanwhile | verified means an approved document |
| Calls, presence (`call.service.ts`, `chat.gateway.ts`) | call rows; sockets in memory | invite, ring, accept, reject, cancel, end, missed; connect, disconnect | both sides act together; token check before a socket is registered | one call per user; clients agree on who is online |
| Chat (`conversation.service.ts`, `message.service.ts`) | messages; a row with counters | create, send, read, react, hide | counters next to messages, read-modify-write of flags | the row agrees with the messages |
| Notifications (`notification-service`) | rows; shared rows | one handler per event; read, delete | several receivers one after another; administrators who read together | nobody told twice; read by one is read for all |

**Interactions.** The gateways (MoMo, VNPay) notify `contract-service` by HTTP
and are polled by its cron. VNPay sends every notification, of top-ups, rents
and deposits, to the wallet's handler, which settles payments itself. Payments
and the wallet write the same balances. A termination settles on the contract,
the deposit and both wallets; the end of a contract changes the request it came
from. `contract-service` tells `estate-service` the status of a property;
`estate-service` takes listing fees from a wallet by HTTP (`deductWallet`). All
services put events into the queue of `notification-service`.

## Modules

| Module | What it is |
|---|---|
| `HoldingDeposit` | requests and their deposits: from filing a request to the contract |
| `Award` | what the competition for a property promises, implemented by `HoldingDeposit` |
| `Wallet` | balances: top-ups, withdrawals, fees, rents |
| `ContractLifecycle` | contracts from draft to renewal, signatures, SmartCA, the crons on leases, renewals and appendices |
| `Settlement` | what a termination pays to whom: operators on the books |
| `Termination` | requests to terminate, reports, settlements; extends the two above |
| `Billing` | the bills of one lease and the crons that write and chase them |
| `Search`, `Listing`, `Favorites` | the public listings: paging, what is shown and how long, the favourite count |
| `Booking`, `Kyc` | visits; identity documents |
| `Presence`, `Calls`, `Chat` | chat-service |
| `Notification` | notification-service |
| `Services` | composes the modules from `Billing` to `Notification` in one specification |
| `MC...` | instances for TLC: `MCHoldingDeposit`, `MCWallet`, `MCContractLifecycle`, `MCTermination`, `MCBilling`, `MCServices` |
| `...Proofs` | theorems: `HoldingDepositProofs` (with `Award`), `WalletProofs`, `TenancyProofs` (`ContractLifecycle` and `Termination`), `BookingProofs`, `KycProofs`, `CallsProofs`, `FavoritesProofs`, `ServicesProofs` (all of `Services`) |

**How a handler is modelled.** Node.js runs handlers one at a time between
`await`s. A handler in flight is a record (`job` in a `Slot`, `clerk`,
`handler`) that says where it waits for the database or a gateway and what it
has read and will use. Every read that may be stale when it is used is thus a
step of its own. A transaction that only reads and then writes one row commits
in one step after its reads: at READ COMMITTED its reads lock nothing. Row
locks are explicit where the code holds several (`finalizeHoldingDeposit...`
takes them with `FOR UPDATE`, so it is one step behind `MayPromote`; the
settlement of a rent keeps the tenant's wallet and the payment locked while it
goes on, `WalletFree` and `RentFree`). A crash loses what is in flight and
timers, and keeps committed rows.

**`HoldingDeposit`.** `status`, `lapsed`, `depositOf`, `contracted` are columns
of `rental_requests`; `payStatus`, `payMethod`, `payCode`, `polls`, `transOf`
those of `payments`. Amounts do not matter to its properties: `settled` counts
the credits of the owner, `debited` the payments taken from a tenant's wallet,
`refundLogs` the refund rows. The gateways are `orders`, `captured`,
`returned`. An order carries the code the payment had when it was made,
because `confirmPayment` gives a payment a new code every time and the
reconciliation asks by code. `finalizeHoldingDepositAfterPayment` is the read
at `finalize`, then the locked part (`AlreadyPaid`, `MarkRefunded`, `LostRace`,
`Promote`), then the refund at the gateway and the records of it, each a
step at which it may stop or be overtaken.

**`Award`.** Three sets: requests whose tenants may pay, the one that holds the
property, the ones a contract was made from. The refinement mapping reads them
off `status`. A win takes an open window with nobody holding the property and
closes the rivals' windows in the same step, which is what the row locks are
there for, however stale the reads before them.

**`Wallet`.** `balance` is `wallets.balance`; `topup`, `polls`, `withdrawal`,
`refunds`, `charged`, `rentLogs` are the rows of `wallet_transactions` and
`withdrawal_requests` by kind; `timers` are the `setTimeout`s of withdrawals;
`credits` and `debits` count what happened to the balance for an item. A rent
is `pending` or `paid`: that it also falls overdue is in `Billing`.

**`ContractLifecycle`.** `status`, `parent` (the contract an update is a draft
of), `renewedFrom`, `inactive`, `deposit`, `signed` are columns of
`rental_contracts`; `sign` are its two signing columns, `session` the two
transactions at VNPT with what VNPT would answer, `inbox` the
`contract.process_signed` messages. `term` is where today is in the lease, and
`lapsed` the updates whose time is over: dates appear as the comparisons the
code makes with them. The renewal of a lease by the cron is four to five writes
one after another (`RenewCreate`, `RenewBase`, `ExtendAppendix`,
`ExtendContract`), between which the process may stop. `lateEdit` is a note of
the model.

**`Settlement` and `Termination`.** `books` are the two balances and the
owner's pending balance, `escrow` the state of the deposit. `PolicyBooks` and
`AdminBooks` are the writes of `settleTermination` and
`settleTerminationByAdmin`, which compute each new balance from the wallets
as read at the start. `Termination` extends `ContractLifecycle`, so that its
handlers run beside those that sign, renew and cancel. The notes of the model
are variables of their own: how often the deposit of a contract was paid out
and how often there was a cause for it (`paidOut`, `causes`), payouts of a
deposit that was settled before (`repeats`), what administrators returned above
the deposits (`excess`), whether a fee was charged, and whether an administrator
named a penalty or a compensation (`charged`, `fined`). `reopened` notes that a
report moved a request. A report names any request there is, as `createReport`
does not compare its contract.
`updateTerminationStatus` with amounts writes a deposit status that the schema
does not have, so that it always aborts: `GiveUp`.

**`Billing`.** A date is a day number, a calendar (`FirstDay`) the first days of its months.
`MonthlyDueDate`, `EffectiveDue` and `FindMonthly` are the functions of the
same names; `billing` and `sweep` are the runs of the two crons in progress.
The lease becomes active on its first day. One charge stands for the
management, parking and internet fees, which are looked for one by one in the
same way.

**The others.** `Search` has the rows, the reader's query and cursor; `Listing`
one property with its expiry and the sweep; `Favorites` the rows and the
counter of one property; `Booking` the visits of one landlord; `Kyc` one user
with several documents; `Presence` the sockets, the map of who is online, and
what each client has been sent and not yet applied; `Calls` the rows; `Chat`
one conversation; `Notification` the queue, for each event the receivers still
to be told (the queue acknowledges by itself, so that several events are
handled at a time), and the rows of a shared notification. `Services` instantiates them side by side.
They share no row, so that a behaviour of all is a behaviour of each;
`focus` is chosen at the start and only that component moves, which keeps the
states to the sum instead of the product.

## Runs

| Run | Instance | Question |
|---|---|---|
| `deposit_live` | 1 request, 1 payment, 2 jobs, both gateways and the wallet, 2 polls, one crash, every handler | are credits, holders and refunds backed by money; do windows close, and payments at a gateway end, whether or not the gateway ever says a word? |
| `deposit_race` | 2 requests of 2 tenants for 1 property, 2 payments, 2 jobs | do the row locks leave one winner, and is every step one of `Award`? |
| `deposit_serial` | the same, 1 job at a time, 2 polls, one crash, every handler | what does the competition guarantee when handlers do not overlap? |
| `wallet_race` | 1 top-up, 1 withdrawal, 1 fee, 2 rents in opposite directions, 2 jobs, one crash, every handler | no debt; are credits and refunds backed? |
| `wallet_serial` | 2 top-ups (one without a gateway), 1 withdrawal, 1 fee, 1 job, 2 polls | balance against ledger, single credit, everything ends |
| `contracts` | a contract and an update of it that is signed through SmartCA, 2 jobs | who signed what is in force, what may replace a contract, one worker for a signature |
| `leases` | 2 leases (one long) that renew themselves, a place for a successor, edits and cancellation, renewal and adjustment requests, one crash | is a lease that ends renewed, and every extension on record? |
| `tenancy` | 1 contract, 2 requests, 1 report, 1 renewal, a deposit of 2 of which 0, 1 or 3 are returned, fees of 0 and 1, 1 unpaid rent, one crash; one handler of each module in flight | do the books balance; are disputes and requests in step; has every payout its cause? |
| `services` | three listings and two handlers, two users with three sockets, two calls among three users, three administrators, leases of 30 to 80 days, and so on (`services.cfg`) | one invariant for each component, and the sweep's liveness |

Violations, each a statement of the source that the code does not keep:

| Run | What happens |
|---|---|
| `v_wallet_loser` | a loser who paid from the wallet is marked refunded and gets nothing |
| `v_paid_overdue` | the overdue cron reads a pending rent, the tenant pays it, the cron writes overdue over it |
| `v_search_keyword` | from the second page on the public search no longer asks for the keyword |

**Bounds.** `Slot`, `Handler` have one or two handlers in flight: every hazard
of this code is between two handlers, or between a handler and itself after a
crash. `PollLimit` (5 in the code) is 1 or 2. A deposit is asked about at every
attempt but the last, so that 2 is the least at which it is asked about at all;
a top-up is asked about at every one, so that 1 has the interesting case.
`MaxCode` is the number of times a payment is started at a gateway: once in the
runs, any number of times in the theorems.
`MaxSettled` and `MaxCredits` bound what VNPay's notification could repeat
without end, as it never looks at the status; the count is compared with zero
or the run leaves VNPay out. `MaxCrash`, `MaxMissed`, `MaxRestart` are 1: a
second crash begins where the first one ended. The amounts of `MCWallet` make
one top-up cover two of the other items and a third one uncovered; the deposit
of `tenancy` is larger than a fee and a debt, so that returns in part happen.
`MaxAppendix` and `MaxAutoRenew` (3 in the code) leave one renewal and one
adjustment. `Original` and `Digital` say which contracts are drafted as such
and which are signed through VNPT, so that one contract stays for the update or
the successor. The calendar of `Billing` has a short month in it, due days on
both sides of the start of the lease and beyond the end of that month, and leases
that start in the middle and in the last days of a month, one of them on the
day of the next month's notice. `Search` has pages of one listing, so
that three listings are three pages, and two changes between them. `LastDay`
lets a trial and a renewed period end. `Handlers` and `Reasons` leave out what
a run does not ask about; `tenancy` gives the reason whose policy depends on
who ends the contract, and the crons add the others. Its `Returns` are nothing,
a part of the deposit and more than the deposit, as no limit is set to what an
administrator returns. Its `Renewal` brings an ended contract back into force
and its report sends a request back, so that a deposit is paid out a second
time in either way; a second report beside a renewal is beyond the time of a
run. `CHECK_DEADLOCK FALSE`: when everything is settled and every bound
is reached, the system does stop.

**What overlapping handlers lose.** `deposit_serial`, `wallet_serial`, `leases`
and `tenancy` run one job at a time where their properties are false with two:
all of `AtMostOneHolder`, `CreditedOnce`, `HolderKeepsDeposit`,
`BalanceMatchesLedger`, `TopupCreditedOnce`, `DisputeHasReport`,
`OneOpenRequest` and `PayoutsCaused` fall to a handler that writes by id, or writes a balance, on
what it read before. A serial run still checks the order of handlers, late and
repeated notifications and crashes. `wallet_serial` has no rent, which alone
breaks the ledger, and no crash, after which `WithdrawalEnds` is false: a
withdrawal whose timer was lost stays pending, because `processWithdrawal` is
called from the timer only. It also leaves out `noanswer`: when the last query
of a top-up fails, the row keeps `pending` with its attempts used up.
`NoDoubleVisit`, `OneCallPerUser` and `VerifiedHasDocument` hold with handlers
overlapping, save for rows written on what was no longer so (`late`); they say
that nothing else breaks them, and how far the damage goes.

**Fairness.** `WF(Continue(a))`: a job that waits for the database or a gateway
gets its answer, or an error, and goes on. `SF` of `ExpireFind`,
`ReconcileFind`, `RenewFind` (crons every 30 seconds, 3 minutes, every minute)
and of the wallet's `ProcessStart` (a timer that is set fires). These need a
free slot, and slots are a bound of the model, not of Node.js, which accepts
every call: strong fairness says that they are not shut out by the bound.
`WF(WindowLapses)`: time passes. In `Services` the listing sweep goes on
(`WF` of `SweepStep`), as its interval does. Nothing that users or gateways do
is fair: nobody has to pay, open or cancel anything, and no notification has to
arrive.

## Proofs

Every safety invariant that a run checks is a theorem, for every number of
requests, payments, users, items, contracts, listings, messages and handlers
and every bound. The assumptions are those named in the modules: types of the
constants; items of different kinds are different; the sentinels are not rows;
finitely many contracts, items, listings and handlers, where something is
counted or summed; administrators are listed once; the other party of the
other party of a conversation is oneself. The components that `Services`
composes name theirs as a definition, which is a hypothesis of their theorems
and a conjunct of `ServicesAssumption`.

Eight theorems have one hypothesis more, because the property is false
without it (see *What overlapping handlers lose*): `Sole`, one slot, or
`OneClerk`, one handler of terminations at a time beside all others. Handlers
may still come in any order, stop in the middle and be repeated.

**Deposit.** `MoneyBehindCredit`, `HolderHasPaid` and `AtMostOnePaid` are not
inductive: whether a write is harmless depends on what its job read. `DepositInv`
adds `JobKnows`: a job past the capture holds a captured order of its payment,
a job that makes a contract works for a request with a deposit taken, and so
on, and that every deposit has a request. Money that was taken stays taken
(`Grows`), so what a job knows stays true while others move
(`KnowledgeStays`). Each step is then a new job, a step of one job that writes
nothing, or one that writes. Theorems: `DepositInvariant`, `TypeCorrect`, `CreditsBacked`,
`HoldersPaid`, `OneWinner`, `PromotionExclusive` (an action property).

*Refunds.* `RefundInv` says that a job that is about to record a refund has
the gateway's return behind it, or an order taken to VNPay, and that a
payment's method and receipt are those of an order of its own (`RefundsBacked`).

*One handler at a time.* `SerialInv` says that what a job read is still so
when it writes (`Fresh`) and that a request whose contract is made, or whose
deposit went back, never competes again: `OneHolder`, `HolderKeeps`.
`CreditInv` says that a payment is settled while it can be paid and never
becomes payable again: `OwnersCreditedOnce`. This one also excludes the method
VNPay, whose notification never looks at the payment, so that a repeated one
credits again.

**Award.** `DepositsImplementAward` is the refinement that `deposit_race`
checks: initial states map to the initial state, and every step to a step of
`Award` or to none. The steps sort by what they write to `status`: nothing
(`StatusStays`), an open window, a contract, a promotion (`PromoteWins`, from
`MayPromote` under the row locks and `DepositInv`), or a status that leaves
the competition (`StatusLeaves`).

**Wallet.** `NeverNegative` does not depend on the balance now, but on the one
a job read: `JobKnows` says that what it will subtract was covered by that.
`RefundedIffRejected` and `PendingHasTimer` need that no two jobs process one
withdrawal (`OneJobPerWithdrawal`), and that none is processed while its timer
is set. Steps that leave withdrawals alone share `JobsStep`; the four that do
not are proved one by one. Theorems: `WalletInvariant`, `WalletTypeCorrect`,
`NoDebt`, `TopupsBacked`, `RentsBacked`, `RefundsExact`, `WithdrawalsTimed`.

*One handler at a time.* `TopupInv` says that a job on its way to credit a
top-up finds it uncredited (`TopupsCreditedOnce`), `LedgerInv` that a balance
a job has read is still the balance (`BalancesMatch`, which leaves rents out:
each of them writes its row twice). Every step either leaves the rows that
count alone or adds one of them and moves the balance by its amount
(`LedgerStep`, `BooksFollow`). The sums are those of the community modules,
which take one element after another: `BySize` is induction over a finite set,
from the least size of a counterexample, and from it follow that the elements
may be taken in any order (`AnyOrder`) and that an element more adds its value
(`SumTakes`).

**Contracts.** `LifeInv` is one invariant for the four promises of
`ContractLifecycle`. What is past the tenant's turn, and what a handler in
flight has checked so, has the tenant's signature (`SignedInTurn`); a worker
that read the other signature works on a file that has it (`CompleteUpdates`);
handlers that have put an extension on record and still have to count it are
owed to the counter (`ExtensionsOwed`, a cardinality). Theorems:
`TenantFirst`, `UpdatesSigned`, `SoleWorker`, `ExtensionsRecorded`.

**Terminations.** `Termination` adds its actions to those of
`ContractLifecycle`; each of them is shown to keep `LifeInv`
(`EndingsKeepPromises`). `BooksNeverNegative` is type correctness, and says
that no settlement takes a balance below zero, whatever the amounts.
`SettlementsBalance` weighs the owner's pending balance against the deposits
that were not paid out (`BooksInv`): it never holds more than these, and less
only by payouts that were repeated, each of which takes from it what lies there
for another contract, while the parties get a deposit whatever it held. With
`OneClerk`, requests are numbered as they are made and an open one is the
latest of its contract (`LatestOpen`), because what a clerk checked is so when
it writes (`UpToDate`): `OneRequestOpen`, `DisputesAreReported`.
`PayoutsHaveCause` counts, beside the payouts made, those that may still be due
(`CausedInv`): one to a contract that is in force or whose end is asked for or
decided (`Standing`), and one to each request that a report sent back
(`Reopened`). An end uses one of these up, and only what `causes` counts adds
one.

**Visits, calls, documents, favourites.** `VisitsApart`, `CallsExclusive`,
`VerifiedBacked` and `CountsKept` strengthen their property with what a handler
in flight knows of the row it will write (`Knows`): that the row exists and is
typed, or that the document is the user's. For visits and calls the argument is
that a status written to an existing row opens nothing that was closed, except
by the writes that `late` records. `CountsKept` is about cardinalities: a
removal moves a user from the rows into the handlers that have yet to count
down, and a crash forgets at most as many of these as there are handlers.
`ServicesProofs` shows that `Services` implements each of the components
(`VisitsImplemented` and its like), so each theorem holds among the others:
`VisitsAmong`, `IdentityAmong`, `CallsAmong`, `FavoritesAmong`.

**Notifications, presence, chat, search** (`ServicesProofs`). The shared rows
are made once and then only become fewer, so a reader that has read the rows
of the others knows of all there will be (`SharedInv`: `ReadByOneIsRead`).
Whoever has still to be told of an event has not been told of it, and each
event names its receivers once (`ToldInv`: `NobodyToldTwice`). What a client
believes is its view after the messages on their way to it, which agrees with
the map of sockets at every step (`PresenceInv`: `ClientsKnowWhoIsOnline`).
The counter of unread messages is the cardinality of what the other one wrote
since (`ChatInv`: `RowAgrees`). A page is the listings of least rank past the
cursor, so that one that stays as it is has been shown once when the cursor is
past it and is still to come when it is not (`SearchInv`: `EachShownOnce`).

**Bills** (`ServicesProofs`). `BillInv` says what a run of the cron knows of
the month it looks at (`OneRentPerMonth`). For `EveryMonthBilled` and
`UnpaidIsEnded`, `TurnInv` counts the days on which the cron looks at a month
and has not done its work: never more than the runs it missed. The proof found
what TLC had not been asked: a lease that starts five days before the next due
day, with its first rent due on the start, has the notice of the second month
on a day the cron gives to the first. `MonthBilled` no longer
counts such a day as one on which the month is looked at, and `services.cfg`
now has such leases.

**Only model-checked.** Liveness (`OpenWindowCloses`, `GatewayPaymentEnds`,
`WithdrawalEnds`, `TopupEnds`, `LeaseRenews`, `ExpiredComesDown`): TLAPS does
not reason about `ENABLED` here.

## Where the code and its words part

Found while modelling; the three runs above show the first three.

- A loser who paid from the wallet is not refunded (`payment.service.ts:295`).
- A paid rent is set overdue again (`cronjob.service.ts:328`).
- The keyword is dropped after the first page (`property.service.ts:1105`).
- Two notifications of the winning payment that overlap: the second finds the
  request no longer open and refunds the holder (`payment.service.ts:245`).
- A notification after the reconciliation gave up promotes a request whose
  deposit is neither recorded nor credited (`payment.service.ts:724`).
- When a contract ends, or is cancelled, the requests locked behind its own
  stay locked and the property stays closed (`termination.service.ts:192`,
  `contract.service.ts:552`). A deposit notified by VNPay is never finalised.
- A rent from the wallet leaves two `pay_rent` rows for one debit
  (`payment.service.ts:1158`); two withdrawals that overlap are both paid from
  one balance (`wallet.service.ts:617`); a blank answer of VNPay to a refund
  counts as a refund (`payment.service.ts:290`).
- The valid transitions of `contract.service.ts:33` are looked up by three
  handlers; the others, SmartCA and the crons write any status.
- A SmartCA worker that took the owner's signature before a contract is settled
  makes it active again when it is done (`smartca.service.ts:1026`).
- A lease near its expiration is not ended for non-payment, nor by the cron
  when it is over and does not renew itself: only active ones are
  (`termination.service.ts:1297`).
- Approving a renewal makes a terminated contract active again
  (`renewal.service.ts:215`), although `isActive` stays false: the crons that
  bill and that end for non-payment look for the status alone, those for the end
  of a lease for both. When it ends again its deposit is paid out twice, out of
  what lies there for others or out of nothing. So is that of a
  request which was over and which a report sends back
  (`report.service.ts:256`); the request need not be one of the contract that
  the report is about.
- An administrator can return more than the deposit
  (`report.dto.ts:79`, `termination.service.ts:1187`): the tenant gets it and
  nobody pays it.
- In a settlement by an administrator the return of the deposit writes the
  tenant's balance over the fine (`termination.service.ts:1124`).
- A due day at the end of a month leaves no day on which its rent is marked
  overdue; the prorated first rent of SmartCA takes the place of the month's.
- A listing that expired and is shown again by its owner or by a contract's
  end stays up (`listing-fee.service.ts:334` skips those marked expired). A fee
  whose answer is lost is not given back.
- A socket that disconnects while its token is checked is online for ever
  (`chat.gateway.ts:63`); calls are not ended when their parties disconnect.
- `rejectBooking` and `completeBookingService` do not look at the status; the
  approval of a document read as approved writes the user alone; reactions and
  the flags of a conversation lose updates; two administrators who read a
  shared notification together can remove each other's rows.
- The events of listings about to expire and of leases near their end have no
  handler in `notification-service`.

## Not modelled

Signatures of messages, formats, logs and pages are left out throughout.
Within modelled components: the methods cash and ZaloPay, which end in a
refusal, and bank transfer, which returns nothing; `addFunds`, `deductFunds`,
`createDepositPayment`, `createRentPayment` and `createMonthlyRentPayments`,
which nothing calls; the creation of wallets (every user has one, without it
every handler refuses); reminders and pushes, which write nothing; push
tokens.

Components without a module, because they have no behaviour that a model would
show: users, sign-up and one-time codes (one row or entry at a time), bulk
import (validation of a file, then `createProperty`), contract templates, news,
reviews, dashboards and price statistics (queries and single-row edits),
payment proofs on the blockchain (written to an external ledger, errors
ignored), the AI service and the web clients.
