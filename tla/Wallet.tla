------------------------------- MODULE Wallet -------------------------------
(***************************************************************************)
(* The balances of contract-service: top-ups, withdrawals, listing fees    *)
(* and rent, each of which moves the one row of wallets a user has.        *)
(*                                                                         *)
(* All but one of the handlers read the balance and later write the value  *)
(* they computed from it.  They do so in transactions at READ COMMITTED: a *)
(* read takes no lock and sees the last commit, a write locks its row      *)
(* until the commit and waits for a row that is locked.  A transaction     *)
(* that writes one row it has read is therefore two steps, the read and    *)
(* the commit; the settlement of a rent locks several rows on its way.     *)
(***************************************************************************)
EXTENDS Integers, FiniteSets, Functions

CONSTANTS
    User,        \* users, each with a wallet
    Topup,       \* wallet_transactions of type deposit that may come to exist
    Withdrawal,  \* withdrawal_requests that may come to exist
    Fee,         \* calls of deductWallet for a listing fee
    Rent,        \* payments of type rent, created by the billing
    walletOf,    \* whose wallet a top-up, withdrawal or fee is of
    payerOf,     \* the tenant of a rent
    ownerOf,     \* the landlord of a rent
    amountOf,    \* the amount of each item
    ViaGateway,  \* the top-ups that go through MoMo or VNPay
    Slot,        \* handlers in flight at one time
    PollLimit,   \* reconciliation attempts before a top-up is given up (5)
    MaxCredits,  \* bound: times one rent is settled
    MaxCrash,    \* bound: crashes of the process
    Handlers,    \* bound: the handlers that are called at all
    NoItem

Item == Topup \cup Withdrawal \cup Fee \cup Rent
AllHandlers == {"webhook", "confirm", "reconcile", "noanswer", "withdraw", "fee",
                "rent", "ipn", "vnpay"}

ASSUME UserAssumption ==
    /\ walletOf \in [Topup \cup Withdrawal \cup Fee -> User]
    /\ payerOf \in [Rent -> User]
    /\ ownerOf \in [Rent -> User]
    /\ \A p \in Rent : payerOf[p] # ownerOf[p]
ASSUME ItemAssumption ==
    /\ IsFiniteSet(Item) /\ amountOf \in [Item -> Nat \ {0}]
    /\ NoItem \notin Item
    /\ Topup \cap Withdrawal = {} /\ Topup \cap Fee = {} /\ Topup \cap Rent = {}
    /\ Withdrawal \cap Fee = {} /\ Withdrawal \cap Rent = {} /\ Fee \cap Rent = {}
    /\ ViaGateway \subseteq Topup
ASSUME BoundAssumption ==
    /\ PollLimit \in Nat \ {0}
    /\ MaxCredits \in Nat
    /\ MaxCrash \in Nat
    /\ Handlers \subseteq AllHandlers

-----------------------------------------------------------------------------

TopupStatus == {"none", "pending", "success", "failed"}
\* A withdrawal and its wallet_transactions row change in one transaction;
\* processing is never committed.
WithdrawalStatus == {"none", "pending", "success", "rejected"}

VARIABLES
    balance,      \* wallets.balance
    topup,        \* status of the deposit row
    polls,        \* its polling_count
    withdrawal,   \* withdrawal_requests.status
    timers,       \* withdrawals whose five-second timer is set, in memory
    refunds,      \* refund rows of a withdrawal
    charged,      \* fee rows
    rent,         \* payments.status of the rents: pending or paid
    rentLogs,     \* pay_rent rows of the tenant for a rent
    credits,      \* times a wallet was credited for a top-up or a rent
    debits,       \* times the tenant's wallet was debited for a rent
    captured,     \* top-ups and rents paid at a gateway
    confirmed,    \* top-ups confirmed by the call for it
    job, crashes

rowVars == <<topup, polls, withdrawal, refunds, charged, rent, rentLogs>>
moneyVars == <<balance, credits, debits>>
worldVars == <<captured, confirmed>>
vars == <<rowVars, moneyVars, worldVars, timers, job, crashes>>

Pc == {"idle", "creditRead", "credit", "poll", "query", "lastQuery", "fail",
       "withdraw", "process", "fee",
       "rentRead", "rentDebit", "rentMark", "rentOwner", "rentSettle"}

Job == [pc: Pc,
        item: Item \cup {NoItem},
        bal: Nat,          \* the balance the job read
        own: Nat,          \* the owner's balance, when rent is settled
        debit: BOOLEAN]    \* rent paid from the tenant's wallet

ItemJob(l, i, b) == [pc |-> l, item |-> i, bal |-> b, own |-> 0, debit |-> FALSE]
RentJob(l, p, b, o, d) == [pc |-> l, item |-> p, bal |-> b, own |-> o, debit |-> d]
IdleJob == ItemJob("idle", NoItem, 0)

Init ==
    /\ balance = [u \in User |-> 0]
    /\ topup = [t \in Topup |-> "none"]
    /\ polls = [t \in Topup |-> 0]
    /\ withdrawal = [w \in Withdrawal |-> "none"]
    /\ timers = {}
    /\ refunds = [w \in Withdrawal |-> 0]
    /\ charged = {}
    /\ rent = [p \in Rent |-> "pending"]
    /\ rentLogs = [p \in Rent |-> 0]
    /\ credits = [i \in Topup \cup Rent |-> 0]
    /\ debits = [p \in Rent |-> 0]
    /\ captured = {} /\ confirmed = {}
    /\ job = [a \in Slot |-> IdleJob]
    /\ crashes = 0

-----------------------------------------------------------------------------
(* Steps of a job, and the row locks it holds.                             *)

Begin(a, j) == job[a].pc = "idle" /\ job' = [job EXCEPT ![a] = j]
At(a, l) == job[a].pc = l
Become(a, j) == job' = [job EXCEPT ![a] = j]
Finish(a) == job' = [job EXCEPT ![a] = IdleJob]

\* The settlement of a rent has written the tenant's wallet, or the payment.
LocksWallet(b, u) ==
    /\ job[b].pc \in {"rentMark", "rentOwner", "rentSettle"}
    /\ job[b].debit /\ payerOf[job[b].item] = u
LocksRent(b, p) == job[b].pc \in {"rentOwner", "rentSettle"} /\ job[b].item = p
WalletFree(a, u) == \A b \in Slot \ {a} : ~LocksWallet(b, u)
RentFree(a, p) == \A b \in Slot \ {a} : ~LocksRent(b, p)

-----------------------------------------------------------------------------
(* Top-ups.                                                                *)

InitiateTopup(t) ==
    /\ topup[t] = "none"
    /\ topup' = [topup EXCEPT ![t] = "pending"]
    /\ UNCHANGED <<polls, withdrawal, refunds, charged, rent, rentLogs, moneyVars,
                   worldVars, timers, job, crashes>>

\* Mutant: the status of the row is not looked at.
WebhookCheckBlind(a, t) ==
    /\ t \in captured \cap Topup
    /\ credits[t] < MaxCredits
    /\ Begin(a, ItemJob("creditRead", t, 0))
    /\ UNCHANGED <<rowVars, moneyVars, worldVars, timers, crashes>>

\* The notification of either gateway; a row given up as failed is still credited.
WebhookCheck(a, t) ==
    /\ t \in captured \cap Topup
    /\ topup[t] # "success"
    /\ Begin(a, ItemJob("creditRead", t, 0))
    /\ UNCHANGED <<rowVars, moneyVars, worldVars, timers, crashes>>

ConfirmCheck(a, t) ==
    /\ topup[t] \in {"pending", "failed"}
    /\ confirmed' = confirmed \cup {t}
    /\ Begin(a, ItemJob("creditRead", t, 0))
    /\ UNCHANGED <<rowVars, moneyVars, captured, timers, crashes>>

CreditRead(a) ==
    LET t == job[a].item
    IN  /\ At(a, "creditRead")
        /\ Become(a, ItemJob("credit", t, balance[walletOf[t]]))
        /\ UNCHANGED <<rowVars, moneyVars, worldVars, timers, crashes>>

CreditCommit(a) ==
    LET t == job[a].item
        u == walletOf[t]
    IN  /\ At(a, "credit")
        /\ WalletFree(a, u)
        /\ balance' = [balance EXCEPT ![u] = job[a].bal + amountOf[t]]
        /\ topup' = [topup EXCEPT ![t] = "success"]
        /\ credits' = [credits EXCEPT ![t] = @ + 1]
        /\ Finish(a)
        /\ UNCHANGED <<polls, withdrawal, refunds, charged, rent, rentLogs, debits,
                       worldVars, timers, crashes>>

\* reconcilePendingTransactions, one row of its list at a time.
ReconcileFind(a, t) ==
    /\ topup[t] = "pending" /\ polls[t] < PollLimit
    /\ Begin(a, ItemJob("poll", t, 0))
    /\ UNCHANGED <<rowVars, moneyVars, worldVars, timers, crashes>>

\* Mutant: the attempts are not counted.
ReconcilePollUncounted(a) ==
    LET t == job[a].item
    IN  /\ At(a, "poll")
        /\ IF t \in ViaGateway THEN Become(a, ItemJob("query", t, 0)) ELSE Finish(a)
        /\ UNCHANGED <<rowVars, moneyVars, worldVars, timers, crashes>>

\* The count goes up for every row; a row that names no gateway is skipped.
\* Bound: jobs in flight together may take the count above the limit, where
\* it makes no difference.
ReconcilePoll(a) ==
    LET t == job[a].item
        n == polls[t] + 1
    IN  /\ At(a, "poll")
        /\ polls' = [polls EXCEPT ![t] = IF @ < PollLimit THEN n ELSE @]
        /\ IF t \in ViaGateway
           THEN Become(a, ItemJob(IF n >= PollLimit THEN "lastQuery" ELSE "query", t, 0))
           ELSE Finish(a)
        /\ UNCHANGED <<topup, withdrawal, refunds, charged, rent, rentLogs, moneyVars,
                       worldVars, timers, crashes>>

\* Mutant: any answer counts as paid.
QueryPaidAny(a) ==
    /\ At(a, "query") \/ At(a, "lastQuery")
    /\ Become(a, ItemJob("creditRead", job[a].item, 0))
    /\ UNCHANGED <<rowVars, moneyVars, worldVars, timers, crashes>>

\* Paid: the wallet is credited without looking at the row again.
QueryPaid(a) ==
    /\ At(a, "query") \/ At(a, "lastQuery")
    /\ job[a].item \in captured
    /\ Become(a, ItemJob("creditRead", job[a].item, 0))
    /\ UNCHANGED <<rowVars, moneyVars, worldVars, timers, crashes>>

QueryUnpaid(a) ==
    /\ \/ At(a, "query") /\ Finish(a)
       \/ At(a, "lastQuery") /\ Become(a, ItemJob("fail", job[a].item, 0))
    /\ job[a].item \notin captured
    /\ UNCHANGED <<rowVars, moneyVars, worldVars, timers, crashes>>

\* The gateway does not answer, at the last attempt either.
QueryFails(a) ==
    /\ At(a, "query") \/ At(a, "lastQuery")
    /\ "noanswer" \in Handlers
    /\ Finish(a)
    /\ UNCHANGED <<rowVars, moneyVars, worldVars, timers, crashes>>

GiveUp(a) ==
    /\ At(a, "fail")
    /\ topup' = [topup EXCEPT ![job[a].item] = "failed"]
    /\ Finish(a)
    /\ UNCHANGED <<polls, withdrawal, refunds, charged, rent, rentLogs, moneyVars,
                   worldVars, timers, crashes>>

-----------------------------------------------------------------------------
(* Withdrawals: the money is withheld at once, and a timer in memory       *)
(* decides five seconds later whether the bank took it.                    *)

\* One call makes one withdrawal, or charges one fee.
WithdrawRead(a, w) ==
    /\ withdrawal[w] = "none"
    /\ \A b \in Slot : job[b].item # w
    /\ balance[walletOf[w]] >= amountOf[w]
    /\ Begin(a, ItemJob("withdraw", w, balance[walletOf[w]]))
    /\ UNCHANGED <<rowVars, moneyVars, worldVars, timers, crashes>>

\* Mutant: no timer is set.
WithdrawCommitUntimed(a) ==
    LET w == job[a].item
        u == walletOf[w]
    IN  /\ At(a, "withdraw")
        /\ WalletFree(a, u)
        /\ balance' = [balance EXCEPT ![u] = job[a].bal - amountOf[w]]
        /\ withdrawal' = [withdrawal EXCEPT ![w] = "pending"]
        /\ Finish(a)
        /\ UNCHANGED <<topup, polls, refunds, charged, rent, rentLogs, credits, debits,
                       worldVars, timers, crashes>>

WithdrawCommit(a) ==
    LET w == job[a].item
        u == walletOf[w]
    IN  /\ At(a, "withdraw")
        /\ WalletFree(a, u)
        /\ balance' = [balance EXCEPT ![u] = job[a].bal - amountOf[w]]
        /\ withdrawal' = [withdrawal EXCEPT ![w] = "pending"]
        /\ timers' = timers \cup {w}
        /\ Finish(a)
        /\ UNCHANGED <<topup, polls, refunds, charged, rent, rentLogs, credits, debits,
                       worldVars, crashes>>

\* The timer fires: processWithdrawal goes on only with a pending withdrawal.
ProcessStart(a, w) ==
    /\ w \in timers
    /\ timers' = timers \ {w}
    /\ withdrawal[w] = "pending"
    /\ Begin(a, ItemJob("process", w, 0))
    /\ UNCHANGED <<rowVars, moneyVars, worldVars, crashes>>

ProcessSuccess(a) ==
    /\ At(a, "process")
    /\ withdrawal' = [withdrawal EXCEPT ![job[a].item] = "success"]
    /\ Finish(a)
    /\ UNCHANGED <<topup, polls, refunds, charged, rent, rentLogs, moneyVars, worldVars,
                   timers, crashes>>

\* Mutant: the withheld money is given back and the withdrawal marked as paid out.
ProcessRejectedAsSuccess(a) ==
    LET w == job[a].item
        u == walletOf[w]
    IN  /\ At(a, "process")
        /\ WalletFree(a, u)
        /\ balance' = [balance EXCEPT ![u] = @ + amountOf[w]]
        /\ withdrawal' = [withdrawal EXCEPT ![w] = "success"]
        /\ refunds' = [refunds EXCEPT ![w] = @ + 1]
        /\ Finish(a)
        /\ UNCHANGED <<topup, polls, charged, rent, rentLogs, credits, debits,
                       worldVars, timers, crashes>>

\* Mutant: the rejection is recorded, and the money stays withheld.
ProcessRejectedKept(a) ==
    LET w == job[a].item
    IN  /\ At(a, "process")
        /\ withdrawal' = [withdrawal EXCEPT ![w] = "rejected"]
        /\ refunds' = [refunds EXCEPT ![w] = @ + 1]
        /\ Finish(a)
        /\ UNCHANGED <<topup, polls, charged, rent, rentLogs, moneyVars, worldVars,
                       timers, crashes>>

\* The one handler that increments the balance in the database.
ProcessRejected(a) ==
    LET w == job[a].item
        u == walletOf[w]
    IN  /\ At(a, "process")
        /\ WalletFree(a, u)
        /\ balance' = [balance EXCEPT ![u] = @ + amountOf[w]]
        /\ withdrawal' = [withdrawal EXCEPT ![w] = "rejected"]
        /\ refunds' = [refunds EXCEPT ![w] = @ + 1]
        /\ Finish(a)
        /\ UNCHANGED <<topup, polls, charged, rent, rentLogs, credits, debits,
                       worldVars, timers, crashes>>

\* Mutant: a balance one short of the fee is enough.
FeeReadShort(a, f) ==
    /\ f \notin charged
    /\ \A b \in Slot : job[b].item # f
    /\ balance[walletOf[f]] + 1 >= amountOf[f]
    /\ Begin(a, ItemJob("fee", f, balance[walletOf[f]]))
    /\ UNCHANGED <<rowVars, moneyVars, worldVars, timers, crashes>>

\* deductWallet.
FeeRead(a, f) ==
    /\ f \notin charged
    /\ \A b \in Slot : job[b].item # f
    /\ balance[walletOf[f]] >= amountOf[f]
    /\ Begin(a, ItemJob("fee", f, balance[walletOf[f]]))
    /\ UNCHANGED <<rowVars, moneyVars, worldVars, timers, crashes>>

FeeCommit(a) ==
    LET f == job[a].item
        u == walletOf[f]
    IN  /\ At(a, "fee")
        /\ WalletFree(a, u)
        /\ balance' = [balance EXCEPT ![u] = job[a].bal - amountOf[f]]
        /\ charged' = charged \cup {f}
        /\ Finish(a)
        /\ UNCHANGED <<topup, polls, withdrawal, refunds, rent, rentLogs, credits, debits,
                       worldVars, timers, crashes>>

-----------------------------------------------------------------------------
(* Rent, paid from the tenant's wallet or through a gateway.  Either way   *)
(* settleIncomeForOwner then credits the owner.                            *)

RentCheck(a, p) ==
    /\ rent[p] = "pending"
    /\ Begin(a, RentJob("rentRead", p, 0, 0, TRUE))
    /\ UNCHANGED <<rowVars, moneyVars, worldVars, timers, crashes>>

\* The balance does not cover the rent: the transaction is given up.
RentRefused(a) ==
    /\ At(a, "rentRead")
    /\ balance[payerOf[job[a].item]] < amountOf[job[a].item]
    /\ Finish(a)
    /\ UNCHANGED <<rowVars, moneyVars, worldVars, timers, crashes>>

RentRead(a) ==
    LET p == job[a].item
    IN  /\ At(a, "rentRead")
        /\ balance[payerOf[p]] >= amountOf[p]
        /\ Become(a, RentJob("rentDebit", p, balance[payerOf[p]], 0, TRUE))
        /\ UNCHANGED <<rowVars, moneyVars, worldVars, timers, crashes>>

\* The tenant's wallet is written, and locked until the commit.
RentDebit(a) ==
    LET p == job[a].item
    IN  /\ At(a, "rentDebit")
        /\ WalletFree(a, payerOf[p])
        /\ Become(a, RentJob("rentMark", p, job[a].bal, 0, TRUE))
        /\ UNCHANGED <<rowVars, moneyVars, worldVars, timers, crashes>>

\* handlePaymentWebhook: a payment that is not pending is left alone.
RentIpn(a, p) ==
    /\ p \in captured
    /\ rent[p] = "pending"
    /\ Begin(a, RentJob("rentMark", p, 0, 0, FALSE))
    /\ UNCHANGED <<rowVars, moneyVars, worldVars, timers, crashes>>

\* VNPay's notification does not look at the status.
RentVnpay(a, p) ==
    /\ p \in captured
    /\ credits[p] < MaxCredits
    /\ Begin(a, RentJob("rentMark", p, 0, 0, FALSE))
    /\ UNCHANGED <<rowVars, moneyVars, worldVars, timers, crashes>>

\* The payment is written, and locked until the commit.
RentMark(a) ==
    LET p == job[a].item
    IN  /\ At(a, "rentMark")
        /\ RentFree(a, p)
        /\ Become(a, RentJob("rentOwner", p, job[a].bal, 0, job[a].debit))
        /\ UNCHANGED <<rowVars, moneyVars, worldVars, timers, crashes>>

RentOwner(a) ==
    LET p == job[a].item
    IN  /\ At(a, "rentOwner")
        /\ Become(a, RentJob("rentSettle", p, job[a].bal, balance[ownerOf[p]], job[a].debit))
        /\ UNCHANGED <<rowVars, moneyVars, worldVars, timers, crashes>>

\* Mutant: the wallet of the tenant is left as it is.
RentSettleUndebited(a) ==
    LET p == job[a].item
    IN  /\ At(a, "rentSettle")
        /\ WalletFree(a, ownerOf[p])
        /\ balance' = [balance EXCEPT ![ownerOf[p]] = job[a].own + amountOf[p]]
        /\ rent' = [rent EXCEPT ![p] = "paid"]
        /\ rentLogs' = [rentLogs EXCEPT ![p] = @ + IF job[a].debit THEN 2 ELSE 1]
        /\ credits' = [credits EXCEPT ![p] = @ + 1]
        /\ Finish(a)
        /\ UNCHANGED <<topup, polls, withdrawal, refunds, charged, debits, worldVars,
                       timers, crashes>>

\* Both paths write a pay_rent row of the tenant here, the wallet's path one
\* more when it debits.
RentSettle(a) ==
    LET p == job[a].item
        o == ownerOf[p]
    IN  /\ At(a, "rentSettle")
        /\ WalletFree(a, o)
        /\ balance' = [u \in User |-> IF u = o THEN job[a].own + amountOf[p]
                                      ELSE IF u = payerOf[p] /\ job[a].debit
                                      THEN job[a].bal - amountOf[p] ELSE balance[u]]
        /\ rent' = [rent EXCEPT ![p] = "paid"]
        /\ rentLogs' = [rentLogs EXCEPT ![p] = @ + IF job[a].debit THEN 2 ELSE 1]
        /\ credits' = [credits EXCEPT ![p] = @ + 1]
        /\ debits' = [debits EXCEPT ![p] = @ + IF job[a].debit THEN 1 ELSE 0]
        /\ Finish(a)
        /\ UNCHANGED <<topup, polls, withdrawal, refunds, charged, worldVars, timers, crashes>>

\* The database breaks a cycle of waits, or a transaction times out waiting.
Abort(a) ==
    /\ At(a, "rentMark") \/ At(a, "rentOwner") \/ At(a, "rentSettle")
    /\ Finish(a)
    /\ UNCHANGED <<rowVars, moneyVars, worldVars, timers, crashes>>

-----------------------------------------------------------------------------
(* The world outside.                                                      *)

\* The user completes the order of a top-up or of a rent.
UserPays(i) ==
    /\ i \notin captured
    /\ \/ i \in ViaGateway /\ topup[i] # "none"
       \/ i \in Rent /\ rent[i] = "pending" /\ ({"ipn", "vnpay"} \cap Handlers # {})
    /\ captured' = captured \cup {i}
    /\ UNCHANGED <<rowVars, moneyVars, confirmed, timers, job, crashes>>

\* The process stops: jobs and timers are gone, open transactions roll back.
Crash ==
    /\ crashes < MaxCrash
    /\ crashes' = crashes + 1
    /\ job' = [a \in Slot |-> IdleJob]
    /\ timers' = {}
    /\ UNCHANGED <<rowVars, moneyVars, worldVars>>

-----------------------------------------------------------------------------

\* A new job.
Arrive(a) ==
    \/ \E t \in Topup : \/ "webhook" \in Handlers /\ WebhookCheck(a, t)
                        \/ "confirm" \in Handlers /\ ConfirmCheck(a, t)
                        \/ "reconcile" \in Handlers /\ ReconcileFind(a, t)
    \/ "withdraw" \in Handlers /\ \E w \in Withdrawal : WithdrawRead(a, w)
    \/ \E w \in Withdrawal : ProcessStart(a, w)
    \/ "fee" \in Handlers /\ \E f \in Fee : FeeRead(a, f)
    \/ \E p \in Rent : \/ "rent" \in Handlers /\ RentCheck(a, p)
                       \/ "ipn" \in Handlers /\ RentIpn(a, p)
                       \/ "vnpay" \in Handlers /\ RentVnpay(a, p)

\* A job goes on.
Continue(a) ==
    \/ CreditRead(a) \/ CreditCommit(a)
    \/ ReconcilePoll(a) \/ QueryPaid(a) \/ QueryUnpaid(a) \/ QueryFails(a) \/ GiveUp(a)
    \/ WithdrawCommit(a) \/ ProcessSuccess(a) \/ ProcessRejected(a) \/ FeeCommit(a)
    \/ RentRead(a) \/ RentRefused(a) \/ RentDebit(a)
    \/ RentMark(a) \/ RentOwner(a) \/ RentSettle(a) \/ Abort(a)

Next ==
    \/ \E a \in Slot : Arrive(a) \/ Continue(a)
    \/ \E t \in Topup : InitiateTopup(t)
    \/ \E i \in Item : UserPays(i)
    \/ Crash

Spec == Init /\ [][Next]_vars

\* A job that runs goes on, a timer fires, and the reconciliation runs every
\* three minutes; a free slot is a bound of this model, so the last two are
\* strong.
Fairness ==
    /\ \A a \in Slot : WF_vars(Continue(a))
    /\ \A w \in Withdrawal : SF_vars(\E a \in Slot : ProcessStart(a, w))
    /\ \A t \in Topup : SF_vars(\E a \in Slot : ReconcileFind(a, t))

FairSpec == Spec /\ Fairness

-----------------------------------------------------------------------------
(* Properties.                                                             *)

RowsTyped ==
    /\ balance \in [User -> Int]
    /\ topup \in [Topup -> TopupStatus]
    /\ polls \in [Topup -> 0 .. PollLimit]
    /\ withdrawal \in [Withdrawal -> WithdrawalStatus]
    /\ timers \subseteq Withdrawal
    /\ refunds \in [Withdrawal -> Nat]
    /\ charged \subseteq Fee
    /\ rent \in [Rent -> {"pending", "paid"}]
    /\ rentLogs \in [Rent -> Nat]
    /\ credits \in [Topup \cup Rent -> Nat]
    /\ debits \in [Rent -> Nat]
    /\ captured \subseteq Topup \cup Rent /\ confirmed \subseteq Topup
    /\ crashes \in 0 .. MaxCrash

\* Every row and every job has the shape its handler gave it; what a job read
\* of a balance is never negative.
TypeOK == RowsTyped /\ job \in [Slot -> Job]

\* However the handlers overwrite each other's balance, none of them ever
\* leaves a wallet in debt: what is subtracted was covered by what was read.
NeverNegative == \A u \in User : balance[u] >= 0

\* A wallet is credited for a top-up only when a gateway has captured it or
\* the call that confirms top-ups was made for it.
TopupBacked == \A t \in Topup : credits[t] > 0 => t \in captured \cup confirmed

\* The owner is credited for a rent only when the tenant's wallet was debited
\* or a gateway has captured it.
RentBacked == \A p \in Rent : credits[p] > 0 => debits[p] > 0 \/ p \in captured

\* The money withheld for a withdrawal is given back when it is rejected, once,
\* and never when the bank was paid.
RefundedIffRejected ==
    \A w \in Withdrawal : refunds[w] = IF withdrawal[w] = "rejected" THEN 1 ELSE 0

Processing(w) == \E a \in Slot : At(a, "process") /\ job[a].item = w

\* As long as the process has not stopped, a withdrawal that is pending has a
\* timer, or is being processed.
PendingHasTimer ==
    crashes = 0 => \A w \in Withdrawal : withdrawal[w] = "pending"
                                         => w \in timers \/ Processing(w)

Of(u, S) == {i \in S : walletOf[i] = u}
Won == {t \in Topup : topup[t] = "success"}
Withheld == {w \in Withdrawal : withdrawal[w] # "none"}
GivenBack == [w \in Withdrawal |-> refunds[w] * amountOf[w]]
Logged == [p \in Rent |-> rentLogs[p] * amountOf[p]]
Received == [p \in Rent |-> credits[p] * amountOf[p]]

\* What the rows of wallet_transactions say of a wallet.  The row of a
\* withdrawal counts whatever its status: its money is withheld from the
\* start, and a row of its own gives it back.
Ledger(u) ==
    SumFunctionOnSet(amountOf, Of(u, Won))
    - SumFunctionOnSet(amountOf, Of(u, Withheld))
    + SumFunctionOnSet(GivenBack, Of(u, Withdrawal))
    - SumFunctionOnSet(amountOf, Of(u, charged))
    - SumFunctionOnSet(Logged, {p \in Rent : payerOf[p] = u})
    + SumFunctionOnSet(Received, {p \in Rent : ownerOf[p] = u})

\* The balance is the sum of the rows that are kept for reconciling it.
BalanceMatchesLedger == \A u \in User : balance[u] = Ledger(u)

\* A top-up is credited once, however it is notified, confirmed and reconciled.
TopupCreditedOnce == \A t \in Topup : credits[t] <= 1

\* A withdrawal that is pending is settled: paid out, or rejected.
WithdrawalEnds ==
    \A w \in Withdrawal : (withdrawal[w] = "pending") ~> (withdrawal[w] \in {"success", "rejected"})

\* A top-up through a gateway does not stay pending.
TopupEnds ==
    \A t \in ViaGateway : (topup[t] = "pending") ~> (topup[t] # "pending")

-----------------------------------------------------------------------------
(* The inductive invariant: what a job knows of the rows it works on, and  *)
(* that no other job works on the same withdrawal.                         *)

Crediting == {"creditRead", "credit"}
Polling == {"poll", "query", "lastQuery", "fail"}
Renting == {"rentRead", "rentDebit", "rentMark", "rentOwner", "rentSettle"}

JobKnows(j) ==
    /\ j.pc \in Crediting => j.item \in Topup \cap (captured \cup confirmed)
    /\ j.pc \in Polling => j.item \in Topup
    /\ j.pc = "withdraw" => /\ j.item \in Withdrawal /\ withdrawal[j.item] = "none"
                            /\ j.bal >= amountOf[j.item]
    /\ j.pc = "process" => /\ j.item \in Withdrawal /\ withdrawal[j.item] = "pending"
                           /\ j.item \notin timers
    /\ j.pc = "fee" => j.item \in Fee /\ j.bal >= amountOf[j.item]
    /\ j.pc \in Renting => j.item \in Rent /\ (j.debit \/ j.item \in captured)
    /\ j.pc \in {"rentRead", "rentDebit"} => j.debit
    /\ j.pc \in Renting \ {"rentRead"} /\ j.debit => j.bal >= amountOf[j.item]

OneJobPerWithdrawal ==
    \A a, b \in Slot : /\ a # b /\ job[a].pc = job[b].pc
                       /\ job[a].pc \in {"withdraw", "process"}
                       => job[a].item # job[b].item

WalletInv ==
    /\ TypeOK /\ NeverNegative /\ TopupBacked /\ RentBacked
    /\ RefundedIffRejected /\ PendingHasTimer
    /\ \A w \in timers : withdrawal[w] = "pending"
    /\ OneJobPerWithdrawal
    /\ \A a \in Slot : JobKnows(job[a])
=============================================================================
