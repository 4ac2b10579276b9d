--------------------------- MODULE HoldingDeposit ---------------------------
(***************************************************************************)
(* The competition for a property in contract-service.                     *)
(*                                                                         *)
(* Tenants file rental requests on a property, the owner opens a holding-  *)
(* deposit window for some of them, the tenants pay the deposit through    *)
(* MoMo, VNPay or the internal wallet, and the first payment that is       *)
(* finalised wins the property and locks the other requests.               *)
(*                                                                         *)
(* Every handler is a job that runs in a slot of the Node.js process and   *)
(* gives up control at each database statement or gateway call: what a job *)
(* read before such a point may be stale when it writes after it.  The     *)
(* database runs at READ COMMITTED, and only finalizeHoldingDeposit takes  *)
(* row locks, so only its last part is one step.                           *)
(***************************************************************************)
EXTENDS Integers, FiniteSets

CONSTANTS
    Request,      \* rental_requests rows that may come to exist
    propertyOf,   \* the property each request is for
    tenantOf,     \* the tenant each request is from
    Payment,      \* deposit rows of payments that may come to exist
    Slot,         \* handlers in flight at one time
    Method,       \* payment methods the tenants choose from
    PollLimit,    \* reconciliation attempts before a payment is given up (5)
    MaxCode,      \* bound: times a payment is confirmed (a code each time)
    MaxSettled,   \* bound: VNPay notifications accepted for a payment
    MaxCrash,     \* bound: crashes of the process
    Handlers,     \* bound: the handlers that are called at all
    NoRequest, NoPayment, NoOrder

Gateway == {"momo", "vnpay"}
AllMethods == Gateway \cup {"other", "bank_transfer", "cash", "zalopay",
                            "credit_card", "crypto"}
AllHandlers == {"create", "review", "open", "cancel", "pay", "confirm", "ipn",
                "reconcile", "expire", "contract", "terminate"}

ASSUME RequestAssumption == NoRequest \notin Request
ASSUME PaymentAssumption ==
    /\ NoPayment \notin Payment
    /\ Method \subseteq AllMethods
    /\ PollLimit \in Nat \ {0}
    /\ MaxCode \in Nat
    /\ MaxSettled \in Nat
    /\ MaxCrash \in Nat
    /\ Handlers \subseteq AllHandlers

-----------------------------------------------------------------------------
(* The rows and the jobs.                                                  *)

RequestStatus ==
    {"none",        \* no such row yet
     "pending", "under_review", "approved", "holding_deposit_open",
     "holding_deposit_paid", "holding_deposit_locked",
     "holding_deposit_expired", "holding_deposit_refunded", "rejected",
     "cancelled", "expired", "contract_created"}

PaymentStatus ==
    {"none", "pending", "paid", "overdue", "partial", "cancelled", "refunded"}

\* Statuses that hold the property, and those that keep new tenants out.
Winning == {"holding_deposit_paid", "contract_created"}
PropertyTaken == Winning \cup {"holding_deposit_locked"}
\* Statuses of a request its tenant still waits on.
Waiting == {"pending", "under_review", "approved", "holding_deposit_open",
            "holding_deposit_paid"}
\* Payments confirmPayment accepts.
Payable == {"pending", "overdue", "partial"}

Codes == 0 .. MaxCode
\* A gateway order carries the payment's code at the time it was created.
Order == [pay: Payment, via: Gateway, code: Codes]

ASSUME OrderAssumption == NoOrder \notin Order

VARIABLES
    status,      \* rental_requests.status
    lapsed,      \* holding_deposit_expires_at is in the past
    depositOf,   \* rental_requests.holding_deposit_payment_id
    contracted,  \* requests whose contract_id is set
    payReq,      \* payments.rental_request_id
    payStatus,   \* payments.status
    payMethod,   \* payments.payment_method
    payCode,     \* payments.payment_code (its generation)
    polls,       \* payments.polling_count
    transOf,     \* payments.transaction_id: the order it is the receipt of
    settled,     \* times settleIncomeForOwner credited the owner for it
    refundLogs,  \* refund rows of wallet_transactions, each a debit of the owner
    debited,     \* payments the tenant's wallet was debited for
    orders, captured, returned,  \* at the gateways: created, paid, given back
    job,         \* what runs in each slot
    crashes

requestVars == <<status, lapsed, depositOf, contracted>>
paymentVars == <<payReq, payStatus, payMethod, payCode, polls, transOf>>
moneyVars   == <<settled, refundLogs, debited>>
gatewayVars == <<orders, captured, returned>>
vars == <<requestVars, paymentVars, moneyVars, gatewayVars, job, crashes>>

Pc == {"idle", "create", "takeUp", "reject", "open", "cancel", "payExpired",
       "payLookup", "payCreate", "payRecord", "confirmRead", "confirmWrite",
       "walletRead", "walletCommit", "webhookCommit", "vnpayCommit",
       "finalize", "sawHeld", "sawClosed", "sawOpen",
       "refund", "refundMark", "refundLogRead", "refundLogWrite",
       "poll", "lastPoll", "giveUp", "query", "sweep", "expire", "contract"}

Job == [pc: Pc,
        req: Request \cup {NoRequest},
        batch: SUBSET Request,              \* requestIds of an updateMany
        pay: Payment \cup {NoPayment},
        order: Order \cup {NoOrder},
        method: AllMethods \cup {"none"},
        then: {"idle", "sweep"}]            \* where the job goes when it ends

RequestJob(l, r, m) ==
    [pc |-> l, req |-> r, batch |-> {}, pay |-> NoPayment, order |-> NoOrder,
     method |-> m, then |-> "idle"]
BatchJob(l, R) ==
    [pc |-> l, req |-> NoRequest, batch |-> R, pay |-> NoPayment, order |-> NoOrder,
     method |-> "none", then |-> "idle"]
DepositJob(l, r, p, o, m, t) ==
    [pc |-> l, req |-> r, batch |-> {}, pay |-> p, order |-> o, method |-> m, then |-> t]

IdleJob == RequestJob("idle", NoRequest, "none")

Init ==
    /\ status = [r \in Request |-> "none"]
    /\ lapsed = [r \in Request |-> FALSE]
    /\ depositOf = [r \in Request |-> NoPayment]
    /\ contracted = {}
    /\ payReq = [p \in Payment |-> NoRequest]
    /\ payStatus = [p \in Payment |-> "none"]
    /\ payMethod = [p \in Payment |-> "none"]
    /\ payCode = [p \in Payment |-> 0]
    /\ polls = [p \in Payment |-> 0]
    /\ transOf = [p \in Payment |-> NoOrder]
    /\ settled = [p \in Payment |-> 0]
    /\ refundLogs = [p \in Payment |-> 0]
    /\ debited = {}
    /\ orders = {} /\ captured = {} /\ returned = {}
    /\ job = [a \in Slot |-> IdleJob]
    /\ crashes = 0

-----------------------------------------------------------------------------
(* Steps of a job.                                                         *)

Begin(a, j) == job[a].pc = "idle" /\ job' = [job EXCEPT ![a] = j]
At(a, l) == job[a].pc = l
Goto(a, l) == job' = [job EXCEPT ![a] = [job[a] EXCEPT !.pc = l]]
\* The payment is settled or finalised: the job needs only its two rows now.
Carry(a, l) ==
    job' = [job EXCEPT ![a] = DepositJob(l, job[a].req, job[a].pay, NoOrder, "none", job[a].then)]
Finish(a) == job' = [job EXCEPT ![a] = RequestJob(job[a].then, NoRequest, "none")]

SetStatus(R, s) ==
    status' = [r \in Request |-> IF r \in R THEN s ELSE status[r]]
SetPayStatus(p, s) == payStatus' = [payStatus EXCEPT ![p] = s]

Rivals(r) == {q \in Request \ {r} : propertyOf[q] = propertyOf[r]}

-----------------------------------------------------------------------------
(* Rental requests: create, review, open the deposit window, cancel.  Each *)
(* reads, decides, and writes without looking again.                       *)

CreateRequestCheck(a, r) ==
    /\ status[r] = "none"
    /\ \A b \in Slot : ~(At(b, "create") /\ job[b].req = r)
    /\ \A q \in Rivals(r) : /\ tenantOf[q] = tenantOf[r] => status[q] \notin Waiting
                            /\ status[q] \notin PropertyTaken
    /\ Begin(a, RequestJob("create", r, "none"))
    /\ UNCHANGED <<requestVars, paymentVars, moneyVars, gatewayVars, crashes>>

CreateRequestInsert(a) ==
    /\ At(a, "create")
    /\ SetStatus({job[a].req}, "pending")
    /\ Finish(a)
    /\ UNCHANGED <<lapsed, depositOf, contracted, paymentVars, moneyVars, gatewayVars, crashes>>

\* Taken up for review from pending, rejected from there or from under_review.
TakeUpCheck(a, r) ==
    /\ status[r] = "pending"
    /\ Begin(a, RequestJob("takeUp", r, "none"))
    /\ UNCHANGED <<requestVars, paymentVars, moneyVars, gatewayVars, crashes>>

RejectCheck(a, r) ==
    /\ status[r] \in {"pending", "under_review"}
    /\ Begin(a, RequestJob("reject", r, "none"))
    /\ UNCHANGED <<requestVars, paymentVars, moneyVars, gatewayVars, crashes>>

ReviewWrite(a) ==
    /\ \/ At(a, "takeUp") /\ SetStatus({job[a].req}, "under_review")
       \/ At(a, "reject") /\ SetStatus({job[a].req}, "rejected")
    /\ Finish(a)
    /\ UNCHANGED <<lapsed, depositOf, contracted, paymentVars, moneyVars, gatewayVars, crashes>>

OpenCheck(a, R) ==
    /\ R # {}
    /\ \A r \in R : status[r] \in {"pending", "under_review"}
    /\ \A r \in R : /\ R \subseteq Rivals(r) \cup {r}
                    /\ \A q \in Rivals(r) \ R : status[q] \notin PropertyTaken
    /\ Begin(a, BatchJob("open", R))
    /\ UNCHANGED <<requestVars, paymentVars, moneyVars, gatewayVars, crashes>>

OpenWrite(a) ==
    /\ At(a, "open")
    /\ SetStatus(job[a].batch, "holding_deposit_open")
    /\ lapsed' = [r \in Request |-> lapsed[r] /\ r \notin job[a].batch]
    /\ Finish(a)
    /\ UNCHANGED <<depositOf, contracted, paymentVars, moneyVars, gatewayVars, crashes>>

CancelCheck(a, r) ==
    /\ status[r] \in {"pending", "under_review", "holding_deposit_open"}
    /\ Begin(a, RequestJob("cancel", r, "none"))
    /\ UNCHANGED <<requestVars, paymentVars, moneyVars, gatewayVars, crashes>>

CancelWrite(a) ==
    /\ At(a, "cancel")
    /\ SetStatus({job[a].req}, "cancelled")
    /\ Finish(a)
    /\ UNCHANGED <<lapsed, depositOf, contracted, paymentVars, moneyVars, gatewayVars, crashes>>

-----------------------------------------------------------------------------
(* payHoldingDeposit, with createHoldingDepositPayment and confirmPayment. *)

PayCheck(a, r, m) ==
    /\ status[r] = "holding_deposit_open"
    /\ IF lapsed[r]
       THEN Begin(a, RequestJob("payExpired", r, "none"))
       ELSE /\ \A q \in Rivals(r) : status[q] \notin Winning
            /\ Begin(a, RequestJob("payLookup", r, m))
    /\ UNCHANGED <<requestVars, paymentVars, moneyVars, gatewayVars, crashes>>

PayExpired(a) ==
    /\ At(a, "payExpired")
    /\ SetStatus({job[a].req}, "holding_deposit_expired")
    /\ Finish(a)
    /\ UNCHANGED <<lapsed, depositOf, contracted, paymentVars, moneyVars, gatewayVars, crashes>>

\* A pending or paid deposit of the request is used again.
LiveDeposits(r) ==
    {p \in Payment : payReq[p] = r /\ payStatus[p] \in {"pending", "paid"}}

GoPay(a, p) ==
    job' = [job EXCEPT ![a] = DepositJob("payRecord", job[a].req, p, NoOrder,
                                         job[a].method, "idle")]

PayLookup(a) ==
    /\ At(a, "payLookup")
    /\ \/ \E p \in LiveDeposits(job[a].req) : GoPay(a, p)
       \/ LiveDeposits(job[a].req) = {} /\ Goto(a, "payCreate")
    /\ UNCHANGED <<requestVars, paymentVars, moneyVars, gatewayVars, crashes>>

PayCreate(a) ==
    /\ At(a, "payCreate")
    /\ \E p \in Payment :
         /\ payReq[p] = NoRequest
         /\ payReq' = [payReq EXCEPT ![p] = job[a].req]
         /\ SetPayStatus(p, "pending")
         /\ GoPay(a, p)
    /\ UNCHANGED <<payMethod, payCode, polls, transOf, requestVars, moneyVars, gatewayVars, crashes>>

\* The amount is not positive: createHoldingDepositPayment throws.
PayRefused(a) ==
    /\ At(a, "payCreate")
    /\ Finish(a)
    /\ UNCHANGED <<requestVars, paymentVars, moneyVars, gatewayVars, crashes>>

PayRecord(a) ==
    /\ At(a, "payRecord")
    /\ depositOf' = [depositOf EXCEPT ![job[a].req] = job[a].pay]
    /\ Goto(a, "confirmRead")
    /\ UNCHANGED <<status, lapsed, contracted, paymentVars, moneyVars, gatewayVars, crashes>>

ConfirmRead(a) ==
    /\ At(a, "confirmRead")
    /\ IF payStatus[job[a].pay] \in Payable THEN Goto(a, "confirmWrite") ELSE Finish(a)
    /\ UNCHANGED <<requestVars, paymentVars, moneyVars, gatewayVars, crashes>>

\* PUT payments/:id/confirm reaches confirmPayment without payHoldingDeposit,
\* so without its tests of the request.
ConfirmStart(a, p, m) ==
    /\ payReq[p] # NoRequest
    /\ payStatus[p] \in Payable
    /\ Begin(a, DepositJob("confirmWrite", payReq[p], p, NoOrder, m, "idle"))
    /\ UNCHANGED <<requestVars, paymentVars, moneyVars, gatewayVars, crashes>>

\* The method and a new code are written before the method is looked at.
ConfirmWrite(a) ==
    LET p == job[a].pay
        m == job[a].method
    IN  /\ At(a, "confirmWrite")
        /\ payCode[p] < MaxCode
        /\ payMethod' = [payMethod EXCEPT ![p] = m]
        /\ payCode' = [payCode EXCEPT ![p] = @ + 1]
        /\ orders' = IF m \in Gateway
                     THEN orders \cup {[pay |-> p, via |-> m, code |-> payCode[p] + 1]}
                     ELSE orders
        /\ IF m = "other" THEN Goto(a, "walletRead") ELSE Finish(a)
        /\ UNCHANGED <<payReq, payStatus, polls, transOf, captured, returned,
                       requestVars, moneyVars, crashes>>

\* Bound: the payment has used up its codes.
ConfirmBound(a) ==
    /\ At(a, "confirmWrite")
    /\ payCode[job[a].pay] >= MaxCode
    /\ Finish(a)
    /\ UNCHANGED <<requestVars, paymentVars, moneyVars, gatewayVars, crashes>>

\* The wallet transaction reads the payment again, without locking it.
WalletRead(a) ==
    /\ At(a, "walletRead")
    /\ payStatus[job[a].pay] \in Payable
    /\ Goto(a, "walletCommit")
    /\ UNCHANGED <<requestVars, paymentVars, moneyVars, gatewayVars, crashes>>

\* The payment is no longer payable, or the tenant's balance is too small.
WalletRefused(a) ==
    /\ At(a, "walletRead")
    /\ Finish(a)
    /\ UNCHANGED <<requestVars, paymentVars, moneyVars, gatewayVars, crashes>>

WalletCommit(a) ==
    LET p == job[a].pay
    IN  /\ At(a, "walletCommit")
        /\ debited' = debited \cup {p}
        /\ SetPayStatus(p, "paid")
        /\ payMethod' = [payMethod EXCEPT ![p] = "other"]
        /\ settled' = [settled EXCEPT ![p] = @ + 1]
        /\ Carry(a, "finalize")
        /\ UNCHANGED <<payReq, payCode, polls, transOf, refundLogs,
                       requestVars, gatewayVars, crashes>>

-----------------------------------------------------------------------------
(* Gateway notifications.  MoMo's names the payment, VNPay's the code.     *)

\* Mutant: a payment that is not pending is settled again.
WebhookReadBlind(o, then) ==
    DepositJob("webhookCommit", payReq[o.pay], o.pay, o, payMethod[o.pay], then)

\* The transaction of handlePaymentWebhook reads the payment; one that is not
\* pending is returned as it is, and a deposit is finalised all the same.
WebhookRead(o, then) ==
    IF payStatus[o.pay] = "pending"
    THEN DepositJob("webhookCommit", payReq[o.pay], o.pay, o, payMethod[o.pay], then)
    ELSE DepositJob("finalize", payReq[o.pay], o.pay, NoOrder, "none", then)

MomoIpn(a, o) ==
    /\ o \in captured /\ o.via = "momo"
    /\ Begin(a, WebhookRead(o, "idle"))
    /\ UNCHANGED <<requestVars, paymentVars, moneyVars, gatewayVars, crashes>>

\* What both notifications write: the payment is paid by this order.
Receipt(a) ==
    LET p == job[a].pay
    IN  /\ SetPayStatus(p, "paid")
        /\ payMethod' = [payMethod EXCEPT ![p] = job[a].method]
        /\ payCode' = [payCode EXCEPT ![p] = job[a].order.code]
        /\ transOf' = [transOf EXCEPT ![p] = job[a].order]
        /\ settled' = [settled EXCEPT ![p] = @ + 1]
        /\ UNCHANGED <<payReq, polls, debited, refundLogs, requestVars, gatewayVars, crashes>>

WebhookCommit(a) ==
    /\ At(a, "webhookCommit")
    /\ Receipt(a)
    /\ Carry(a, "finalize")

\* handleVnpayTopupWebhook finds the payment by its present code, never looks
\* at its status, and does not finalise.
VnpayIpn(a, o) ==
    /\ o \in captured /\ o.via = "vnpay"
    /\ payCode[o.pay] = o.code
    /\ settled[o.pay] < MaxSettled
    /\ Begin(a, DepositJob("vnpayCommit", payReq[o.pay], o.pay, o, payMethod[o.pay], "idle"))
    /\ UNCHANGED <<requestVars, paymentVars, moneyVars, gatewayVars, crashes>>

VnpayCommit(a) ==
    /\ At(a, "vnpayCommit")
    /\ Receipt(a)
    /\ Finish(a)

-----------------------------------------------------------------------------
(* finalizeHoldingDepositAfterPayment.  The request is read before the     *)
(* rows of the property are locked; from the lock to the commit no other   *)
(* writer of these rows can move, so that part is one step.                *)

Finalize(a) ==
    LET r == job[a].req
    IN  /\ At(a, "finalize")
        /\ Goto(a, IF status[r] \in Winning THEN "sawHeld"
                   ELSE IF status[r] = "holding_deposit_open" /\ ~lapsed[r] THEN "sawOpen"
                   ELSE "sawClosed")
        /\ UNCHANGED <<requestVars, paymentVars, moneyVars, gatewayVars, crashes>>

\* Mutant: the tests look for a status no request takes.
HasNoWinner(r) == \E q \in Rivals(r) : status[q] = "approved"

HasWinner(r) == \E q \in Rivals(r) : status[q] \in Winning

\* Mutant: already_paid is refunded like the other results.
AlreadyPaidRefund(a) ==
    /\ At(a, "sawHeld")
    /\ Goto(a, "refund")
    /\ UNCHANGED <<requestVars, paymentVars, moneyVars, gatewayVars, crashes>>

AlreadyPaid(a) ==
    /\ At(a, "sawHeld")
    /\ Finish(a)
    /\ UNCHANGED <<requestVars, paymentVars, moneyVars, gatewayVars, crashes>>

\* Not open, too late, or another tenant has won: the request is marked as
\* refunded whatever its status is by now.
MarkRefunded(a) ==
    LET r == job[a].req
    IN  /\ At(a, "sawClosed") \/ (At(a, "sawOpen") /\ HasWinner(r))
        /\ SetStatus({r}, "holding_deposit_refunded")
        /\ depositOf' = [depositOf EXCEPT ![r] = job[a].pay]
        /\ Goto(a, "refund")
        /\ UNCHANGED <<lapsed, contracted, paymentVars, moneyVars, gatewayVars, crashes>>

MayPromote(a) == At(a, "sawOpen") /\ ~HasWinner(job[a].req)

\* The conditional update finds the request no longer open.
LostRace(a) ==
    /\ MayPromote(a)
    /\ status[job[a].req] # "holding_deposit_open"
    /\ Goto(a, "refund")
    /\ UNCHANGED <<requestVars, paymentVars, moneyVars, gatewayVars, crashes>>

\* Mutant: the rivals' windows stay open.
PromoteAlone(a) ==
    LET r == job[a].req
    IN  /\ MayPromote(a)
        /\ status[r] = "holding_deposit_open"
        /\ SetStatus({r}, "holding_deposit_paid")
        /\ depositOf' = [depositOf EXCEPT ![r] = job[a].pay]
        /\ Finish(a)
        /\ UNCHANGED <<lapsed, contracted, paymentVars, moneyVars, gatewayVars, crashes>>

Promote(a) ==
    LET r == job[a].req
    IN  /\ MayPromote(a)
        /\ status[r] = "holding_deposit_open"
        /\ status' = [q \in Request |->
                        IF q = r THEN "holding_deposit_paid"
                        ELSE IF q \in Rivals(r) /\ status[q] = "holding_deposit_open"
                        THEN "holding_deposit_locked" ELSE status[q]]
        /\ depositOf' = [depositOf EXCEPT ![r] = job[a].pay]
        /\ Finish(a)
        /\ UNCHANGED <<lapsed, contracted, paymentVars, moneyVars, gatewayVars, crashes>>

\* The order the refund call names: MoMo's by the stored transaction id,
\* VNPay's by the payment's present code.
RefundTarget(p) ==
    {o \in captured \ returned :
        \/ payMethod[p] = "momo" /\ transOf[p] = o
        \/ payMethod[p] = "vnpay" /\ o = [pay |-> p, via |-> "vnpay", code |-> payCode[p]]}

\* The gateway gives the money back; its answer may be lost.
RefundAccepted(a) ==
    /\ At(a, "refund")
    /\ \E o \in RefundTarget(job[a].pay) :
         /\ o.via = payMethod[job[a].pay]
         /\ returned' = returned \cup {o}
    /\ Goto(a, "refundMark") \/ Finish(a)
    /\ UNCHANGED <<orders, captured, requestVars, paymentVars, moneyVars, crashes>>

\* Mutant: a refusal counts as a refund.
RefundRefusedMarks(a) ==
    /\ At(a, "refund")
    /\ Goto(a, "refundMark")
    /\ UNCHANGED <<requestVars, paymentVars, moneyVars, gatewayVars, crashes>>

\* The gateway refuses or cannot be reached, or the method has no gateway.
RefundRefused(a) ==
    /\ At(a, "refund")
    /\ Finish(a)
    /\ UNCHANGED <<requestVars, paymentVars, moneyVars, gatewayVars, crashes>>

\* A VNPay answer without a response code counts as a refund.
RefundBlankAnswer(a) ==
    /\ At(a, "refund")
    /\ payMethod[job[a].pay] = "vnpay"
    /\ Goto(a, "refundMark")
    /\ UNCHANGED <<requestVars, paymentVars, moneyVars, gatewayVars, crashes>>

RefundMark(a) ==
    /\ At(a, "refundMark")
    /\ SetPayStatus(job[a].pay, "refunded")
    /\ Goto(a, "refundLogRead")
    /\ UNCHANGED <<payReq, payMethod, payCode, polls, transOf,
                   requestVars, moneyVars, gatewayVars, crashes>>

RefundLogRead(a) ==
    /\ At(a, "refundLogRead")
    /\ IF refundLogs[job[a].pay] > 0 THEN Finish(a) ELSE Goto(a, "refundLogWrite")
    /\ UNCHANGED <<requestVars, paymentVars, moneyVars, gatewayVars, crashes>>

RefundLogWrite(a) ==
    /\ At(a, "refundLogWrite")
    /\ refundLogs' = [refundLogs EXCEPT ![job[a].pay] = @ + 1]
    /\ Finish(a)
    /\ UNCHANGED <<settled, debited, requestVars, paymentVars, gatewayVars, crashes>>

-----------------------------------------------------------------------------
(* reconcilePendingPayments, one payment of its list at a time, and the    *)
(* sweep that ends each run of it.                                         *)

\* The job keeps the list's polling_count only as whether this poll is the last.
ReconcileFind(a, p) ==
    LET o == [pay |-> p, via |-> payMethod[p], code |-> payCode[p]]
        l == IF polls[p] + 1 >= PollLimit THEN "lastPoll" ELSE "poll"
    IN  /\ payStatus[p] = "pending" /\ payMethod[p] \in Gateway
        /\ Begin(a, DepositJob(l, payReq[p], p, o, "none", "sweep"))
        /\ UNCHANGED <<requestVars, paymentVars, moneyVars, gatewayVars, crashes>>

\* Mutant: the attempts are not counted.
ReconcilePollUncounted(a) ==
    /\ \/ At(a, "poll") /\ Goto(a, "query")
       \/ At(a, "lastPoll") /\ Goto(a, "giveUp")
    /\ UNCHANGED <<requestVars, paymentVars, moneyVars, gatewayVars, crashes>>

\* polling_count saturates at PollLimit: only whether it has reached it matters.
ReconcilePoll(a) ==
    LET p == job[a].pay
    IN  /\ \/ At(a, "poll") /\ Goto(a, "query")
           \/ At(a, "lastPoll") /\ Goto(a, "giveUp")
        /\ polls' = [polls EXCEPT ![p] = IF @ < PollLimit THEN @ + 1 ELSE @]
        /\ UNCHANGED <<payReq, payStatus, payMethod, payCode, transOf,
                       requestVars, moneyVars, gatewayVars, crashes>>

ReconcileGiveUp(a) ==
    /\ At(a, "giveUp")
    /\ SetPayStatus(job[a].pay, "overdue")
    /\ Finish(a)
    /\ UNCHANGED <<payReq, payMethod, payCode, polls, transOf,
                   requestVars, moneyVars, gatewayVars, crashes>>

\* Mutant: any answer of the gateway counts as paid.
ReconcileFoundAny(a) ==
    /\ At(a, "query")
    /\ job' = [job EXCEPT ![a] = WebhookRead(job[a].order, "sweep")]
    /\ UNCHANGED <<requestVars, paymentVars, moneyVars, gatewayVars, crashes>>

\* The gateway says the order is paid: the webhook handler runs in this job.
ReconcileFound(a) ==
    /\ At(a, "query")
    /\ job[a].order \in captured
    /\ job' = [job EXCEPT ![a] = WebhookRead(job[a].order, "sweep")]
    /\ UNCHANGED <<requestVars, paymentVars, moneyVars, gatewayVars, crashes>>

\* Not paid, or no answer.
ReconcileNotFound(a) ==
    /\ At(a, "query")
    /\ Finish(a)
    /\ UNCHANGED <<requestVars, paymentVars, moneyVars, gatewayVars, crashes>>

ReconcileSweep(a) ==
    /\ At(a, "sweep")
    /\ payStatus' = [p \in Payment |-> IF payStatus[p] = "pending" /\ polls[p] >= PollLimit
                                       THEN "overdue" ELSE payStatus[p]]
    /\ job' = [job EXCEPT ![a] = IdleJob]
    /\ UNCHANGED <<payReq, payMethod, payCode, polls, transOf,
                   requestVars, moneyVars, gatewayVars, crashes>>

-----------------------------------------------------------------------------
(* The cron of the deposit windows, the contract, and its end.             *)

\* Mutant: a request with a deposit on its way is left out.
ExpireFindUnpaid(a) ==
    LET R == {r \in Request : /\ status[r] = "holding_deposit_open" /\ lapsed[r]
                              /\ depositOf[r] = NoPayment}
    IN  /\ R # {}
        /\ Begin(a, BatchJob("expire", R))
        /\ UNCHANGED <<requestVars, paymentVars, moneyVars, gatewayVars, crashes>>

ExpireFind(a) ==
    LET R == {r \in Request : status[r] = "holding_deposit_open" /\ lapsed[r]}
    IN  /\ R # {}
        /\ Begin(a, BatchJob("expire", R))
        /\ UNCHANGED <<requestVars, paymentVars, moneyVars, gatewayVars, crashes>>

ExpireWrite(a) ==
    /\ At(a, "expire")
    /\ SetStatus(job[a].batch, "holding_deposit_expired")
    /\ Finish(a)
    /\ UNCHANGED <<lapsed, depositOf, contracted, paymentVars, moneyVars, gatewayVars, crashes>>

\* Mutant: a contract is made while the window is still open.
ContractCheckOpen(a, r) ==
    /\ status[r] \in {"holding_deposit_open", "holding_deposit_paid"}
    /\ Begin(a, RequestJob("contract", r, "none"))
    /\ UNCHANGED <<requestVars, paymentVars, moneyVars, gatewayVars, crashes>>

ContractCheck(a, r) ==
    /\ status[r] = "holding_deposit_paid"
    /\ Begin(a, RequestJob("contract", r, "none"))
    /\ UNCHANGED <<requestVars, paymentVars, moneyVars, gatewayVars, crashes>>

ContractWrite(a) ==
    /\ At(a, "contract")
    /\ SetStatus({job[a].req}, "contract_created")
    /\ contracted' = contracted \cup {job[a].req}
    /\ Finish(a)
    /\ UNCHANGED <<lapsed, depositOf, paymentVars, moneyVars, gatewayVars, crashes>>

\* Any of the four ways a contract ends (TerminationService).
ContractEnds(r) ==
    /\ r \in contracted
    /\ SetStatus({r}, "expired")
    /\ UNCHANGED <<lapsed, depositOf, contracted, paymentVars, moneyVars,
                   gatewayVars, job, crashes>>

-----------------------------------------------------------------------------
(* The world outside.                                                      *)

WindowLapses(r) ==
    /\ status[r] = "holding_deposit_open" /\ ~lapsed[r]
    /\ lapsed' = [lapsed EXCEPT ![r] = TRUE]
    /\ UNCHANGED <<status, depositOf, contracted, paymentVars, moneyVars,
                   gatewayVars, job, crashes>>

TenantPays(o) ==
    /\ o \in orders \ captured
    /\ captured' = captured \cup {o}
    /\ UNCHANGED <<orders, returned, requestVars, paymentVars, moneyVars, job, crashes>>

Crash ==
    /\ crashes < MaxCrash
    /\ crashes' = crashes + 1
    /\ job' = [a \in Slot |-> IdleJob]
    /\ UNCHANGED <<requestVars, paymentVars, moneyVars, gatewayVars>>

-----------------------------------------------------------------------------

\* A new job.
Arrive(a) ==
    \/ \E r \in Request :
         \/ "create" \in Handlers /\ CreateRequestCheck(a, r)
         \/ "review" \in Handlers /\ (TakeUpCheck(a, r) \/ RejectCheck(a, r))
         \/ "cancel" \in Handlers /\ CancelCheck(a, r)
         \/ "pay" \in Handlers /\ \E m \in Method : PayCheck(a, r, m)
         \/ "contract" \in Handlers /\ ContractCheck(a, r)
    \/ "open" \in Handlers /\ \E R \in SUBSET Request : OpenCheck(a, R)
    \/ "confirm" \in Handlers /\ \E p \in Payment : \E m \in Method : ConfirmStart(a, p, m)
    \/ "ipn" \in Handlers /\ \E o \in captured : MomoIpn(a, o) \/ VnpayIpn(a, o)
    \/ "reconcile" \in Handlers /\ \E p \in Payment : ReconcileFind(a, p)
    \/ "expire" \in Handlers /\ ExpireFind(a)

\* A job goes on.
Continue(a) ==
    \/ CreateRequestInsert(a) \/ ReviewWrite(a) \/ OpenWrite(a) \/ CancelWrite(a)
    \/ PayExpired(a) \/ PayLookup(a) \/ PayCreate(a) \/ PayRefused(a) \/ PayRecord(a)
    \/ ConfirmRead(a) \/ ConfirmWrite(a) \/ ConfirmBound(a)
    \/ WalletRead(a) \/ WalletRefused(a) \/ WalletCommit(a)
    \/ WebhookCommit(a) \/ VnpayCommit(a)
    \/ Finalize(a) \/ AlreadyPaid(a) \/ MarkRefunded(a) \/ LostRace(a) \/ Promote(a)
    \/ RefundAccepted(a) \/ RefundRefused(a) \/ RefundBlankAnswer(a)
    \/ RefundMark(a) \/ RefundLogRead(a) \/ RefundLogWrite(a)
    \/ ReconcilePoll(a) \/ ReconcileGiveUp(a) \/ ReconcileFound(a) \/ ReconcileNotFound(a)
    \/ ReconcileSweep(a)
    \/ ExpireWrite(a) \/ ContractWrite(a)

Next ==
    \/ \E a \in Slot : Arrive(a) \/ Continue(a)
    \/ \E r \in Request : \/ "terminate" \in Handlers /\ ContractEnds(r)
                          \/ WindowLapses(r)
    \/ \E o \in orders : TenantPays(o)
    \/ Crash

Spec == Init /\ [][Next]_vars

\* A job that runs goes on; a window that is open comes to its end; the
\* scheduler keeps firing its two jobs.  These are strong because a free slot
\* is a bound of this model: the process itself turns no job away.
Fairness ==
    /\ \A a \in Slot : WF_vars(Continue(a))
    /\ \A r \in Request : WF_vars(WindowLapses(r))
    /\ SF_vars(\E a \in Slot : ExpireFind(a))
    /\ \A p \in Payment : SF_vars(\E a \in Slot : ReconcileFind(a, p))

FairSpec == Spec /\ Fairness

-----------------------------------------------------------------------------
(* Properties.                                                             *)

RowsTyped ==
    /\ status \in [Request -> RequestStatus]
    /\ lapsed \in [Request -> BOOLEAN]
    /\ depositOf \in [Request -> Payment \cup {NoPayment}]
    /\ contracted \subseteq Request
    /\ payReq \in [Payment -> Request \cup {NoRequest}]
    /\ payStatus \in [Payment -> PaymentStatus]
    /\ payMethod \in [Payment -> AllMethods \cup {"none"}]
    /\ payCode \in [Payment -> Codes]
    /\ polls \in [Payment -> 0 .. PollLimit]
    /\ transOf \in [Payment -> Order \cup {NoOrder}]
    /\ settled \in [Payment -> Nat]
    /\ refundLogs \in [Payment -> Nat]
    /\ debited \subseteq Payment
    /\ orders \subseteq Order /\ captured \subseteq orders /\ returned \subseteq captured
    /\ crashes \in 0 .. MaxCrash

\* Every row and every job has the shape its handler gave it.
TypeOK == RowsTyped /\ job \in [Slot -> Job]

\* The tenant's money for a payment has been taken, by a gateway or from the wallet.
MoneyTaken(p) == p \in debited \/ \E o \in captured : o.pay = p
DepositsOf(r) == {p \in Payment : payReq[p] = r}

\* The owner's wallet is credited for a deposit (settleIncomeForOwner) only
\* when the tenant's money for it has been taken.
MoneyBehindCredit == \A p \in Payment : settled[p] > 0 => MoneyTaken(p)

DepositTaken(r) == \E p \in DepositsOf(r) : MoneyTaken(p)

\* A request that holds the property, even one a contract was created from,
\* has a deposit whose money was taken: no handler promotes a request, and no
\* contract is made, for a tenant who has paid nothing.
HolderHasPaid ==
    \A r \in Request : status[r] \in Winning => DepositTaken(r)

\* The row locks of finalizeHoldingDepositAfterPayment do their work: whatever
\* the other handlers overwrite, two requests for one property are never both
\* holding_deposit_paid.
AtMostOnePaid ==
    \A r \in Request : \A q \in Rivals(r) :
        ~(status[r] = "holding_deposit_paid" /\ status[q] = "holding_deposit_paid")

\* A request becomes holding_deposit_paid only from an open window, only when
\* no rival holds the property, and leaves no rival's window open.
PromotionIsExclusive ==
    [][\A r \in Request :
         status[r] # "holding_deposit_paid" /\ status'[r] = "holding_deposit_paid"
         => /\ status[r] = "holding_deposit_open"
            /\ \A q \in Rivals(r) : /\ status[q] \notin Winning
                                    /\ status'[q] # "holding_deposit_open"]_vars

\* The deposits implement the abstract competition: read by their status, the
\* requests only open, win against nobody, are leased and leave.
Contest == INSTANCE Award WITH
    window <- {r \in Request : status[r] = "holding_deposit_open"},
    winner <- {r \in Request : status[r] = "holding_deposit_paid"},
    leased <- {r \in Request : status[r] = "contract_created"}

DepositsAward == Contest!Spec

\* A deposit that was never taken to VNPay, whose blank answer passes for a
\* refund, is recorded as refunded, and its owner's wallet is debited for the
\* refund, only when MoMo has given the money back.
RefundBacked ==
    \A p \in Payment : (payStatus[p] = "refunded" \/ refundLogs[p] > 0)
                       => \/ \E o \in returned : o.pay = p
                          \/ \E o \in orders : o.pay = p /\ o.via = "vnpay"

\* One property has one holder, the contracts made included.
AtMostOneHolder ==
    \A r \in Request : \A q \in Rivals(r) : ~(status[r] \in Winning /\ status[q] \in Winning)

\* The owner is credited once for a deposit, however often its payment is
\* notified, reconciled or confirmed.
CreditedOnce == \A p \in Payment : settled[p] <= 1

\* The deposit a holder holds the property by has not been given back.
HolderKeepsDeposit ==
    \A r \in Request :
        status[r] \in Winning /\ depositOf[r] # NoPayment => payStatus[depositOf[r]] # "refunded"

\* A deposit window that was opened is closed again: paid, locked, expired or
\* cancelled, by the tenants, the gateways or the cron.
OpenWindowCloses ==
    \A r \in Request : (status[r] = "holding_deposit_open") ~> (status[r] # "holding_deposit_open")

\* A payment started at a gateway does not stay pending: the reconciliation
\* finds it paid or gives it up.
GatewayPaymentEnds ==
    \A p \in Payment : (payStatus[p] = "pending" /\ payMethod[p] \in Gateway)
                       ~> ~(payStatus[p] = "pending" /\ payMethod[p] \in Gateway)

\* A tenant marked as refunded who paid from the wallet gets the money back.
WalletLoserIsRefunded ==
    \A r \in Request : \A p \in Payment :
        (p \in debited /\ payReq[p] = r /\ status[r] = "holding_deposit_refunded")
        ~> (payStatus[p] = "refunded")

-----------------------------------------------------------------------------
(* The inductive invariant: what a job knows of the rows it works on,      *)
(* however stale the rest of what it read has become.                      *)

\* Where a job works on a request, on a deposit of it, with a gateway's order,
\* with an order that was paid, and after the money was taken.
OnRequest == {"create", "takeUp", "reject", "cancel", "payExpired", "payLookup",
              "payCreate", "contract"}
WithReceipt == {"webhookCommit", "vnpayCommit"}
WithOrder == WithReceipt \cup {"poll", "lastPoll", "giveUp", "query"}
AfterMoney == {"finalize", "sawHeld", "sawClosed", "sawOpen"}
OnDeposit == {"payRecord", "confirmRead", "confirmWrite", "walletRead", "walletCommit",
              "refund", "refundMark", "refundLogRead", "refundLogWrite"}
             \cup WithOrder \cup AfterMoney

JobKnows(j) ==
    /\ j.pc \in OnRequest \cup OnDeposit => j.req \in Request
    /\ j.pc \in OnDeposit => j.pay \in Payment /\ payReq[j.pay] = j.req
    /\ j.pc \in WithOrder => j.order \in Order /\ j.order.pay = j.pay
    /\ j.pc \in WithReceipt => j.order \in captured
    /\ j.pc \in AfterMoney => MoneyTaken(j.pay)
    /\ j.pc = "contract" => DepositTaken(j.req)

\* A payment that can be paid belongs to a request.
DepositsHaveRequests ==
    /\ \A p \in Payment : payStatus[p] # "none" => payReq[p] \in Request
    /\ \A o \in orders : payReq[o.pay] \in Request

\* What the code's order of reads and writes keeps true at every step, and what
\* MoneyBehindCredit and HolderHasPaid rest on: a job settles or finalises a
\* payment, or makes a contract, only after the money for it was taken.
DepositInv ==
    /\ TypeOK
    /\ \A a \in Slot : JobKnows(job[a])
    /\ DepositsHaveRequests
    /\ MoneyBehindCredit
    /\ HolderHasPaid
    /\ AtMostOnePaid
=============================================================================
