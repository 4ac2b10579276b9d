------------------------ MODULE HoldingDepositProofs ------------------------
(***************************************************************************)
(* DepositInv is an invariant of HoldingDeposit for every set of requests, *)
(* payments, slots and methods, and with it TypeOK, MoneyBehindCredit,     *)
(* HolderHasPaid and AtMostOnePaid; HoldingDeposit implements Award.       *)
(* RefundInv adds what a job knows that records a refund.  With a single   *)
(* slot SerialInv and CreditInv add what a job read and still finds.       *)
(*                                                                         *)
(* Every action is one of two kinds: a new job begins, or a job takes its  *)
(* next step.  The lemmas say what such a step must show of the rows and   *)
(* of the one job it moves.                                                *)
(***************************************************************************)
EXTENDS HoldingDeposit, TLAPS

\* What no step takes back: the request of a payment, an order that was paid,
\* a debit of a tenant's wallet.
Grows ==
    /\ \A p \in Payment : payReq[p] # NoRequest => payReq'[p] = payReq[p]
    /\ captured \subseteq captured'
    /\ debited \subseteq debited'

\* Money that was taken for a deposit stays taken, and so does what a job knows
\* as long as the job itself stands still.
LEMMA MoneyStays ==
    ASSUME Grows, NEW p \in Payment, MoneyTaken(p)
    PROVE  MoneyTaken(p)'
BY DEF Grows, MoneyTaken

LEMMA DepositStays ==
    ASSUME Grows, NEW r \in Request, DepositTaken(r)
    PROVE  DepositTaken(r)'
<1>1. PICK p \in Payment : payReq[p] = r /\ MoneyTaken(p)
  BY DEF DepositTaken, DepositsOf
<1>2. payReq'[p] = r /\ MoneyTaken(p)'
  BY <1>1, MoneyStays, RequestAssumption DEF Grows
<1> QED
  BY <1>2 DEF DepositTaken, DepositsOf

LEMMA KnowledgeStays ==
    ASSUME Grows, NEW j \in Job, JobKnows(j)
    PROVE  JobKnows(j)'
<1>1. j.pc \in OnDeposit => payReq'[j.pay] = j.req
  BY RequestAssumption DEF JobKnows, Grows
<1>2. j.pc \in WithReceipt => j.order \in captured'
  BY DEF JobKnows, Grows
<1>3. j.pc \in AfterMoney => MoneyTaken(j.pay)'
  BY MoneyStays DEF JobKnows, OnDeposit
<1>4. j.pc = "contract" => DepositTaken(j.req)'
  BY DepositStays DEF JobKnows, OnRequest
<1> QED
  BY <1>1, <1>2, <1>3, <1>4 DEF JobKnows

\* What the three kinds of job are, and what the idle one knows: nothing.
LEMMA RequestJobOK ==
    ASSUME NEW l \in OnRequest, NEW r \in Request, NEW m \in AllMethods \cup {"none"},
           l = "contract" => DepositTaken(r)
    PROVE  RequestJob(l, r, m) \in Job /\ JobKnows(RequestJob(l, r, m))
BY DEF RequestJob, Job, Pc, JobKnows, OnRequest, OnDeposit, WithOrder, WithReceipt, AfterMoney

LEMMA BatchJobOK ==
    ASSUME NEW l \in {"open", "expire"}, NEW R \in SUBSET Request
    PROVE  BatchJob(l, R) \in Job /\ JobKnows(BatchJob(l, R))
BY DEF BatchJob, Job, Pc, JobKnows, OnRequest, OnDeposit, WithOrder, WithReceipt, AfterMoney

LEMMA DepositJobOK ==
    ASSUME NEW l \in OnDeposit, NEW r \in Request, NEW p \in Payment, payReq[p] = r,
           NEW o \in Order \cup {NoOrder}, NEW m \in AllMethods \cup {"none"},
           NEW t \in {"idle", "sweep"},
           l \in WithOrder => o \in Order /\ o.pay = p,
           l \in WithReceipt => o \in captured,
           l \in AfterMoney => MoneyTaken(p)
    PROVE  DepositJob(l, r, p, o, m, t) \in Job /\ JobKnows(DepositJob(l, r, p, o, m, t))
BY DEF DepositJob, Job, Pc, JobKnows, OnRequest, OnDeposit, WithOrder, WithReceipt, AfterMoney

LEMMA IdleJobOK ==
    ASSUME NEW l \in {"idle", "sweep"}
    PROVE  RequestJob(l, NoRequest, "none") \in Job /\ JobKnows(RequestJob(l, NoRequest, "none"))
BY DEF RequestJob, Job, Pc, JobKnows, OnRequest, OnDeposit, WithOrder, WithReceipt, AfterMoney

-----------------------------------------------------------------------------
(* One step, part by part of the invariant.                                *)

RowsStand == UNCHANGED <<requestVars, paymentVars, moneyVars, gatewayVars, crashes>>

\* No request comes to hold the property in this step.
NoNewHolder == \A r \in Request : status'[r] \in Winning => status'[r] = status[r]

\* No deposit is credited in this step without the tenant's money.
CreditsAreBacked ==
    \A p \in Payment : settled'[p] > 0 => settled[p] > 0 \/ MoneyTaken(p)'

LEMMA GrowsWhenStanding == RowsStand => Grows
BY DEF RowsStand, Grows, requestVars, paymentVars, moneyVars, gatewayVars

LEMMA HoldersStep ==
    ASSUME DepositInv, Grows, NoNewHolder
    PROVE  HolderHasPaid' /\ AtMostOnePaid'
<1>1. HolderHasPaid'
  BY DepositStays DEF DepositInv, NoNewHolder, HolderHasPaid
<1>2. AtMostOnePaid'
  BY DEF DepositInv, NoNewHolder, AtMostOnePaid, Winning, Rivals
<1> QED
  BY <1>1, <1>2

LEMMA CreditsStep ==
    ASSUME DepositInv, Grows, CreditsAreBacked
    PROVE  MoneyBehindCredit'
BY MoneyStays DEF DepositInv, CreditsAreBacked, MoneyBehindCredit

\* The job of one slot moves on and what it has to know is shown; the others
\* stand still.
LEMMA JobsStep ==
    ASSUME DepositInv, Grows, NEW a \in Slot, NEW j \in Job, JobKnows(j)',
           job' = [job EXCEPT ![a] = j]
    PROVE  job' \in [Slot -> Job] /\ \A b \in Slot : JobKnows(job[b])'
<1>1. job \in [Slot -> Job] /\ job' \in [Slot -> Job]
  BY DEF DepositInv, TypeOK
<1>2. ASSUME NEW b \in Slot PROVE JobKnows(job[b])'
  <2>1. CASE b = a
    <3>1. job'[b] = j
      BY <1>1, <2>1
    <3> QED
      BY <3>1 DEF JobKnows
  <2>2. CASE b # a
    <3>1. job'[b] = job[b] /\ job[b] \in Job /\ JobKnows(job[b])
      BY <1>1, <2>2 DEF DepositInv
    <3> QED
      BY <3>1, KnowledgeStays
  <2> QED
    BY <2>1, <2>2
<1> QED
  BY <1>1, <1>2

\* A step that moves one job and leaves every row alone.
LEMMA JobOnlyStep ==
    ASSUME DepositInv, RowsStand, NEW a \in Slot, NEW j \in Job, JobKnows(j),
           job' = [job EXCEPT ![a] = j]
    PROVE  DepositInv'
<1>1. Grows
  BY GrowsWhenStanding
<1>2. JobKnows(j)'
  BY <1>1, KnowledgeStays
<1>3. job' \in [Slot -> Job] /\ \A b \in Slot : JobKnows(job[b])'
  BY <1>1, <1>2, JobsStep
<1>4. RowsTyped' /\ DepositsHaveRequests'
  BY DEF DepositInv, TypeOK, RowsTyped, DepositsHaveRequests, RowsStand,
         requestVars, paymentVars, moneyVars, gatewayVars
<1>5. NoNewHolder /\ CreditsAreBacked
  BY DEF RowsStand, NoNewHolder, CreditsAreBacked, requestVars, moneyVars
<1> QED
  BY <1>1, <1>3, <1>4, <1>5, HoldersStep, CreditsStep DEF DepositInv, TypeOK

\* A step of a job that also writes rows.
LEMMA WritingStep ==
    ASSUME DepositInv, Grows, NoNewHolder, CreditsAreBacked,
           RowsTyped', DepositsHaveRequests',
           NEW a \in Slot, NEW j \in Job, JobKnows(j)', job' = [job EXCEPT ![a] = j]
    PROVE  DepositInv'
<1>1. job' \in [Slot -> Job] /\ \A b \in Slot : JobKnows(job[b])'
  BY JobsStep
<1> QED
  BY <1>1, HoldersStep, CreditsStep DEF DepositInv, TypeOK

-----------------------------------------------------------------------------
(* New jobs.                                                               *)

\* A job that begins with the knowledge its first label asks for.
LEMMA BeginStep ==
    ASSUME DepositInv, RowsStand, NEW a \in Slot, NEW j \in Job, JobKnows(j), Begin(a, j)
    PROVE  DepositInv'
BY JobOnlyStep DEF Begin

LEMMA WebhookReadOK ==
    ASSUME DepositInv, NEW o \in captured, NEW t \in {"idle", "sweep"}
    PROVE  WebhookRead(o, t) \in Job /\ JobKnows(WebhookRead(o, t))
<1>1. o \in Order /\ o.pay \in Payment /\ payReq[o.pay] \in Request /\ MoneyTaken(o.pay)
  BY DEF DepositInv, TypeOK, RowsTyped, DepositsHaveRequests, Order, MoneyTaken
<1>2. payMethod[o.pay] \in AllMethods \cup {"none"}
  BY <1>1 DEF DepositInv, TypeOK, RowsTyped
<1>3. "webhookCommit" \in OnDeposit /\ "finalize" \in OnDeposit
      /\ "webhookCommit" \notin AfterMoney /\ "finalize" \notin WithOrder \cup WithReceipt
  BY DEF OnDeposit, WithOrder, WithReceipt, AfterMoney
<1> QED
  BY <1>1, <1>2, <1>3, DepositJobOK DEF WebhookRead

LEMMA ArriveStep ==
    ASSUME DepositInv, NEW a \in Slot, Arrive(a)
    PROVE  DepositInv'
<1> USE PaymentAssumption DEF OnRequest, OnDeposit, WithOrder, WithReceipt, AfterMoney
<1>0. TypeOK /\ DepositsHaveRequests
  BY DEF DepositInv
<1>1. ASSUME NEW r \in Request, CreateRequestCheck(a, r) PROVE DepositInv'
  BY <1>1, RequestJobOK, BeginStep DEF CreateRequestCheck, RowsStand
<1>2. ASSUME NEW r \in Request, TakeUpCheck(a, r) \/ RejectCheck(a, r) PROVE DepositInv'
  BY <1>2, RequestJobOK, BeginStep DEF TakeUpCheck, RejectCheck, RowsStand
<1>3. ASSUME NEW r \in Request, CancelCheck(a, r) PROVE DepositInv'
  BY <1>3, RequestJobOK, BeginStep DEF CancelCheck, RowsStand
<1>4. ASSUME NEW r \in Request, NEW m \in Method, PayCheck(a, r, m) PROVE DepositInv'
  <2>1. RowsStand /\ (Begin(a, RequestJob("payExpired", r, "none"))
                      \/ Begin(a, RequestJob("payLookup", r, m)))
    BY <1>4 DEF PayCheck, RowsStand
  <2> QED
    BY <2>1, RequestJobOK, BeginStep
<1>5. ASSUME NEW r \in Request, ContractCheck(a, r) PROVE DepositInv'
  <2>1. DepositTaken(r)
    BY <1>5 DEF ContractCheck, DepositInv, HolderHasPaid, Winning
  <2> QED
    BY <1>5, <2>1, RequestJobOK, BeginStep DEF ContractCheck, RowsStand
<1>6. ASSUME NEW R \in SUBSET Request, OpenCheck(a, R) PROVE DepositInv'
  BY <1>6, BatchJobOK, BeginStep DEF OpenCheck, RowsStand
<1>7. ASSUME NEW p \in Payment, NEW m \in Method, ConfirmStart(a, p, m) PROVE DepositInv'
  <2>1. payReq[p] \in Request
    BY <1>0, <1>7 DEF TypeOK, RowsTyped, ConfirmStart
  <2> QED
    BY <1>7, <2>1, DepositJobOK, BeginStep DEF ConfirmStart, RowsStand
<1>8. ASSUME NEW o \in captured, MomoIpn(a, o) PROVE DepositInv'
  BY <1>8, WebhookReadOK, BeginStep DEF MomoIpn, RowsStand
<1>9. ASSUME NEW o \in captured, VnpayIpn(a, o) PROVE DepositInv'
  <2>1. o \in Order /\ o.pay \in Payment /\ payReq[o.pay] \in Request
    BY <1>0 DEF TypeOK, RowsTyped, DepositsHaveRequests, Order
  <2>2. payMethod[o.pay] \in AllMethods \cup {"none"}
    BY <1>0, <2>1 DEF TypeOK, RowsTyped
  <2> QED
    BY <1>9, <2>1, <2>2, DepositJobOK, BeginStep DEF VnpayIpn, RowsStand
<1>10. ASSUME NEW p \in Payment, ReconcileFind(a, p) PROVE DepositInv'
  <2> DEFINE o == [pay |-> p, via |-> payMethod[p], code |-> payCode[p]]
  <2>1. payReq[p] \in Request /\ o \in Order /\ o.pay = p
    BY <1>0, <1>10 DEF TypeOK, RowsTyped, DepositsHaveRequests, ReconcileFind, Order
  <2>2. PICK l \in {"poll", "lastPoll"} : Begin(a, DepositJob(l, payReq[p], p, o, "none", "sweep"))
    BY <1>10 DEF ReconcileFind
  <2>3. RowsStand
    BY <1>10 DEF ReconcileFind, RowsStand
  <2> HIDE DEF o
  <2> QED
    BY <2>1, <2>2, <2>3, DepositJobOK, BeginStep
<1>11. ASSUME ExpireFind(a) PROVE DepositInv'
  <2> DEFINE R == {r \in Request : status[r] = "holding_deposit_open" /\ lapsed[r]}
  <2>1. R \in SUBSET Request /\ Begin(a, BatchJob("expire", R)) /\ RowsStand
    BY <1>11 DEF ExpireFind, RowsStand
  <2> HIDE DEF R
  <2> QED
    BY <2>1, BatchJobOK, BeginStep
<1> QED
  BY <1>1, <1>2, <1>3, <1>4, <1>5, <1>6, <1>7, <1>8, <1>9, <1>10, <1>11 DEF Arrive

-----------------------------------------------------------------------------
(* A job that goes on.                                                     *)

\* What a running job knows, spelled out.
LEMMA RunningJob ==
    ASSUME DepositInv, NEW a \in Slot
    PROVE  /\ job[a] \in Job /\ JobKnows(job[a])
           /\ job[a].pc \in OnRequest \cup OnDeposit => job[a].req \in Request
           /\ job[a].pc \in OnDeposit => job[a].pay \in Payment /\ payReq[job[a].pay] = job[a].req
           /\ job[a].then \in {"idle", "sweep"}
           /\ job[a].method \in AllMethods \cup {"none"}
           /\ job[a].batch \subseteq Request
BY DEF DepositInv, TypeOK, Job, JobKnows

LEMMA FinishStep ==
    ASSUME DepositInv, RowsStand, NEW a \in Slot, Finish(a)
    PROVE  DepositInv'
BY RunningJob, IdleJobOK, JobOnlyStep DEF Finish

\* From one label to another that asks for no more knowledge.
LEMMA GotoKnows ==
    ASSUME DepositInv, NEW a \in Slot, NEW l \in OnDeposit, job[a].pc \in OnDeposit,
           l \in WithOrder => job[a].pc \in WithOrder,
           l \in WithReceipt => job[a].pc \in WithReceipt,
           l \in AfterMoney => job[a].pc \in AfterMoney
    PROVE  [job[a] EXCEPT !.pc = l] \in Job /\ JobKnows([job[a] EXCEPT !.pc = l])
<1> DEFINE j == [job[a] EXCEPT !.pc = l]
<1>1. job[a] \in Job /\ JobKnows(job[a]) /\ l \in Pc
  BY RunningJob DEF Pc, OnDeposit, WithOrder, WithReceipt, AfterMoney
<1>2. /\ j \in Job /\ j.pc = l /\ j.req = job[a].req /\ j.pay = job[a].pay
      /\ j.order = job[a].order
  BY <1>1 DEF Job
<1>3. l # "contract"
  BY DEF OnDeposit, WithOrder, WithReceipt, AfterMoney
<1> HIDE DEF j
<1>4. JobKnows(j)
  BY <1>1, <1>2, <1>3 DEF JobKnows
<1> QED
  BY <1>2, <1>4 DEF j

LEMMA GotoStep ==
    ASSUME DepositInv, RowsStand, NEW a \in Slot, NEW l \in OnDeposit, Goto(a, l),
           job[a].pc \in OnDeposit,
           l \in WithOrder => job[a].pc \in WithOrder,
           l \in WithReceipt => job[a].pc \in WithReceipt,
           l \in AfterMoney => job[a].pc \in AfterMoney
    PROVE  DepositInv'
BY GotoKnows, JobOnlyStep DEF Goto

\* A step of a job that writes rows and goes on with no more knowledge, or ends.
LEMMA WritingGotoStep ==
    ASSUME DepositInv, Grows, NoNewHolder, CreditsAreBacked,
           RowsTyped', DepositsHaveRequests',
           NEW a \in Slot, NEW l \in OnDeposit, Goto(a, l), job[a].pc \in OnDeposit,
           l \in WithOrder => job[a].pc \in WithOrder,
           l \in WithReceipt => job[a].pc \in WithReceipt,
           l \in AfterMoney => job[a].pc \in AfterMoney
    PROVE  DepositInv'
<1>1. PICK j \in Job : JobKnows(j) /\ j = [job[a] EXCEPT !.pc = l]
  BY GotoKnows
<1>2. JobKnows(j)' /\ job' = [job EXCEPT ![a] = j]
  BY <1>1, KnowledgeStays DEF Goto
<1> QED
  BY <1>2, WritingStep

LEMMA WritingFinishStep ==
    ASSUME DepositInv, Grows, NoNewHolder, CreditsAreBacked,
           RowsTyped', DepositsHaveRequests', NEW a \in Slot, Finish(a)
    PROVE  DepositInv'
<1>1. PICK j \in Job : JobKnows(j) /\ j = RequestJob(job[a].then, NoRequest, "none")
  BY RunningJob, IdleJobOK
<1>2. JobKnows(j)' /\ job' = [job EXCEPT ![a] = j]
  BY <1>1, KnowledgeStays DEF Finish
<1> QED
  BY <1>2, WritingStep

\* A step of a request handler that ends it with a write of statuses.
LEMMA StatusStep ==
    ASSUME DepositInv, NEW a \in Slot, Finish(a),
           status' \in [Request -> RequestStatus], lapsed' \in [Request -> BOOLEAN],
           NoNewHolder,
           UNCHANGED <<depositOf, contracted, paymentVars, moneyVars, gatewayVars, crashes>>
    PROVE  DepositInv'
<1> USE DEF paymentVars, moneyVars, gatewayVars
<1>1. Grows /\ CreditsAreBacked
  BY DEF Grows, CreditsAreBacked
<1>2. RowsTyped' /\ DepositsHaveRequests'
  BY DEF DepositInv, TypeOK, RowsTyped, DepositsHaveRequests
<1> QED
  BY <1>1, <1>2, WritingFinishStep

LEMMA RequestHandlers ==
    ASSUME DepositInv, NEW a \in Slot,
           CreateRequestInsert(a) \/ ReviewWrite(a) \/ OpenWrite(a) \/ CancelWrite(a)
           \/ PayExpired(a) \/ ExpireWrite(a)
    PROVE  DepositInv'
<1>1. status \in [Request -> RequestStatus] /\ lapsed \in [Request -> BOOLEAN]
  BY DEF DepositInv, TypeOK, RowsTyped
<1>2. PICK R \in SUBSET Request, s \in RequestStatus \ Winning : SetStatus(R, s)
  BY RunningJob DEF CreateRequestInsert, ReviewWrite, OpenWrite, CancelWrite, PayExpired,
     ExpireWrite, At, OnRequest, RequestStatus, Winning
<1>3. status' \in [Request -> RequestStatus] /\ NoNewHolder
  BY <1>1, <1>2 DEF SetStatus, NoNewHolder
<1>4. Finish(a) /\ lapsed' \in [Request -> BOOLEAN]
      /\ UNCHANGED <<depositOf, contracted, paymentVars, moneyVars, gatewayVars, crashes>>
  BY <1>1 DEF CreateRequestInsert, ReviewWrite, OpenWrite, CancelWrite, PayExpired, ExpireWrite
<1> QED
  BY <1>3, <1>4, StatusStep

\* The steps that only read, or find that there is nothing to do, and end.
LEMMA EndingHandlers ==
    ASSUME DepositInv, NEW a \in Slot,
           PayRefused(a) \/ ConfirmBound(a) \/ WalletRefused(a) \/ AlreadyPaid(a)
           \/ RefundRefused(a) \/ ReconcileNotFound(a)
    PROVE  DepositInv'
BY FinishStep DEF PayRefused, ConfirmBound, WalletRefused, AlreadyPaid, RefundRefused,
   ReconcileNotFound, RowsStand

\* The steps that only read and go on.
LEMMA ReadingHandlers ==
    ASSUME DepositInv, NEW a \in Slot,
           ConfirmRead(a) \/ WalletRead(a) \/ Finalize(a) \/ LostRace(a)
           \/ RefundBlankAnswer(a) \/ RefundLogRead(a)
    PROVE  DepositInv'
<1>1. RowsStand
  BY DEF ConfirmRead, WalletRead, Finalize, LostRace, RefundBlankAnswer, RefundLogRead, RowsStand
<1>2. CASE Finish(a)
  BY <1>1, <1>2, FinishStep
<1>3. CASE ~Finish(a)
  <2>1. PICK l \in OnDeposit :
            /\ Goto(a, l) /\ job[a].pc \in OnDeposit /\ l \notin WithOrder
            /\ l \in AfterMoney => job[a].pc \in AfterMoney
    BY <1>3 DEF ConfirmRead, WalletRead, Finalize, LostRace, MayPromote, RefundBlankAnswer,
       RefundLogRead, At, OnDeposit, WithOrder, WithReceipt, AfterMoney
  <2>2. WithReceipt \subseteq WithOrder
    BY DEF WithOrder
  <2> QED
    BY <1>1, <2>1, <2>2, GotoStep
<1> QED
  BY <1>2, <1>3

\* payHoldingDeposit: the deposit is looked up or created, and recorded.
LEMMA PayHandlers ==
    ASSUME DepositInv, NEW a \in Slot, PayLookup(a) \/ PayCreate(a) \/ PayRecord(a)
    PROVE  DepositInv'
<1> USE DEF requestVars, paymentVars, moneyVars, gatewayVars
<1>1. RowsTyped /\ DepositsHaveRequests
  BY DEF DepositInv, TypeOK
<1>2. "payRecord" \in OnDeposit /\ "payRecord" \notin WithOrder \cup WithReceipt \cup AfterMoney
      /\ "confirmRead" \in OnDeposit /\ "confirmRead" \notin WithOrder \cup WithReceipt \cup AfterMoney
      /\ "payCreate" \in OnRequest /\ "payLookup" \in OnRequest
  BY DEF OnRequest, OnDeposit, WithOrder, WithReceipt, AfterMoney
<1>3. CASE PayLookup(a)
  <2>1. RowsStand /\ job[a].req \in Request
    BY <1>2, <1>3, RunningJob DEF PayLookup, RowsStand, At
  <2>2. CASE \E p \in LiveDeposits(job[a].req) : GoPay(a, p)
    <3>1. PICK p \in Payment : payReq[p] = job[a].req /\ GoPay(a, p)
      BY <2>2 DEF LiveDeposits
    <3> QED
      BY <1>2, <2>1, <3>1, RunningJob, DepositJobOK, JobOnlyStep DEF GoPay
  <2>3. CASE Goto(a, "payCreate")
    <3> DEFINE j == [job[a] EXCEPT !.pc = "payCreate"]
    <3>1. job[a] \in Job
      BY RunningJob
    <3>2. j \in Job /\ j.pc = "payCreate" /\ j.req = job[a].req
      BY <3>1 DEF Job, Pc
    <3> HIDE DEF j
    <3>3. JobKnows(j)
      BY <2>1, <3>2 DEF JobKnows, OnDeposit, WithOrder, WithReceipt, AfterMoney
    <3>4. job' = [job EXCEPT ![a] = j]
      BY <2>3 DEF Goto, j
    <3> QED
      BY <2>1, <3>2, <3>3, <3>4, JobOnlyStep
  <2> QED
    BY <1>3, <2>2, <2>3 DEF PayLookup
<1>4. CASE PayCreate(a)
  <2>1. job[a].req \in Request
    BY <1>2, <1>4, RunningJob DEF PayCreate, At
  <2>2. PICK p \in Payment :
            /\ payReq[p] = NoRequest
            /\ payReq' = [payReq EXCEPT ![p] = job[a].req]
            /\ SetPayStatus(p, "pending")
            /\ GoPay(a, p)
    BY <1>4 DEF PayCreate
  <2>0. PICK j : j = DepositJob("payRecord", job[a].req, p, NoOrder, job[a].method, "idle")
    OBVIOUS
  <2>3. /\ payReq' \in [Payment -> Request \cup {NoRequest}] /\ payReq'[p] = job[a].req
        /\ \A q \in Payment : q # p => payReq'[q] = payReq[q] /\ payStatus'[q] = payStatus[q]
        /\ payStatus' \in [Payment -> PaymentStatus]
    BY <1>1, <2>1, <2>2 DEF RowsTyped, SetPayStatus, PaymentStatus
  <2>4. Grows /\ NoNewHolder /\ CreditsAreBacked
    BY <1>4, <2>2, <2>3 DEF PayCreate, Grows, NoNewHolder, CreditsAreBacked
  <2>5. RowsTyped'
    BY <1>1, <1>4, <2>3 DEF PayCreate, RowsTyped
  <2>6. DepositsHaveRequests'
    BY <1>1, <1>4, <2>1, <2>3 DEF PayCreate, DepositsHaveRequests, RowsTyped, Order
  <2>7. j \in Job /\ JobKnows(j)'
    BY <1>2, <2>0, <2>1, <2>3, RunningJob
       DEF DepositJob, Job, Pc, JobKnows, OnRequest, OnDeposit
  <2>8. job' = [job EXCEPT ![a] = j]
    BY <2>0, <2>2 DEF GoPay
  <2> QED
    BY <2>4, <2>5, <2>6, <2>7, <2>8, WritingStep
<1>5. CASE PayRecord(a)
  <2>1. job[a].req \in Request /\ job[a].pay \in Payment /\ job[a].pc \in OnDeposit
    BY <1>2, <1>5, RunningJob DEF PayRecord, At
  <2>2. Goto(a, "confirmRead")
    BY <1>5 DEF PayRecord
  <2>3. Grows /\ NoNewHolder /\ CreditsAreBacked /\ RowsTyped' /\ DepositsHaveRequests'
    BY <1>1, <1>5, <2>1 DEF PayRecord, Grows, NoNewHolder, CreditsAreBacked, RowsTyped,
       DepositsHaveRequests
  <2> QED
    BY <1>2, <2>1, <2>2, <2>3, WritingGotoStep
<1> QED
  BY <1>3, <1>4, <1>5

\* confirmPayment: a new code, and a gateway order or the wallet.
LEMMA ConfirmHandler ==
    ASSUME DepositInv, NEW a \in Slot, ConfirmWrite(a)
    PROVE  DepositInv'
<1> USE DEF requestVars, moneyVars
<1> DEFINE p == job[a].pay
           m == job[a].method
           o == [pay |-> p, via |-> m, code |-> payCode[p] + 1]
<1>1. RowsTyped /\ DepositsHaveRequests
  BY DEF DepositInv, TypeOK
<1>2. "confirmWrite" \in OnDeposit /\ "walletRead" \in OnDeposit
      /\ "walletRead" \notin WithOrder \cup WithReceipt \cup AfterMoney
  BY DEF OnDeposit, WithOrder, WithReceipt, AfterMoney
<1>3. p \in Payment /\ payReq[p] \in Request /\ m \in AllMethods \cup {"none"}
  BY <1>2, RunningJob DEF ConfirmWrite, At
<1>4. payCode[p] + 1 \in Codes
  BY <1>1, <1>3, PaymentAssumption DEF ConfirmWrite, RowsTyped, Codes
<1>5. m \in Gateway => o \in Order
  BY <1>3, <1>4 DEF Order
<1>6. orders \subseteq orders' /\ orders' \subseteq Order /\ \A x \in orders' : x \in orders \/ x.pay = p
  BY <1>1, <1>5 DEF ConfirmWrite, RowsTyped
<1>7. RowsTyped'
  BY <1>1, <1>3, <1>4, <1>6 DEF ConfirmWrite, RowsTyped
<1>8. DepositsHaveRequests'
  BY <1>1, <1>3, <1>6 DEF ConfirmWrite, DepositsHaveRequests
<1>9. Grows /\ NoNewHolder /\ CreditsAreBacked
  BY DEF ConfirmWrite, Grows, NoNewHolder, CreditsAreBacked
<1>10. Goto(a, "walletRead") \/ Finish(a)
  BY DEF ConfirmWrite
<1>11. job[a].pc \in OnDeposit
  BY <1>2 DEF ConfirmWrite, At
<1> QED
  BY <1>2, <1>7, <1>8, <1>9, <1>10, <1>11, WritingGotoStep, WritingFinishStep

\* The three transactions that mark a payment as paid and credit the owner.
LEMMA SettlingHandlers ==
    ASSUME DepositInv, NEW a \in Slot, WalletCommit(a) \/ WebhookCommit(a) \/ VnpayCommit(a)
    PROVE  DepositInv'
<1> USE DEF requestVars, gatewayVars
<1>0. job[a].pc \in OnDeposit
  BY DEF WalletCommit, WebhookCommit, VnpayCommit, At, OnDeposit, WithOrder, WithReceipt
<1>. PICK p \in Payment : p = job[a].pay
  BY <1>0, RunningJob
<1>1. RowsTyped /\ DepositsHaveRequests
  BY DEF DepositInv, TypeOK
<1>2. /\ p = job[a].pay /\ payReq[p] = job[a].req /\ job[a].req \in Request
      /\ job[a].pc \in WithReceipt => job[a].order \in captured /\ job[a].order \in Order
                                      /\ job[a].order.pay = p
  BY RunningJob DEF WalletCommit, WebhookCommit, VnpayCommit, At, OnDeposit, WithOrder,
     WithReceipt, JobKnows
<1>3. UNCHANGED <<payReq, polls, refundLogs, status, lapsed, depositOf, contracted,
                  orders, captured, returned, crashes>>
  BY DEF WalletCommit, WebhookCommit, VnpayCommit, Receipt
<1>4. /\ SetPayStatus(p, "paid") /\ settled' = [settled EXCEPT ![p] = @ + 1]
      /\ payMethod' \in [Payment -> AllMethods \cup {"none"}]
      /\ payCode' \in [Payment -> Codes] /\ transOf' \in [Payment -> Order \cup {NoOrder}]
  <2>1. CASE WalletCommit(a)
    BY <1>1, <1>2, <2>1 DEF WalletCommit, RowsTyped, AllMethods
  <2>2. CASE Receipt(a) /\ job[a].pc \in WithReceipt
    <3>1. job[a].method \in AllMethods \cup {"none"} /\ job[a].order.code \in Codes
      BY <1>2, <2>2, RunningJob DEF Order
    <3> QED
      BY <1>1, <1>2, <2>2, <3>1 DEF Receipt, RowsTyped
  <2> QED
    BY <2>1, <2>2 DEF WebhookCommit, VnpayCommit, At, WithReceipt
<1>5. debited \subseteq debited' /\ debited' \subseteq Payment /\ MoneyTaken(p)'
  <2>1. CASE WalletCommit(a)
    BY <1>1, <1>2, <2>1 DEF WalletCommit, RowsTyped, MoneyTaken
  <2>2. CASE Receipt(a) /\ job[a].pc \in WithReceipt
    BY <1>1, <1>2, <2>2 DEF Receipt, RowsTyped, MoneyTaken
  <2> QED
    BY <2>1, <2>2 DEF WebhookCommit, VnpayCommit, At, WithReceipt
<1>6. Grows /\ NoNewHolder
  BY <1>3, <1>5 DEF Grows, NoNewHolder
<1>7. CreditsAreBacked
  BY <1>1, <1>2, <1>4, <1>5 DEF CreditsAreBacked, RowsTyped
<1>8. RowsTyped'
  BY <1>1, <1>2, <1>3, <1>4, <1>5 DEF RowsTyped, SetPayStatus, PaymentStatus
<1>9. DepositsHaveRequests'
  BY <1>1, <1>2, <1>3, <1>4 DEF RowsTyped, DepositsHaveRequests, SetPayStatus
<1>10. CASE Finish(a)
  BY <1>6, <1>7, <1>8, <1>9, <1>10, WritingFinishStep
<1>11. CASE Carry(a, "finalize")
  <2>1. PICK j : j = DepositJob("finalize", job[a].req, p, NoOrder, "none", job[a].then)
    OBVIOUS
  <2>2. j \in Job /\ JobKnows(j)'
    BY <1>2, <1>3, <1>5, <2>1, RunningJob
       DEF DepositJob, Job, Pc, JobKnows, OnRequest, OnDeposit, WithOrder, WithReceipt, AfterMoney
  <2>3. job' = [job EXCEPT ![a] = j]
    BY <1>11, <2>1 DEF Carry
  <2> QED
    BY <1>6, <1>7, <1>8, <1>9, <2>2, <2>3, WritingStep
<1> QED
  BY <1>10, <1>11 DEF WalletCommit, WebhookCommit, VnpayCommit

\* The loser of the race is marked, and refunded if a gateway agrees.
LEMMA RefundHandlers ==
    ASSUME DepositInv, NEW a \in Slot,
           MarkRefunded(a) \/ RefundAccepted(a) \/ RefundMark(a) \/ RefundLogWrite(a)
    PROVE  DepositInv'
<1> USE DEF requestVars, paymentVars, moneyVars, gatewayVars
<1>1. RowsTyped /\ DepositsHaveRequests
  BY DEF DepositInv, TypeOK
<1>2. /\ job[a].pc \in OnDeposit /\ job[a].req \in Request
      /\ job[a].pay \in Payment /\ payReq[job[a].pay] = job[a].req
  BY RunningJob DEF MarkRefunded, RefundAccepted, RefundMark, RefundLogWrite, At, OnDeposit, AfterMoney
<1>3. Grows /\ CreditsAreBacked
  BY DEF MarkRefunded, RefundAccepted, RefundMark, RefundLogWrite, Grows, CreditsAreBacked
<1>4. RowsTyped' /\ NoNewHolder
  <2>1. CASE MarkRefunded(a)
    BY <1>1, <1>2, <2>1 DEF MarkRefunded, SetStatus, RowsTyped, RequestStatus, NoNewHolder, Winning
  <2>2. CASE RefundAccepted(a)
    BY <1>1, <2>2 DEF RefundAccepted, RefundTarget, RowsTyped, NoNewHolder
  <2>3. CASE RefundMark(a)
    BY <1>1, <1>2, <2>3 DEF RefundMark, SetPayStatus, RowsTyped, PaymentStatus, NoNewHolder
  <2>4. CASE RefundLogWrite(a)
    BY <1>1, <1>2, <2>4 DEF RefundLogWrite, RowsTyped, NoNewHolder
  <2> QED
    BY <2>1, <2>2, <2>3, <2>4
<1>5. DepositsHaveRequests'
  BY <1>1, <1>2 DEF MarkRefunded, RefundAccepted, RefundMark, RefundLogWrite, SetPayStatus,
     RowsTyped, DepositsHaveRequests
<1>6. Finish(a) \/ Goto(a, "refund") \/ Goto(a, "refundMark") \/ Goto(a, "refundLogRead")
  BY DEF MarkRefunded, RefundAccepted, RefundMark, RefundLogWrite
<1>7. {"refund", "refundMark", "refundLogRead"} \subseteq
          OnDeposit \ (WithOrder \cup WithReceipt \cup AfterMoney)
  BY DEF OnDeposit, WithOrder, WithReceipt, AfterMoney
<1> QED
  BY <1>2, <1>3, <1>4, <1>5, <1>6, <1>7, WritingFinishStep, WritingGotoStep

LEMMA ReconcileHandlers ==
    ASSUME DepositInv, NEW a \in Slot,
           ReconcilePoll(a) \/ ReconcileGiveUp(a) \/ ReconcileFound(a) \/ ReconcileSweep(a)
    PROVE  DepositInv'
<1> USE DEF requestVars, moneyVars, gatewayVars
<1>1. RowsTyped /\ DepositsHaveRequests
  BY DEF DepositInv, TypeOK
<1>2. CASE ReconcileFound(a)
  <2>1. RowsStand /\ job[a].order \in captured
        /\ job' = [job EXCEPT ![a] = WebhookRead(job[a].order, "sweep")]
    BY <1>2 DEF ReconcileFound, RowsStand
  <2> QED
    BY <2>1, WebhookReadOK, JobOnlyStep
<1>3. CASE ReconcilePoll(a) \/ ReconcileGiveUp(a)
  <2>1. job[a].pc \in WithOrder /\ job[a].pc \in OnDeposit
    BY <1>3 DEF ReconcilePoll, ReconcileGiveUp, At, OnDeposit, WithOrder
  <2>2. job[a].pay \in Payment /\ payReq[job[a].pay] \in Request
    BY <2>1, RunningJob
  <2>3. RowsTyped' /\ DepositsHaveRequests' /\ Grows /\ NoNewHolder /\ CreditsAreBacked
    <3>1. CASE ReconcilePoll(a)
      <4>1. polls' \in [Payment -> 0 .. PollLimit]
        BY <1>1, <2>2, <3>1, PaymentAssumption DEF ReconcilePoll, RowsTyped
      <4> QED
        BY <1>1, <3>1, <4>1 DEF ReconcilePoll, RowsTyped, DepositsHaveRequests,
           Grows, NoNewHolder, CreditsAreBacked
    <3>2. CASE ReconcileGiveUp(a)
      BY <1>1, <2>2, <3>2 DEF ReconcileGiveUp, SetPayStatus, PaymentStatus, RowsTyped,
         DepositsHaveRequests, Grows, NoNewHolder, CreditsAreBacked
    <3> QED
      BY <1>3, <3>1, <3>2
  <2>4. {"query", "giveUp"} \subseteq (OnDeposit \cap WithOrder) \ (WithReceipt \cup AfterMoney)
    BY DEF OnDeposit, WithOrder, WithReceipt, AfterMoney
  <2>5. Finish(a) \/ Goto(a, "query") \/ Goto(a, "giveUp")
    BY <1>3 DEF ReconcilePoll, ReconcileGiveUp
  <2> QED
    BY <2>1, <2>3, <2>4, <2>5, WritingFinishStep, WritingGotoStep
<1>4. CASE ReconcileSweep(a)
  <2>1. RowsTyped' /\ DepositsHaveRequests' /\ Grows /\ NoNewHolder /\ CreditsAreBacked
    BY <1>1, <1>4 DEF ReconcileSweep, PaymentStatus, RowsTyped, DepositsHaveRequests,
       Grows, NoNewHolder, CreditsAreBacked
  <2>2. PICK j \in Job : JobKnows(j) /\ j = IdleJob
    BY IdleJobOK DEF IdleJob
  <2>3. JobKnows(j)' /\ job' = [job EXCEPT ![a] = j]
    BY <1>4, <2>1, <2>2, KnowledgeStays DEF ReconcileSweep
  <2> QED
    BY <2>1, <2>3, WritingStep
<1> QED
  BY <1>2, <1>3, <1>4

\* The winner: the only step in which a request comes to be holding_deposit_paid.
LEMMA PromoteHandler ==
    ASSUME DepositInv, NEW a \in Slot, Promote(a)
    PROVE  DepositInv'
<1> USE DEF paymentVars, moneyVars, gatewayVars
<1>1. RowsTyped /\ DepositsHaveRequests
  BY DEF DepositInv, TypeOK
<1>. PICK r \in Request : r = job[a].req
  BY RunningJob DEF Promote, MayPromote, At, OnDeposit, AfterMoney
<1>2. DepositTaken(r)
  BY RunningJob DEF Promote, MayPromote, At, OnDeposit, AfterMoney, JobKnows, DepositTaken, DepositsOf
<1>3. /\ Grows /\ CreditsAreBacked
      /\ job[a].pay \in Payment
  BY RunningJob DEF Promote, MayPromote, At, OnDeposit, AfterMoney, Grows, CreditsAreBacked
<1>4. /\ status'[r] = "holding_deposit_paid"
      /\ \A q \in Request \ {r} : status'[q] \in {status[q], "holding_deposit_locked"}
      /\ status' \in [Request -> RequestStatus]
  BY <1>1 DEF Promote, RowsTyped, RequestStatus
<1>5. \A q \in Rivals(r) : status[q] \notin Winning
  BY DEF Promote, MayPromote, HasWinner
<1>6. RowsTyped' /\ DepositsHaveRequests'
  BY <1>1, <1>3, <1>4 DEF Promote, RowsTyped, DepositsHaveRequests
<1>7. HolderHasPaid'
  BY <1>2, <1>3, <1>4, DepositStays DEF DepositInv, HolderHasPaid, Winning
<1>8. AtMostOnePaid'
  BY <1>4, <1>5 DEF DepositInv, AtMostOnePaid, Rivals, Winning
<1>9. PICK j \in Job : JobKnows(j) /\ j = RequestJob(job[a].then, NoRequest, "none")
  BY RunningJob, IdleJobOK
<1>10. JobKnows(j)' /\ job' = [job EXCEPT ![a] = j]
  BY <1>3, <1>9, KnowledgeStays DEF Promote, Finish
<1>11. job' \in [Slot -> Job] /\ \A b \in Slot : JobKnows(job[b])'
  BY <1>3, <1>10, JobsStep
<1> QED
  BY <1>3, <1>6, <1>7, <1>8, <1>11, CreditsStep DEF DepositInv, TypeOK

\* A contract is made from a request that had paid when the handler looked.
LEMMA ContractHandler ==
    ASSUME DepositInv, NEW a \in Slot, ContractWrite(a)
    PROVE  DepositInv'
<1> USE DEF paymentVars, moneyVars, gatewayVars
<1>1. RowsTyped /\ DepositsHaveRequests
  BY DEF DepositInv, TypeOK
<1>. PICK r \in Request : r = job[a].req
  BY RunningJob DEF ContractWrite, At, OnRequest
<1>2. DepositTaken(r)
  BY RunningJob DEF ContractWrite, At, JobKnows
<1>3. Grows /\ CreditsAreBacked
  BY DEF ContractWrite, Grows, CreditsAreBacked
<1>4. /\ status'[r] = "contract_created" /\ status' \in [Request -> RequestStatus]
      /\ \A q \in Request \ {r} : status'[q] = status[q]
  BY <1>1 DEF ContractWrite, SetStatus, RowsTyped, RequestStatus
<1>5. RowsTyped' /\ DepositsHaveRequests'
  BY <1>1, <1>4 DEF ContractWrite, RowsTyped, DepositsHaveRequests
<1>6. HolderHasPaid'
  BY <1>2, <1>3, <1>4, DepositStays DEF DepositInv, HolderHasPaid
<1>7. AtMostOnePaid'
  BY <1>4 DEF DepositInv, AtMostOnePaid, Rivals
<1>8. PICK j \in Job : JobKnows(j) /\ j = RequestJob(job[a].then, NoRequest, "none")
  BY RunningJob, IdleJobOK
<1>9. JobKnows(j)' /\ job' = [job EXCEPT ![a] = j]
  BY <1>3, <1>8, KnowledgeStays DEF ContractWrite, Finish
<1>10. job' \in [Slot -> Job] /\ \A b \in Slot : JobKnows(job[b])'
  BY <1>3, <1>9, JobsStep
<1> QED
  BY <1>3, <1>5, <1>6, <1>7, <1>10, CreditsStep DEF DepositInv, TypeOK

-----------------------------------------------------------------------------
(* The world outside, and the theorems.                                    *)

\* A contract that ends, a window that lapses, a tenant who pays, and a crash,
\* which leaves every row as it is and forgets every job.
LEMMA WorldStep ==
    ASSUME DepositInv,
           \/ \E r \in Request : ContractEnds(r) \/ WindowLapses(r)
           \/ \E o \in orders : TenantPays(o)
           \/ Crash
           \/ UNCHANGED vars
    PROVE  DepositInv'
<1> USE DEF vars, requestVars, paymentVars, moneyVars, gatewayVars
<1>1. RowsTyped /\ DepositsHaveRequests
  BY DEF DepositInv, TypeOK
<1>2. RowsTyped' /\ NoNewHolder
  <2>1. CASE \E r \in Request : ContractEnds(r) \/ WindowLapses(r)
    BY <1>1, <2>1 DEF ContractEnds, WindowLapses, SetStatus, RowsTyped, RequestStatus,
       NoNewHolder, Winning
  <2>2. CASE \E o \in orders : TenantPays(o)
    BY <1>1, <2>2 DEF TenantPays, RowsTyped, NoNewHolder
  <2>3. CASE Crash
    BY <1>1, <2>3, PaymentAssumption DEF Crash, RowsTyped, NoNewHolder
  <2>4. CASE UNCHANGED vars
    BY <1>1, <2>4 DEF RowsTyped, NoNewHolder
  <2> QED
    BY <2>1, <2>2, <2>3, <2>4
<1>3. Grows /\ CreditsAreBacked /\ DepositsHaveRequests'
  BY <1>1 DEF ContractEnds, WindowLapses, TenantPays, Crash, Grows, CreditsAreBacked,
     DepositsHaveRequests
<1>4. job' \in [Slot -> Job] /\ \A b \in Slot : JobKnows(job[b])'
  <2>1. CASE Crash
    <3>1. PICK j \in Job : JobKnows(j) /\ j = IdleJob
      BY IdleJobOK DEF IdleJob
    <3>2. job' = [b \in Slot |-> j] /\ JobKnows(j)'
      BY <1>3, <2>1, <3>1, KnowledgeStays DEF Crash
    <3>3. \A b \in Slot : job'[b] = j
      BY <3>2
    <3> QED
      BY <3>1, <3>2, <3>3 DEF JobKnows
  <2>2. CASE job' = job
    <3>1. ASSUME NEW b \in Slot PROVE JobKnows(job[b])'
      BY <1>3, <2>2, RunningJob, KnowledgeStays
    <3> QED
      BY <2>2, <3>1 DEF DepositInv, TypeOK
  <2> QED
    BY <2>1, <2>2 DEF ContractEnds, WindowLapses, TenantPays
<1> QED
  BY <1>2, <1>3, <1>4, HoldersStep, CreditsStep DEF DepositInv, TypeOK

LEMMA DepositInvInit == Init => DepositInv
<1> SUFFICES ASSUME Init PROVE DepositInv
  OBVIOUS
<1>1. IdleJob \in Job /\ JobKnows(IdleJob)
  BY IdleJobOK DEF IdleJob
<1>2. job \in [Slot -> Job] /\ \A a \in Slot : JobKnows(job[a])
  BY <1>1 DEF Init
<1>3. RowsTyped
  BY PaymentAssumption DEF Init, RowsTyped, RequestStatus, PaymentStatus, Codes
<1>4. DepositsHaveRequests /\ MoneyBehindCredit /\ HolderHasPaid /\ AtMostOnePaid
  BY DEF Init, DepositsHaveRequests, MoneyBehindCredit, HolderHasPaid, AtMostOnePaid, Winning, Rivals
<1> QED
  BY <1>2, <1>3, <1>4 DEF DepositInv, TypeOK

LEMMA DepositInvNext == DepositInv /\ [Next]_vars => DepositInv'
<1> SUFFICES ASSUME DepositInv, [Next]_vars PROVE DepositInv'
  OBVIOUS
<1>1. ASSUME NEW a \in Slot, Arrive(a) PROVE DepositInv'
  BY <1>1, ArriveStep
<1>2. ASSUME NEW a \in Slot, Continue(a) PROVE DepositInv'
  BY <1>2, RequestHandlers, EndingHandlers, ReadingHandlers, PayHandlers, ConfirmHandler,
     SettlingHandlers, RefundHandlers, ReconcileHandlers, PromoteHandler, ContractHandler
     DEF Continue
<1>3. CASE UNCHANGED vars
  BY <1>3, WorldStep
<1> QED
  BY <1>1, <1>2, <1>3, WorldStep DEF Next

\* DepositInv holds at every step of every execution, whatever the handlers
\* interleave, the gateways repeat and the crashes cut short.
THEOREM DepositInvariant == Spec => []DepositInv
BY DepositInvInit, DepositInvNext, PTL DEF Spec

\* The rows and the jobs keep their types.
THEOREM TypeCorrect == Spec => []TypeOK
<1>1. DepositInv => TypeOK
  BY DEF DepositInv
<1> QED
  BY <1>1, DepositInvariant, PTL

\* settleIncomeForOwner credits an owner only for money a tenant has paid.
THEOREM CreditsBacked == Spec => []MoneyBehindCredit
<1>1. DepositInv => MoneyBehindCredit
  BY DEF DepositInv
<1> QED
  BY <1>1, DepositInvariant, PTL

\* No request holds a property, and no contract is made from it, unless the
\* money of a deposit for it was taken.
THEOREM HoldersPaid == Spec => []HolderHasPaid
<1>1. DepositInv => HolderHasPaid
  BY DEF DepositInv
<1> QED
  BY <1>1, DepositInvariant, PTL

\* finalizeHoldingDeposit never makes two winners of one property at a time.
THEOREM OneWinner == Spec => []AtMostOnePaid
<1>1. DepositInv => AtMostOnePaid
  BY DEF DepositInv
<1> QED
  BY <1>1, DepositInvariant, PTL

\* Only the step that promotes a request makes it holding_deposit_paid.
LEMMA OnlyPromotePromotes ==
    ASSUME DepositInv, Next, NEW r \in Request,
           status[r] # "holding_deposit_paid", status'[r] = "holding_deposit_paid"
    PROVE  \E a \in Slot : Promote(a) /\ job[a].req = r
<1> USE DEF requestVars
<1>1. ASSUME UNCHANGED status PROVE FALSE
  BY <1>1
<1>2. ASSUME NEW R, NEW s \in RequestStatus \ {"holding_deposit_paid"}, SetStatus(R, s) PROVE FALSE
  BY <1>2 DEF SetStatus
<1>3. ASSUME NEW a \in Slot, Arrive(a) PROVE FALSE
  BY <1>1, <1>3 DEF Arrive, CreateRequestCheck, TakeUpCheck, RejectCheck, CancelCheck, PayCheck,
     ContractCheck, OpenCheck, ConfirmStart, MomoIpn, VnpayIpn, ReconcileFind, ExpireFind
<1>4. PICK a \in Slot : Continue(a)
  BY <1>1, <1>2, <1>3 DEF Next, ContractEnds, WindowLapses, TenantPays, Crash, RequestStatus
<1>5. CASE \/ CreateRequestInsert(a) \/ ReviewWrite(a) \/ OpenWrite(a) \/ CancelWrite(a)
           \/ PayExpired(a) \/ MarkRefunded(a) \/ ExpireWrite(a) \/ ContractWrite(a)
  BY <1>2, <1>5 DEF CreateRequestInsert, ReviewWrite, OpenWrite, CancelWrite, PayExpired,
     MarkRefunded, ExpireWrite, ContractWrite, RequestStatus
<1>6. CASE Promote(a)
  BY <1>6 DEF Promote, DepositInv, TypeOK, RowsTyped
<1>7. CASE \/ PayLookup(a) \/ PayCreate(a) \/ PayRefused(a) \/ PayRecord(a)
           \/ ConfirmRead(a) \/ ConfirmWrite(a) \/ ConfirmBound(a)
           \/ WalletRead(a) \/ WalletRefused(a) \/ WalletCommit(a)
           \/ WebhookCommit(a) \/ VnpayCommit(a)
           \/ Finalize(a) \/ AlreadyPaid(a) \/ LostRace(a)
           \/ RefundAccepted(a) \/ RefundRefused(a) \/ RefundBlankAnswer(a)
           \/ RefundMark(a) \/ RefundLogRead(a) \/ RefundLogWrite(a)
           \/ ReconcilePoll(a) \/ ReconcileGiveUp(a) \/ ReconcileFound(a)
           \/ ReconcileNotFound(a) \/ ReconcileSweep(a)
  <2>1. UNCHANGED status
    BY <1>7 DEF PayLookup, PayCreate, PayRefused, PayRecord, ConfirmRead, ConfirmWrite,
       ConfirmBound, WalletRead, WalletRefused, WalletCommit, WebhookCommit, VnpayCommit, Receipt,
       Finalize, AlreadyPaid, LostRace, RefundAccepted, RefundRefused, RefundBlankAnswer,
       RefundMark, RefundLogRead, RefundLogWrite, ReconcilePoll, ReconcileGiveUp,
       ReconcileFound, ReconcileNotFound, ReconcileSweep
  <2> QED
    BY <1>1, <2>1
<1> QED
  BY <1>4, <1>5, <1>6, <1>7 DEF Continue

\* A promotion starts from an open window, displaces no holder, and closes
\* every rival's window.
THEOREM PromotionExclusive == Spec => PromotionIsExclusive
<1> DEFINE Exclusive ==
      \A r \in Request :
         status[r] # "holding_deposit_paid" /\ status'[r] = "holding_deposit_paid"
         => /\ status[r] = "holding_deposit_open"
            /\ \A q \in Rivals(r) : /\ status[q] \notin Winning
                                    /\ status'[q] # "holding_deposit_open"
<1>1. ASSUME DepositInv, [Next]_vars PROVE [Exclusive]_vars
  <2> SUFFICES ASSUME Next, NEW r \in Request,
                      status[r] # "holding_deposit_paid", status'[r] = "holding_deposit_paid"
               PROVE  /\ status[r] = "holding_deposit_open"
                      /\ \A q \in Rivals(r) : /\ status[q] \notin Winning
                                              /\ status'[q] # "holding_deposit_open"
    BY <1>1
  <2>1. PICK a \in Slot : Promote(a) /\ job[a].req = r
    BY <1>1, OnlyPromotePromotes
  <2>2. status[r] = "holding_deposit_open" /\ \A q \in Rivals(r) : status[q] \notin Winning
    BY <2>1 DEF Promote, MayPromote, HasWinner
  <2>3. \A q \in Rivals(r) : status'[q] # "holding_deposit_open"
    BY <2>1 DEF Promote, Rivals
  <2> QED
    BY <2>2, <2>3
<1> QED
  BY <1>1, DepositInvariant, PTL DEF Spec, PromotionIsExclusive

-----------------------------------------------------------------------------
(* The holding deposits implement the abstract competition of Award: the   *)
(* initial state maps to its initial state, and each step of a handler to  *)
(* a step of the competition or to none.                                   *)

Open == {r \in Request : status[r] = "holding_deposit_open"}
Paid == {r \in Request : status[r] = "holding_deposit_paid"}
Made == {r \in Request : status[r] = "contract_created"}

\* At the start there is no request.
LEMMA ContestStarts == Init => Contest!Init
BY DEF Init, Contest!Init

\* Requests that are written to any other status leave the competition.
LEMMA StatusLeaves ==
    ASSUME NEW R \in SUBSET Request,
           NEW s \in RequestStatus \ {"holding_deposit_open", "holding_deposit_paid",
                                      "contract_created"},
           SetStatus(R, s)
    PROVE  Contest!Next
<1>1. Contest!Leave(R)
  BY DEF SetStatus, Contest!Leave
<1> QED
  BY <1>1 DEF Contest!Next

\* Requests whose window is opened may win, and hold nothing yet.
LEMMA StatusOpens ==
    ASSUME NEW R \in SUBSET Request, SetStatus(R, "holding_deposit_open")
    PROVE  Contest!Next
<1>1. Open' = Open \cup R /\ Paid' = Paid \ R /\ Made' = Made \ R
  BY DEF SetStatus, Open, Paid, Made
<1> QED
  BY <1>1 DEF Contest!Next, Contest!Open, Open, Paid, Made

\* A contract is made from a request.
LEMMA StatusLeases ==
    ASSUME NEW r \in Request, SetStatus({r}, "contract_created")
    PROVE  Contest!Next
<1>1. Open' = Open \ {r} /\ Paid' = Paid \ {r} /\ Made' = Made \cup {r}
  BY DEF SetStatus, Open, Paid, Made
<1> QED
  BY <1>1 DEF Contest!Next, Contest!Lease, Open, Paid, Made

\* A step that leaves every status alone is no step of the competition.
LEMMA StatusStays ==
    ASSUME UNCHANGED status
    PROVE  UNCHANGED Contest!vars
BY DEF Contest!vars

\* The step that promotes a request is a win.
LEMMA PromoteWins ==
    ASSUME DepositInv, NEW a \in Slot, Promote(a)
    PROVE  Contest!Next
<1>1. PICK r \in Request : r = job[a].req
  BY DEF DepositInv, JobKnows, Promote, MayPromote, At, AfterMoney, OnDeposit
<1>2. r \in Open /\ Contest!Rivals(r) \cap (Paid \cup Made) = {}
  BY <1>1 DEF Promote, MayPromote, HasWinner, Rivals, Winning, Open, Paid, Made, Contest!Rivals
<1>3. status' = [q \in Request |->
                   IF q = r THEN "holding_deposit_paid"
                   ELSE IF q \in Rivals(r) /\ status[q] = "holding_deposit_open"
                   THEN "holding_deposit_locked" ELSE status[q]]
  BY <1>1 DEF Promote
<1>4. Open' = Open \ (Contest!Rivals(r) \cup {r})
  BY <1>1, <1>3 DEF Rivals, Open, Contest!Rivals
<1>5. Paid' = Paid \cup {r}
  BY <1>1, <1>3 DEF Paid
<1>6. Made' = Made
  BY <1>1, <1>2, <1>3 DEF Made, Open
<1>7. Contest!Win(r)
  BY <1>2, <1>4, <1>5, <1>6 DEF Contest!Win, Open, Paid, Made
<1> QED
  BY <1>1, <1>7 DEF Contest!Next

\* Each step of a handler, of a gateway or of time is a step of the competition
\* or leaves it alone.
LEMMA ContestStep == DepositInv /\ [Next]_vars => [Contest!Next]_(Contest!vars)
<1> SUFFICES ASSUME DepositInv, [Next]_vars
             PROVE  Contest!Next \/ UNCHANGED Contest!vars
  OBVIOUS
<1> USE DEF requestVars
<1>1. CASE UNCHANGED vars
  BY <1>1, StatusStays DEF vars
<1>2. ASSUME NEW a \in Slot, Arrive(a) PROVE UNCHANGED Contest!vars
  BY <1>2, StatusStays DEF Arrive, CreateRequestCheck, TakeUpCheck, RejectCheck, CancelCheck,
     PayCheck, ContractCheck, OpenCheck, ConfirmStart, MomoIpn, VnpayIpn, ReconcileFind, ExpireFind
<1>3. ASSUME NEW a \in Slot, Continue(a) PROVE Contest!Next \/ UNCHANGED Contest!vars
  <2>1. At(a, "create") \/ At(a, "takeUp") \/ At(a, "reject") \/ At(a, "cancel")
        \/ At(a, "payExpired") \/ At(a, "sawClosed") \/ At(a, "sawOpen") \/ At(a, "contract")
        => job[a].req \in Request
    BY DEF DepositInv, JobKnows, At, OnRequest, OnDeposit, AfterMoney
  <2>2. job[a].batch \in SUBSET Request
    BY DEF DepositInv, TypeOK, Job
  <2>3. CASE \/ CreateRequestInsert(a) \/ ReviewWrite(a) \/ CancelWrite(a)
             \/ PayExpired(a) \/ MarkRefunded(a)
    <3>1. PICK s \in RequestStatus \ {"holding_deposit_open", "holding_deposit_paid",
                                      "contract_created"} : SetStatus({job[a].req}, s)
      BY <2>3 DEF CreateRequestInsert, ReviewWrite, CancelWrite, PayExpired, MarkRefunded,
         RequestStatus
    <3>2. job[a].req \in Request
      BY <2>1, <2>3 DEF CreateRequestInsert, ReviewWrite, CancelWrite, PayExpired, MarkRefunded
    <3> QED
      BY <3>1, <3>2, StatusLeaves
  <2>4. CASE ExpireWrite(a)
    BY <2>2, <2>4, StatusLeaves DEF ExpireWrite, RequestStatus
  <2>5. CASE OpenWrite(a)
    BY <2>2, <2>5, StatusOpens DEF OpenWrite
  <2>6. CASE ContractWrite(a)
    BY <2>1, <2>6, StatusLeases DEF ContractWrite
  <2>7. CASE Promote(a)
    BY <2>7, PromoteWins
  <2>8. CASE \/ PayLookup(a) \/ PayCreate(a) \/ PayRefused(a) \/ PayRecord(a)
             \/ ConfirmRead(a) \/ ConfirmWrite(a) \/ ConfirmBound(a)
             \/ WalletRead(a) \/ WalletRefused(a) \/ WalletCommit(a)
             \/ WebhookCommit(a) \/ VnpayCommit(a)
             \/ Finalize(a) \/ AlreadyPaid(a) \/ LostRace(a)
             \/ RefundAccepted(a) \/ RefundRefused(a) \/ RefundBlankAnswer(a)
             \/ RefundMark(a) \/ RefundLogRead(a) \/ RefundLogWrite(a)
             \/ ReconcilePoll(a) \/ ReconcileGiveUp(a) \/ ReconcileFound(a)
             \/ ReconcileNotFound(a) \/ ReconcileSweep(a)
    <3>1. UNCHANGED status
      BY <2>8 DEF PayLookup, PayCreate, PayRefused, PayRecord, ConfirmRead, ConfirmWrite,
         ConfirmBound, WalletRead, WalletRefused, WalletCommit, WebhookCommit, VnpayCommit, Receipt,
         Finalize, AlreadyPaid, LostRace, RefundAccepted, RefundRefused, RefundBlankAnswer,
         RefundMark, RefundLogRead, RefundLogWrite, ReconcilePoll, ReconcileGiveUp,
         ReconcileFound, ReconcileNotFound, ReconcileSweep
    <3> QED
      BY <3>1, StatusStays
  <2> QED
    BY <1>3, <2>3, <2>4, <2>5, <2>6, <2>7, <2>8 DEF Continue
<1>4. ASSUME NEW r \in Request, ContractEnds(r) PROVE Contest!Next
  BY <1>4, StatusLeaves DEF ContractEnds, RequestStatus
<1>5. ASSUME UNCHANGED status PROVE UNCHANGED Contest!vars
  BY <1>5, StatusStays
<1> QED
  BY <1>1, <1>2, <1>3, <1>4, <1>5 DEF Next, WindowLapses, TenantPays, Crash

\* The handlers of the holding deposits implement the abstract competition:
\* the first payment that is finalised wins the property against everybody.
THEOREM DepositsImplementAward == Spec => DepositsAward
<1>1. Contest!Init /\ [][Contest!Next]_(Contest!vars) <=> DepositsAward
  BY DEF DepositsAward, Contest!Spec
<1> QED
  BY <1>1, ContestStarts, ContestStep, DepositInvariant, PTL DEF Spec

-----------------------------------------------------------------------------
(* Refunds.  A refund is recorded after a gateway's answer, and VNPay's may *)
(* be blank: what a job knows when it records one, and what the row of the *)
(* payment has to say for that.                                            *)

TakenToVnpay(p) == \E o \in orders : o.pay = p /\ o.via = "vnpay"
Backed(p) == (\E o \in returned : o.pay = p) \/ TakenToVnpay(p)

Recording == {"refundMark", "refundLogRead", "refundLogWrite"}

RefundKnown(j) ==
    /\ j.pc \in Recording => Backed(j.pay)
    /\ j.pc \in WithReceipt /\ j.method = "vnpay" => TakenToVnpay(j.pay)

\* A payment whose method is VNPay was taken there, and its receipt is that of
\* an order of its own.
RefundInv ==
    /\ DepositInv
    /\ \A a \in Slot : RefundKnown(job[a])
    /\ \A p \in Payment : payMethod[p] = "vnpay" => TakenToVnpay(p)
    /\ \A p \in Payment : transOf[p] = NoOrder \/ transOf[p].pay = p
    /\ RefundBacked

\* What one step may change of all that.
RefundStep ==
    /\ orders \subseteq orders' /\ returned \subseteq returned'
    /\ \A p \in Payment : payMethod'[p] = payMethod[p] \/ payMethod'[p] # "vnpay"
                          \/ TakenToVnpay(p)'
    /\ \A p \in Payment : transOf'[p] = transOf[p] \/ transOf'[p].pay = p
    /\ \A p \in Payment : /\ payStatus'[p] = "refunded" => payStatus[p] = "refunded" \/ Backed(p)
                          /\ refundLogs'[p] > 0 => refundLogs[p] > 0 \/ Backed(p)
    /\ \A a \in Slot : job'[a] = job[a] \/ RefundKnown(job[a])'

LEMMA RefundsKept ==
    ASSUME RefundInv, DepositInv', RefundStep
    PROVE  RefundInv'
<1>1. ASSUME NEW p, TakenToVnpay(p) PROVE TakenToVnpay(p)'
  BY <1>1 DEF TakenToVnpay, RefundStep
<1>2. ASSUME NEW p, Backed(p) PROVE Backed(p)'
  BY <1>1, <1>2 DEF Backed, RefundStep
<1>3. ASSUME NEW a \in Slot PROVE RefundKnown(job[a])'
  <2>1. RefundKnown(job[a]) /\ (job'[a] = job[a] \/ RefundKnown(job[a])')
    BY DEF RefundInv, RefundStep
  <2> QED
    BY <1>1, <1>2, <2>1 DEF RefundKnown
<1>4. \A p \in Payment : payMethod'[p] = "vnpay" => TakenToVnpay(p)'
  BY <1>1 DEF RefundInv, RefundStep
<1>5. \A p \in Payment : transOf'[p] = NoOrder \/ transOf'[p].pay = p
  BY DEF RefundInv, RefundStep
<1>6. ASSUME NEW p \in Payment, payStatus'[p] = "refunded" \/ refundLogs'[p] > 0 PROVE Backed(p)'
  <2>1. Backed(p)
    BY <1>6 DEF RefundInv, RefundStep, RefundBacked, Backed, TakenToVnpay
  <2> QED
    BY <1>2, <2>1
<1> QED
  BY <1>3, <1>4, <1>5, <1>6 DEF RefundInv, RefundBacked, Backed, TakenToVnpay

\* One job moves, the others stand still.
LEMMA JobMoves ==
    ASSUME DepositInv, NEW a \in Slot, NEW j, job' = [job EXCEPT ![a] = j]
    PROVE  job'[a] = j /\ \A b \in Slot \ {a} : job'[b] = job[b]
BY DEF DepositInv, TypeOK

\* What is left of a job when it goes to another label or ends.
LEMMA JobGoes ==
    ASSUME DepositInv, NEW a \in Slot
    PROVE  /\ Finish(a) => job'[a].pc \in {"idle", "sweep"}
           /\ \A l : Goto(a, l) => /\ job'[a].pc = l /\ job'[a].req = job[a].req
                                   /\ job'[a].pay = job[a].pay /\ job'[a].order = job[a].order
                                   /\ job'[a].method = job[a].method
                                   /\ job'[a].batch = job[a].batch
           /\ \A l : Carry(a, l) => /\ job'[a].pc = l /\ job'[a].req = job[a].req
                                    /\ job'[a].pay = job[a].pay
           /\ Finish(a) \/ (\E l : Goto(a, l) \/ Carry(a, l))
                => \A b \in Slot \ {a} : job'[b] = job[b]
<1>1. job \in [Slot -> Job] /\ job[a] \in Job
  BY DEF DepositInv, TypeOK
<1>2. Finish(a) => job'[a].pc \in {"idle", "sweep"} /\ \A b \in Slot \ {a} : job'[b] = job[b]
  BY <1>1 DEF Finish, RequestJob, Job
<1>3. ASSUME NEW l, Goto(a, l)
      PROVE  /\ job'[a].pc = l /\ job'[a].req = job[a].req
             /\ job'[a].pay = job[a].pay /\ job'[a].order = job[a].order
             /\ job'[a].method = job[a].method /\ job'[a].batch = job[a].batch
             /\ \A b \in Slot \ {a} : job'[b] = job[b]
  BY <1>1, <1>3 DEF Goto, Job
<1>4. ASSUME NEW l, Carry(a, l)
      PROVE  /\ job'[a].pc = l /\ job'[a].req = job[a].req
             /\ job'[a].pay = job[a].pay
             /\ \A b \in Slot \ {a} : job'[b] = job[b]
  BY <1>1, <1>4 DEF Carry, DepositJob
<1> QED
  BY <1>2, <1>3, <1>4

\* A job that goes on with a deposit of its own, and one that is over.
LEMMA JobRenewed ==
    ASSUME DepositInv, NEW a \in Slot
    PROVE  /\ \A p : GoPay(a, p) => /\ job'[a].pc = "payRecord" /\ job'[a].req = job[a].req
                                    /\ job'[a].pay = p /\ job'[a].method = job[a].method
                                    /\ \A b \in Slot \ {a} : job'[b] = job[b]
           /\ job' = [job EXCEPT ![a] = IdleJob]
                => job'[a].pc = "idle" /\ \A b \in Slot \ {a} : job'[b] = job[b]
<1>1. job \in [Slot -> Job] /\ job[a] \in Job
  BY DEF DepositInv, TypeOK
<1>2. ASSUME NEW p, GoPay(a, p)
      PROVE  /\ job'[a].pc = "payRecord" /\ job'[a].req = job[a].req
             /\ job'[a].pay = p /\ job'[a].method = job[a].method
             /\ \A b \in Slot \ {a} : job'[b] = job[b]
  BY <1>1, <1>2 DEF GoPay, DepositJob
<1>3. job' = [job EXCEPT ![a] = IdleJob]
      => job'[a].pc = "idle" /\ \A b \in Slot \ {a} : job'[b] = job[b]
  BY <1>1 DEF IdleJob, RequestJob
<1> QED
  BY <1>2, <1>3

\* A job that reads the payment for a notification knows the method it has.
LEMMA ReadKnown ==
    ASSUME RefundInv, NEW o \in captured, NEW l \in WithReceipt, NEW t
    PROVE  /\ RefundKnown(WebhookRead(o, t))
           /\ RefundKnown(DepositJob(l, payReq[o.pay], o.pay, o, payMethod[o.pay], t))
<1>1. o.pay \in Payment /\ (payMethod[o.pay] = "vnpay" => TakenToVnpay(o.pay))
  BY DEF RefundInv, DepositInv, TypeOK, RowsTyped, Order
<1>2. ASSUME NEW k \in WithReceipt
      PROVE  RefundKnown(DepositJob(k, payReq[o.pay], o.pay, o, payMethod[o.pay], t))
  BY <1>1 DEF DepositJob, RefundKnown, WithReceipt, Recording
<1>3. RefundKnown(DepositJob("finalize", payReq[o.pay], o.pay, NoOrder, "none", t))
  BY DEF DepositJob, RefundKnown, WithReceipt, Recording
<1> QED
  BY <1>2, <1>3 DEF WebhookRead, WithReceipt

\* What a job knows of a refund stays true as long as the job stands still.
LEMMA KnownStays ==
    ASSUME orders \subseteq orders', returned \subseteq returned', NEW j, RefundKnown(j)
    PROVE  RefundKnown(j)'
BY DEF RefundKnown, Backed, TakenToVnpay

RefundRowsStand == UNCHANGED <<payStatus, payMethod, transOf, refundLogs, orders, returned>>

LEMMA RefundArrive ==
    ASSUME RefundInv, NEW a \in Slot, Arrive(a)
    PROVE  RefundStep
<1> USE DEF paymentVars, moneyVars, gatewayVars, requestVars
<1>1. RefundRowsStand
  BY DEF RefundRowsStand, Arrive, CreateRequestCheck, TakeUpCheck, RejectCheck, CancelCheck,
     PayCheck, ContractCheck, OpenCheck, ConfirmStart, MomoIpn, VnpayIpn, ReconcileFind, ExpireFind
<1>2. PICK j : job' = [job EXCEPT ![a] = j] /\ RefundKnown(j)
  <2>1. CASE "ipn" \in Handlers /\ \E o \in captured : MomoIpn(a, o) \/ VnpayIpn(a, o)
    <3>1. PICK o \in captured : MomoIpn(a, o) \/ VnpayIpn(a, o)
      BY <2>1
    <3>2. CASE MomoIpn(a, o)
      BY <3>2, ReadKnown DEF MomoIpn, Begin, WithReceipt
    <3>3. CASE VnpayIpn(a, o)
      BY <3>3, ReadKnown DEF VnpayIpn, Begin, WithReceipt
    <3> QED
      BY <3>1, <3>2, <3>3
  <2>2. CASE ~("ipn" \in Handlers /\ \E o \in captured : MomoIpn(a, o) \/ VnpayIpn(a, o))
    <3>1. PICK j : job' = [job EXCEPT ![a] = j] /\ j.pc \notin Recording \cup WithReceipt
      BY <2>2 DEF Arrive, CreateRequestCheck, TakeUpCheck, RejectCheck, CancelCheck,
         PayCheck, ContractCheck, OpenCheck, ConfirmStart, ReconcileFind, ExpireFind,
         Begin, RequestJob, BatchJob, DepositJob, Recording, WithReceipt
    <3> QED
      BY <3>1 DEF RefundKnown
  <2> QED
    BY <2>1, <2>2
<1>3. job'[a] = j /\ \A b \in Slot \ {a} : job'[b] = job[b]
  BY <1>2, JobMoves DEF RefundInv
<1>4. RefundKnown(j)'
  BY <1>1, <1>2, KnownStays DEF RefundRowsStand
<1> QED
  BY <1>1, <1>3, <1>4 DEF RefundStep, RefundRowsStand, RefundKnown

\* A job that goes on without a receipt and without a refund to record.
LEMMA RefundContinue ==
    ASSUME RefundInv, NEW a \in Slot, Continue(a)
    PROVE  RefundStep
<1> USE DEF paymentVars, moneyVars, gatewayVars, requestVars
<1>0. /\ DepositInv /\ TypeOK /\ RefundKnown(job[a]) /\ JobKnows(job[a])
      /\ job[a].method = "vnpay" /\ job[a].pc \in WithReceipt => TakenToVnpay(job[a].pay)
      /\ job[a].pc \in OnDeposit => job[a].pay \in Payment
  BY DEF RefundInv, DepositInv, RefundKnown, JobKnows
<1>1. CASE \/ CreateRequestInsert(a) \/ ReviewWrite(a) \/ OpenWrite(a) \/ CancelWrite(a)
           \/ PayExpired(a) \/ PayLookup(a) \/ PayRefused(a) \/ PayRecord(a)
           \/ ConfirmRead(a) \/ ConfirmBound(a) \/ WalletRead(a) \/ WalletRefused(a)
           \/ Finalize(a) \/ AlreadyPaid(a) \/ MarkRefunded(a) \/ LostRace(a) \/ Promote(a)
           \/ RefundRefused(a) \/ ReconcilePoll(a) \/ ReconcileNotFound(a)
           \/ ExpireWrite(a) \/ ContractWrite(a)
  <2>1. RefundRowsStand
    BY <1>1 DEF RefundRowsStand, CreateRequestInsert, ReviewWrite, OpenWrite, CancelWrite,
       PayExpired, PayLookup, PayRefused, PayRecord, ConfirmRead, ConfirmBound, WalletRead,
       WalletRefused, Finalize, AlreadyPaid, MarkRefunded, LostRace, Promote, RefundRefused,
       ReconcilePoll, ReconcileNotFound, ExpireWrite, ContractWrite
  <2>2. \/ Finish(a) \/ (\E p \in Payment : GoPay(a, p))
        \/ \E l \in Pc \ (Recording \cup WithReceipt) : Goto(a, l)
    BY <1>1 DEF CreateRequestInsert, ReviewWrite, OpenWrite, CancelWrite,
       PayExpired, PayLookup, LiveDeposits, PayRefused, PayRecord, ConfirmRead, ConfirmBound,
       WalletRead, WalletRefused, Finalize, AlreadyPaid, MarkRefunded, LostRace, Promote,
       RefundRefused, ReconcilePoll, ReconcileNotFound, ExpireWrite, ContractWrite,
       Pc, Recording, WithReceipt
  <2>3. job'[a].pc \notin Recording \cup WithReceipt /\ \A b \in Slot \ {a} : job'[b] = job[b]
    <3>1. CASE \E p \in Payment : GoPay(a, p)
      BY <1>0, <3>1, JobRenewed DEF Recording, WithReceipt
    <3>2. CASE Finish(a) \/ \E l \in Pc \ (Recording \cup WithReceipt) : Goto(a, l)
      BY <1>0, <3>2, JobGoes DEF Recording, WithReceipt
    <3> QED
      BY <2>2, <3>1, <3>2
  <2> QED
    BY <2>1, <2>3 DEF RefundStep, RefundRowsStand, RefundKnown
<1>2. CASE PayCreate(a) \/ ReconcileGiveUp(a) \/ ReconcileSweep(a)
  <2>1. /\ UNCHANGED <<payMethod, transOf, refundLogs, orders, returned>>
        /\ \A p \in Payment : payStatus'[p] = "refunded" => payStatus[p] = "refunded"
    BY <1>0, <1>2 DEF PayCreate, ReconcileGiveUp, ReconcileSweep, SetPayStatus, TypeOK, RowsTyped
  <2>2. Finish(a) \/ (\E p \in Payment : GoPay(a, p)) \/ job' = [job EXCEPT ![a] = IdleJob]
    BY <1>2 DEF PayCreate, ReconcileGiveUp, ReconcileSweep
  <2>3. job'[a].pc \notin Recording \cup WithReceipt /\ \A b \in Slot \ {a} : job'[b] = job[b]
    <3>1. CASE \E p \in Payment : GoPay(a, p)
      BY <1>0, <3>1, JobRenewed DEF Recording, WithReceipt
    <3>2. CASE Finish(a)
      BY <1>0, <3>2, JobGoes DEF Recording, WithReceipt
    <3>3. CASE job' = [job EXCEPT ![a] = IdleJob]
      BY <1>0, <3>3, JobRenewed DEF Recording, WithReceipt
    <3> QED
      BY <2>2, <3>1, <3>2, <3>3
  <2> QED
    BY <2>1, <2>3 DEF RefundStep, RefundKnown
<1>3. CASE WalletCommit(a)
  <2>1. /\ UNCHANGED <<transOf, refundLogs, orders, returned>>
        /\ \A p \in Payment : /\ payStatus'[p] = "refunded" => payStatus[p] = "refunded"
                              /\ payMethod'[p] \in {payMethod[p], "other"}
    BY <1>0, <1>3 DEF WalletCommit, SetPayStatus, TypeOK, RowsTyped
  <2>2. job'[a].pc \notin Recording \cup WithReceipt /\ \A b \in Slot \ {a} : job'[b] = job[b]
    BY <1>0, <1>3, JobGoes DEF WalletCommit, Recording, WithReceipt
  <2> QED
    BY <2>1, <2>2 DEF RefundStep, RefundKnown
<1>4. CASE ConfirmWrite(a)
  <2>1. PICK p \in Payment : p = job[a].pay
    BY <1>0, <1>4 DEF ConfirmWrite, At, OnDeposit
  <2>2. /\ UNCHANGED <<payStatus, transOf, refundLogs, returned>> /\ orders \subseteq orders'
        /\ payMethod' = [payMethod EXCEPT ![p] = job[a].method]
        /\ Finish(a) \/ Goto(a, "walletRead")
    BY <1>4, <2>1 DEF ConfirmWrite
  <2>3. job[a].method = "vnpay" => TakenToVnpay(p)'
    <3>1. [pay |-> p, via |-> job[a].method, code |-> payCode[p] + 1] \in orders'
          \/ job[a].method # "vnpay"
      BY <1>4, <2>1 DEF ConfirmWrite, Gateway
    <3> QED
      BY <3>1 DEF TakenToVnpay
  <2>4. \A q \in Payment : payMethod'[q] = payMethod[q] \/ payMethod'[q] # "vnpay"
                           \/ TakenToVnpay(q)'
    BY <1>0, <2>1, <2>2, <2>3 DEF TypeOK, RowsTyped
  <2>5. job'[a].pc \notin Recording \cup WithReceipt /\ \A b \in Slot \ {a} : job'[b] = job[b]
    BY <1>0, <2>2, JobGoes DEF Recording, WithReceipt
  <2> QED
    BY <2>2, <2>4, <2>5 DEF RefundStep, RefundKnown
<1>5. CASE WebhookCommit(a) \/ VnpayCommit(a)
  <2>1. job[a].pay \in Payment /\ job[a].order.pay = job[a].pay /\ job[a].pc \in WithReceipt
    BY <1>0, <1>5 DEF WebhookCommit, VnpayCommit, At, OnDeposit, WithOrder, WithReceipt, JobKnows
  <2>2. Receipt(a) /\ UNCHANGED <<refundLogs, orders, returned>>
    BY <1>5 DEF WebhookCommit, VnpayCommit, Receipt
  <2>3. \A p \in Payment : payMethod'[p] = payMethod[p] \/ payMethod'[p] # "vnpay"
                           \/ TakenToVnpay(p)'
    BY <1>0, <2>1, <2>2 DEF Receipt, TypeOK, RowsTyped, TakenToVnpay
  <2>4. \A p \in Payment : /\ payStatus'[p] = "refunded" => payStatus[p] = "refunded"
                           /\ transOf'[p] = transOf[p] \/ transOf'[p].pay = p
    BY <1>0, <2>1, <2>2 DEF Receipt, SetPayStatus, TypeOK, RowsTyped
  <2>5. job'[a].pc \notin Recording \cup WithReceipt /\ \A b \in Slot \ {a} : job'[b] = job[b]
    BY <1>0, <1>5, JobGoes DEF WebhookCommit, VnpayCommit, Recording, WithReceipt
  <2> QED
    BY <2>2, <2>3, <2>4, <2>5 DEF RefundStep, RefundKnown
<1>6. CASE RefundAccepted(a)
  <2>1. PICK p \in Payment : p = job[a].pay
    BY <1>0, <1>6 DEF RefundAccepted, At, OnDeposit
  <2>2. PICK o \in RefundTarget(p) : returned' = returned \cup {o}
    BY <1>6, <2>1 DEF RefundAccepted
  <2>3. o.pay = p
    <3>1. o \in Order /\ (transOf[p] = o \/ o.pay = p)
      BY <1>0, <2>2 DEF RefundTarget, TypeOK, RowsTyped
    <3> QED
      BY <2>1, <3>1, OrderAssumption DEF RefundInv
  <2>4. Backed(p)'
    BY <2>2, <2>3 DEF Backed
  <2>5. UNCHANGED <<payStatus, payMethod, transOf, refundLogs, orders>> /\ returned \subseteq returned'
    BY <1>6, <2>2 DEF RefundAccepted
  <2>6. RefundKnown(job[a])' /\ \A b \in Slot \ {a} : job'[b] = job[b]
    <3>1. /\ job'[a].pc \notin WithReceipt
          /\ job'[a].pc \in Recording => job'[a].pay = p
          /\ \A b \in Slot \ {a} : job'[b] = job[b]
      BY <1>0, <1>6, <2>1, JobGoes DEF RefundAccepted, Recording, WithReceipt
    <3> QED
      BY <2>4, <3>1 DEF RefundKnown
  <2> QED
    BY <2>5, <2>6 DEF RefundStep
<1>7. CASE RefundBlankAnswer(a) \/ RefundMark(a) \/ RefundLogRead(a) \/ RefundLogWrite(a)
  <2>1. PICK p \in Payment : p = job[a].pay /\ Backed(p)
    BY <1>0, <1>7 DEF RefundBlankAnswer, RefundMark, RefundLogRead, RefundLogWrite, At,
       OnDeposit, Recording, RefundKnown, RefundInv, Backed
  <2>2. /\ UNCHANGED <<payMethod, transOf, orders, returned>>
        /\ \A q \in Payment \ {p} : payStatus'[q] = payStatus[q] /\ refundLogs'[q] = refundLogs[q]
    BY <1>0, <1>7, <2>1 DEF RefundBlankAnswer, RefundMark, RefundLogRead, RefundLogWrite, SetPayStatus,
       TypeOK, RowsTyped
  <2>3. Backed(p)'
    BY <2>1, <2>2 DEF Backed, TakenToVnpay
  <2>4. RefundKnown(job[a])' /\ \A b \in Slot \ {a} : job'[b] = job[b]
    <3>1. Finish(a) \/ \E l \in Recording : Goto(a, l)
      BY <1>7 DEF RefundBlankAnswer, RefundMark, RefundLogRead, RefundLogWrite, Recording
    <3>2. /\ job'[a].pc \notin WithReceipt
          /\ job'[a].pc \in Recording => job'[a].pay = p
          /\ \A b \in Slot \ {a} : job'[b] = job[b]
      BY <1>0, <2>1, <3>1, JobGoes DEF Recording, WithReceipt
    <3> QED
      BY <2>3, <3>2 DEF RefundKnown
  <2> QED
    BY <2>1, <2>2, <2>4 DEF RefundStep
<1>8. CASE ReconcileFound(a)
  <2>1. RefundRowsStand /\ job[a].order \in captured
        /\ job' = [job EXCEPT ![a] = WebhookRead(job[a].order, "sweep")]
    BY <1>8 DEF ReconcileFound, RefundRowsStand
  <2>2. PICK j : job' = [job EXCEPT ![a] = j] /\ RefundKnown(j)
    BY <2>1, ReadKnown DEF WithReceipt
  <2>3. RefundKnown(j)' /\ job'[a] = j /\ \A b \in Slot \ {a} : job'[b] = job[b]
    BY <1>0, <2>1, <2>2, KnownStays, JobMoves DEF RefundRowsStand
  <2> QED
    BY <2>1, <2>3 DEF RefundStep, RefundRowsStand, RefundKnown
<1> QED
  BY <1>1, <1>2, <1>3, <1>4, <1>5, <1>6, <1>7, <1>8 DEF Continue

LEMMA RefundNext == RefundInv /\ [Next]_vars => RefundInv'
<1> SUFFICES ASSUME RefundInv, [Next]_vars PROVE RefundInv'
  OBVIOUS
<1> USE DEF paymentVars, moneyVars, gatewayVars, requestVars
<1>1. DepositInv'
  BY DepositInvNext DEF RefundInv
<1>2. CASE \E a \in Slot : Arrive(a) \/ Continue(a)
  BY <1>1, <1>2, RefundArrive, RefundContinue, RefundsKept
<1>3. ASSUME RefundRowsStand, UNCHANGED job PROVE RefundInv'
  BY <1>1, <1>3, RefundsKept DEF RefundRowsStand, RefundStep
<1>4. CASE UNCHANGED vars
  BY <1>3, <1>4 DEF vars, RefundRowsStand
<1>5. CASE \E r \in Request : ContractEnds(r) \/ WindowLapses(r)
  BY <1>3, <1>5 DEF ContractEnds, WindowLapses, RefundRowsStand
<1>6. CASE \E o \in orders : TenantPays(o)
  BY <1>3, <1>6 DEF TenantPays, RefundRowsStand
<1>7. CASE Crash
  <2>1. RefundRowsStand /\ \A a \in Slot : job'[a].pc = "idle"
    BY <1>7 DEF Crash, RefundRowsStand, IdleJob, RequestJob
  <2>2. RefundStep
    BY <2>1 DEF RefundStep, RefundRowsStand, RefundKnown, Recording, WithReceipt
  <2> QED
    BY <1>1, <2>2, RefundsKept
<1> QED
  BY <1>2, <1>4, <1>5, <1>6, <1>7 DEF Next

LEMMA RefundInit == Init => RefundInv
<1> SUFFICES ASSUME Init PROVE RefundInv
  OBVIOUS
<1>1. DepositInv
  BY DepositInvInit
<1>2. \A a \in Slot : RefundKnown(job[a])
  BY DEF Init, IdleJob, RequestJob, RefundKnown, Recording, WithReceipt
<1> QED
  BY <1>1, <1>2 DEF Init, RefundInv, RefundBacked

\* A deposit is recorded as refunded, and its owner is debited for the refund,
\* only after MoMo gave the money back, unless the deposit was taken to VNPay.
THEOREM RefundsBacked == Spec => []RefundBacked
<1>1. RefundInv => RefundBacked
  BY DEF RefundInv
<1> QED
  BY <1>1, RefundInit, RefundNext, PTL DEF Spec

-----------------------------------------------------------------------------
(* One handler at a time.  With a single slot what a job read is still so  *)
(* when it writes, and the competition keeps three more promises.          *)

Sole == \A a, b \in Slot : a = b

\* Statuses of a request nothing has been decided of, and those it ends with
\* when its deposit goes back or its contract is over.
Early == {"none", "pending", "under_review", "holding_deposit_open"}
Ended == {"holding_deposit_refunded", "expired"}

\* What a job still finds when it writes.
Fresh(j) ==
    /\ j.pc \in {"create", "takeUp", "reject", "cancel", "payExpired"} => status[j.req] \in Early
    /\ j.pc \in {"open", "expire"} => \A r \in j.batch : status[r] \in Early
    /\ j.pc = "contract" => status[j.req] = "holding_deposit_paid"
    /\ j.pc = "sawOpen" => status[j.req] = "holding_deposit_open"
    /\ j.pc \in {"refund", "refundMark"} => status[j.req] \in Ended

\* A request a contract was made from, and one whose deposit went back, never
\* compete again; a deposit is recorded at the request it was paid for.
SerialInv ==
    /\ DepositInv
    /\ \A a \in Slot : Fresh(job[a])
    /\ \A r \in contracted : status[r] \in {"contract_created"} \cup Ended
    /\ \A r \in Request : depositOf[r] # NoPayment => payReq[depositOf[r]] = r
    /\ \A p \in Payment : payStatus[p] = "refunded" => status[payReq[p]] \in Ended
    /\ AtMostOneHolder

\* What one step may change of that.
SerialStep ==
    /\ \A r \in Request : \/ status'[r] = status[r] \/ status[r] \in Early
                          \/ status'[r] \in Ended
                          \/ status[r] = "holding_deposit_paid" /\ status'[r] = "contract_created"
    /\ \A r \in contracted' : r \in contracted \/ status'[r] = "contract_created"
    /\ \A r \in Request : status'[r] \in Winning
         => status[r] \in Winning \/ \A q \in Rivals(r) : status'[q] \notin Winning
    /\ \A r \in Request : depositOf'[r] = depositOf[r]
                          \/ (depositOf'[r] \in Payment /\ payReq[depositOf'[r]] = r)
    /\ \A p \in Payment : payStatus'[p] = "refunded"
         => \/ payStatus[p] = "refunded"
            \/ payReq[p] \in Request /\ status'[payReq[p]] \in Ended
    /\ \A p \in Payment : payReq[p] # NoRequest => payReq'[p] = payReq[p]
    /\ \A a \in Slot : Fresh(job[a])'

LEMMA SerialKept ==
    ASSUME SerialInv, DepositInv', SerialStep
    PROVE  SerialInv'
<1> USE DEF SerialInv, SerialStep
<1>0. TypeOK /\ DepositsHaveRequests
  BY DEF DepositInv
<1>1. \A r \in contracted' : status'[r] \in {"contract_created"} \cup Ended
  <2>1. TAKE r \in contracted'
  <2>2. r \in Request
    BY <2>1 DEF DepositInv, TypeOK, RowsTyped
  <2> QED
    BY <2>2 DEF Early, Ended
<1>2. \A r \in Request : depositOf'[r] # NoPayment => payReq'[depositOf'[r]] = r
  BY <1>0, RequestAssumption DEF TypeOK, RowsTyped
<1>3. \A p \in Payment : payStatus'[p] = "refunded" => status'[payReq'[p]] \in Ended
  <2>1. TAKE p \in Payment
  <2>2. HAVE payStatus'[p] = "refunded"
  <2>3. CASE payStatus[p] = "refunded"
    <3>1. payReq[p] \in Request /\ payReq'[p] = payReq[p] /\ status[payReq[p]] \in Ended
      BY <1>0, <2>3, RequestAssumption DEF DepositsHaveRequests
    <3> QED
      BY <3>1 DEF Early, Ended
  <2>4. CASE payStatus[p] # "refunded"
    BY <2>2, <2>4, RequestAssumption
  <2> QED
    BY <2>3, <2>4
<1>4. AtMostOneHolder'
  BY DEF AtMostOneHolder, Rivals
<1> QED
  BY <1>1, <1>2, <1>3, <1>4

\* A step that leaves the requests and the requests of the payments alone.
RequestsHold ==
    /\ UNCHANGED <<status, contracted, depositOf>>
    /\ \A p \in Payment : payReq[p] # NoRequest => payReq'[p] = payReq[p]
    /\ \A p \in Payment : payStatus'[p] = "refunded" => payStatus[p] = "refunded"

LEMMA RequestsHeld ==
    ASSUME SerialInv, RequestsHold, \A a \in Slot : Fresh(job[a])'
    PROVE  SerialStep
BY DEF RequestsHold, SerialStep, Fresh

\* Where a job may stand whatever the request is by now.
Careless == Pc \ {"create", "takeUp", "reject", "cancel", "payExpired", "open", "expire",
                  "contract", "sawOpen", "refund", "refundMark"}

LEMMA SerialArrive ==
    ASSUME SerialInv, Sole, NEW a \in Slot, Arrive(a)
    PROVE  SerialStep
<1> USE DEF paymentVars, moneyVars, gatewayVars, requestVars
<1>1. RequestsHold
  BY DEF RequestsHold, Arrive, CreateRequestCheck, TakeUpCheck, RejectCheck, CancelCheck,
     PayCheck, ContractCheck, OpenCheck, ConfirmStart, MomoIpn, VnpayIpn, ReconcileFind, ExpireFind
<1>2. PICK j : job' = [job EXCEPT ![a] = j] /\ Fresh(j)
  <2>1. CASE \E r \in Request :
               \/ CreateRequestCheck(a, r) \/ TakeUpCheck(a, r) \/ RejectCheck(a, r)
               \/ CancelCheck(a, r) \/ ContractCheck(a, r)
               \/ \E m \in Method : PayCheck(a, r, m)
    <3>1. PICK r \in Request, l \in Pc, m \in Method \cup {"none"} :
              /\ Begin(a, RequestJob(l, r, m))
              /\ l = "contract" => status[r] = "holding_deposit_paid"
              /\ l # "contract" => status[r] \in Early /\ l \in OnRequest
      BY <2>1 DEF CreateRequestCheck, TakeUpCheck, RejectCheck, CancelCheck, ContractCheck,
         PayCheck, Early, OnRequest, Pc
    <3>2. Fresh(RequestJob(l, r, m))
      BY <3>1 DEF Fresh, RequestJob, OnRequest
    <3> QED
      BY <3>1, <3>2 DEF Begin
  <2>2. CASE (\E R \in SUBSET Request : OpenCheck(a, R)) \/ ExpireFind(a)
    <3>1. PICK l \in {"open", "expire"}, R \in SUBSET Request :
              Begin(a, BatchJob(l, R)) /\ \A r \in R : status[r] \in Early
      BY <2>2 DEF OpenCheck, ExpireFind, Early
    <3>2. Fresh(BatchJob(l, R))
      BY <3>1 DEF Fresh, BatchJob
    <3> QED
      BY <3>1, <3>2 DEF Begin
  <2>3. CASE \/ \E p \in Payment : ReconcileFind(a, p) \/ \E m \in Method : ConfirmStart(a, p, m)
             \/ \E o \in captured : MomoIpn(a, o) \/ VnpayIpn(a, o)
    <3>1. PICK j : job' = [job EXCEPT ![a] = j] /\ j.pc \in Careless
      BY <2>3 DEF ReconcileFind, ConfirmStart, MomoIpn, VnpayIpn, WebhookRead, Begin, DepositJob,
         Careless, Pc
    <3> QED
      BY <3>1 DEF Fresh, Careless
  <2> QED
    BY <2>1, <2>2, <2>3 DEF Arrive
<1>3. job'[a] = j
  BY <1>2, JobMoves DEF SerialInv
<1>4. \A b \in Slot : Fresh(job[b])'
  BY <1>1, <1>2, <1>3 DEF RequestsHold, Sole, Fresh
<1> QED
  BY <1>1, <1>4, RequestsHeld

\* A write of statuses that ends a job which had looked at them.
LEMMA SerialWrite ==
    ASSUME SerialInv, Sole, NEW a \in Slot, Finish(a), NEW R \in SUBSET Request,
           NEW s \in RequestStatus, SetStatus(R, s), s \notin Winning \/ s = "contract_created",
           \A r \in R : \/ status[r] \in Early /\ s \notin Winning
                        \/ status[r] = "holding_deposit_paid" /\ s = "contract_created",
           \A r \in contracted' : r \in contracted \/ (r \in R /\ s = "contract_created"),
           UNCHANGED <<depositOf, payReq, payStatus>>
    PROVE  SerialStep
<1>1. \A r \in Request : status'[r] = IF r \in R THEN s ELSE status[r]
  BY DEF SetStatus
<1>2. \A b \in Slot : job'[b].pc \in {"idle", "sweep"}
  BY JobGoes DEF SerialInv, Sole
<1>3. \A b \in Slot : Fresh(job[b])'
  BY <1>2 DEF Fresh
<1>4. \A r \in contracted' : r \in contracted \/ status'[r] = "contract_created"
  BY <1>1
<1>5. \A r \in Request : status'[r] \in Winning => status[r] \in Winning
  BY <1>1 DEF Winning
<1>6. SerialInv => status \in [Request -> RequestStatus]
  BY DEF SerialInv, DepositInv, TypeOK, RowsTyped
<1> QED
  BY <1>1, <1>3, <1>4, <1>5 DEF SerialStep, Fresh

LEMMA SerialContinue ==
    ASSUME SerialInv, Sole, NEW a \in Slot, Continue(a)
    PROVE  SerialStep
<1> USE DEF paymentVars, moneyVars, gatewayVars, requestVars
<1>0. /\ DepositInv /\ Fresh(job[a]) /\ JobKnows(job[a]) /\ job[a] \in Job
      /\ job[a].batch \in SUBSET Request /\ TypeOK /\ DepositsHaveRequests
  BY DEF SerialInv, DepositInv, TypeOK, Job
<1>1. CASE CreateRequestInsert(a) \/ ReviewWrite(a) \/ CancelWrite(a) \/ PayExpired(a)
  <2>1. PICK r \in Request : r = job[a].req /\ status[r] \in Early
    BY <1>0, <1>1 DEF CreateRequestInsert, ReviewWrite, CancelWrite, PayExpired, At, Fresh,
       JobKnows, OnRequest
  <2>2. PICK s \in RequestStatus \ Winning : SetStatus({r}, s)
    BY <1>1, <2>1 DEF CreateRequestInsert, ReviewWrite, CancelWrite, PayExpired, RequestStatus,
       Winning
  <2>3. Finish(a) /\ UNCHANGED <<depositOf, payReq, payStatus, contracted>>
    BY <1>1 DEF CreateRequestInsert, ReviewWrite, CancelWrite, PayExpired
  <2> QED
    BY <2>1, <2>2, <2>3, SerialWrite
<1>2. CASE OpenWrite(a) \/ ExpireWrite(a)
  <2>1. PICK R \in SUBSET Request : R = job[a].batch /\ \A r \in R : status[r] \in Early
    BY <1>0, <1>2 DEF OpenWrite, ExpireWrite, At, Fresh
  <2>2. PICK s \in RequestStatus \ Winning : SetStatus(R, s)
    BY <1>2, <2>1 DEF OpenWrite, ExpireWrite, RequestStatus, Winning
  <2>3. Finish(a) /\ UNCHANGED <<depositOf, payReq, payStatus, contracted>>
    BY <1>2 DEF OpenWrite, ExpireWrite
  <2> QED
    BY <2>1, <2>2, <2>3, SerialWrite
<1>3. CASE ContractWrite(a)
  <2>1. PICK r \in Request : r = job[a].req /\ status[r] = "holding_deposit_paid"
    BY <1>0, <1>3 DEF ContractWrite, At, Fresh, JobKnows, OnRequest
  <2>2. /\ SetStatus({r}, "contract_created") /\ contracted' = contracted \cup {r}
        /\ Finish(a) /\ UNCHANGED <<depositOf, payReq, payStatus>>
    BY <1>3, <2>1 DEF ContractWrite
  <2>3. "contract_created" \in RequestStatus
    BY DEF RequestStatus
  <2> QED
    BY <2>1, <2>2, <2>3, SerialWrite
<1>4. CASE MarkRefunded(a)
  <2>1. PICK r \in Request : r = job[a].req /\ job[a].pay \in Payment /\ payReq[job[a].pay] = r
    BY <1>0, <1>4 DEF MarkRefunded, At, JobKnows, OnDeposit, AfterMoney
  <2>2. /\ \A q \in Request : status'[q] = IF q = r THEN "holding_deposit_refunded" ELSE status[q]
        /\ depositOf' = [depositOf EXCEPT ![r] = job[a].pay]
        /\ Goto(a, "refund") /\ UNCHANGED <<contracted, payReq, payStatus>>
    BY <1>4, <2>1 DEF MarkRefunded, SetStatus
  <2>3. \A q \in Request : depositOf'[q] = depositOf[q]
                           \/ (depositOf'[q] \in Payment /\ payReq[depositOf'[q]] = q)
    BY <1>0, <2>1, <2>2 DEF TypeOK, RowsTyped
  <2>4. job'[a].pc = "refund" /\ job'[a].req = r
    BY <1>0, <2>1, <2>2, JobGoes
  <2>5. \A b \in Slot : Fresh(job[b])'
    BY <2>2, <2>4 DEF Sole, Fresh, Ended
  <2> QED
    BY <2>2, <2>3, <2>5 DEF SerialStep, Fresh, Ended, Winning
<1>5. CASE Promote(a)
  <2>1. PICK r \in Request : r = job[a].req /\ job[a].pay \in Payment /\ payReq[job[a].pay] = r
    BY <1>0, <1>5 DEF Promote, MayPromote, At, JobKnows, OnDeposit, AfterMoney
  <2>2. /\ status' = [q \in Request |->
                        IF q = r THEN "holding_deposit_paid"
                        ELSE IF q \in Rivals(r) /\ status[q] = "holding_deposit_open"
                        THEN "holding_deposit_locked" ELSE status[q]]
        /\ depositOf' = [depositOf EXCEPT ![r] = job[a].pay] /\ status[r] = "holding_deposit_open"
        /\ \A q \in Rivals(r) : status[q] \notin Winning
        /\ Finish(a) /\ UNCHANGED <<contracted, payReq, payStatus>>
    BY <1>5, <2>1 DEF Promote, MayPromote, HasWinner
  <2>3. \A q \in Request : depositOf'[q] = depositOf[q]
                           \/ (depositOf'[q] \in Payment /\ payReq[depositOf'[q]] = q)
    BY <1>0, <2>1, <2>2 DEF TypeOK, RowsTyped
  <2>4. \A b \in Slot : job'[b].pc \in {"idle", "sweep"}
    BY <1>0, <2>2, JobGoes DEF Sole
  <2>5. \A b \in Slot : Fresh(job[b])'
    BY <2>4 DEF Fresh
  <2>6. \A q \in Request : \/ status'[q] = status[q]
                           \/ status[q] \in Early /\ (q = r \/ status'[q] \notin Winning)
    BY <2>2 DEF Early, Winning
  <2>7. \A q \in Rivals(r) : status'[q] \notin Winning
    BY <2>2 DEF Rivals, Winning
  <2>8. \A q \in Request : status'[q] \in Winning
          => status[q] \in Winning \/ \A x \in Rivals(q) : status'[x] \notin Winning
    BY <2>6, <2>7
  <2> QED
    BY <2>2, <2>3, <2>5, <2>6, <2>8 DEF SerialStep, Fresh
<1>6. CASE \/ PayLookup(a) \/ PayCreate(a) \/ PayRefused(a) \/ ConfirmRead(a) \/ ConfirmWrite(a)
           \/ ConfirmBound(a) \/ WalletRead(a) \/ WalletRefused(a) \/ WalletCommit(a)
           \/ WebhookCommit(a) \/ VnpayCommit(a) \/ AlreadyPaid(a)
           \/ RefundRefused(a) \/ RefundLogRead(a) \/ RefundLogWrite(a)
           \/ ReconcilePoll(a) \/ ReconcileGiveUp(a) \/ ReconcileFound(a) \/ ReconcileNotFound(a)
           \/ ReconcileSweep(a)
  <2>1. RequestsHold
    BY <1>0, <1>6 DEF RequestsHold, PayLookup, PayCreate, PayRefused, ConfirmRead, ConfirmWrite,
       ConfirmBound, WalletRead, WalletRefused, WalletCommit, WebhookCommit, VnpayCommit, Receipt,
       AlreadyPaid, RefundRefused, RefundLogRead, RefundLogWrite, ReconcilePoll,
       ReconcileGiveUp, ReconcileFound, ReconcileNotFound, ReconcileSweep, SetPayStatus,
       TypeOK, RowsTyped
  <2>2. \/ Finish(a) \/ (\E p \in Payment : GoPay(a, p)) \/ job' = [job EXCEPT ![a] = IdleJob]
        \/ (\E l \in Careless : Goto(a, l) \/ Carry(a, l))
        \/ job' = [job EXCEPT ![a] = WebhookRead(job[a].order, "sweep")]
    BY <1>6 DEF PayLookup, LiveDeposits, PayCreate, PayRefused, ConfirmRead, ConfirmWrite,
       ConfirmBound, WalletRead, WalletRefused, WalletCommit, WebhookCommit, VnpayCommit,
       AlreadyPaid, RefundRefused, RefundLogRead, RefundLogWrite, ReconcilePoll,
       ReconcileGiveUp, ReconcileFound, ReconcileNotFound, ReconcileSweep, Careless, Pc
  <2>3. job'[a].pc \in Careless
    <3>1. CASE Finish(a) \/ job' = [job EXCEPT ![a] = IdleJob]
      BY <1>0, <3>1, JobGoes, JobRenewed DEF Careless, Pc
    <3>2. CASE \E p \in Payment : GoPay(a, p)
      BY <1>0, <3>2, JobRenewed DEF Careless, Pc
    <3>3. CASE \E l \in Careless : Goto(a, l) \/ Carry(a, l)
      BY <1>0, <3>3, JobGoes
    <3>4. CASE job' = [job EXCEPT ![a] = WebhookRead(job[a].order, "sweep")]
      <4>1. WebhookRead(job[a].order, "sweep").pc \in {"webhookCommit", "finalize"}
        BY DEF WebhookRead, DepositJob
      <4> QED
        BY <1>0, <3>4, <4>1, JobMoves DEF Careless, Pc
    <3> QED
      BY <2>2, <3>1, <3>2, <3>3, <3>4
  <2>4. \A b \in Slot : Fresh(job[b])'
    BY <2>3 DEF Sole, Fresh, Careless
  <2> QED
    BY <2>1, <2>4, RequestsHeld
<1>7. CASE PayRecord(a)
  <2>1. PICK r \in Request : r = job[a].req /\ job[a].pay \in Payment /\ payReq[job[a].pay] = r
    BY <1>0, <1>7 DEF PayRecord, At, JobKnows, OnDeposit
  <2>2. /\ depositOf' = [depositOf EXCEPT ![r] = job[a].pay]
        /\ Goto(a, "confirmRead") /\ UNCHANGED <<status, contracted, payReq, payStatus>>
    BY <1>7, <2>1 DEF PayRecord
  <2>3. \A q \in Request : depositOf'[q] = depositOf[q]
                           \/ (depositOf'[q] \in Payment /\ payReq[depositOf'[q]] = q)
    BY <1>0, <2>1, <2>2 DEF TypeOK, RowsTyped
  <2>4. \A b \in Slot : job'[b].pc = "confirmRead"
    BY <1>0, <2>2, JobGoes DEF Sole
  <2>5. \A b \in Slot : Fresh(job[b])'
    BY <2>4 DEF Fresh
  <2> QED
    BY <2>2, <2>3, <2>5 DEF SerialStep, Fresh
<1>8. CASE Finalize(a)
  <2>1. RequestsHold
    BY <1>8 DEF Finalize, RequestsHold
  <2>2. PICK l \in {"sawHeld", "sawOpen", "sawClosed"} :
            Goto(a, l) /\ (l = "sawOpen" => status[job[a].req] = "holding_deposit_open")
    BY <1>8 DEF Finalize
  <2>3. job'[a].pc = l /\ job'[a].req = job[a].req
    BY <1>0, <2>2, JobGoes
  <2>4. \A b \in Slot : Fresh(job[b])'
    BY <2>1, <2>2, <2>3 DEF RequestsHold, Sole, Fresh
  <2> QED
    BY <2>1, <2>4, RequestsHeld
<1>9. CASE LostRace(a)
  BY <1>0, <1>9 DEF LostRace, MayPromote, At, Fresh
<1>10. CASE RefundAccepted(a) \/ RefundBlankAnswer(a)
  <2>1. RequestsHold /\ status[job[a].req] \in Ended /\ (Finish(a) \/ Goto(a, "refundMark"))
    BY <1>0, <1>10 DEF RefundAccepted, RefundBlankAnswer, RequestsHold, At, Fresh
  <2>2. \/ job'[a].pc \in {"idle", "sweep"}
        \/ job'[a].pc = "refundMark" /\ job'[a].req = job[a].req
    BY <1>0, <2>1, JobGoes
  <2>3. \A b \in Slot : Fresh(job[b])'
    BY <2>1, <2>2 DEF RequestsHold, Sole, Fresh
  <2> QED
    BY <2>1, <2>3, RequestsHeld
<1>11. CASE RefundMark(a)
  <2>1. /\ job[a].pay \in Payment /\ payReq[job[a].pay] \in Request
        /\ status[payReq[job[a].pay]] \in Ended
    BY <1>0, <1>11 DEF RefundMark, At, JobKnows, OnDeposit, Fresh
  <2>2. /\ payStatus' = [payStatus EXCEPT ![job[a].pay] = "refunded"]
        /\ Goto(a, "refundLogRead") /\ UNCHANGED <<status, contracted, depositOf, payReq>>
    BY <1>11 DEF RefundMark, SetPayStatus
  <2>3. \A p \in Payment : payStatus'[p] = "refunded"
          => \/ payStatus[p] = "refunded"
             \/ payReq[p] \in Request /\ status'[payReq[p]] \in Ended
    BY <1>0, <2>1, <2>2 DEF TypeOK, RowsTyped
  <2>4. \A b \in Slot : job'[b].pc = "refundLogRead"
    BY <1>0, <2>2, JobGoes DEF Sole
  <2>5. \A b \in Slot : Fresh(job[b])'
    BY <2>4 DEF Fresh
  <2> QED
    BY <2>2, <2>3, <2>5 DEF SerialStep, Fresh
<1> QED
  BY <1>1, <1>2, <1>3, <1>4, <1>5, <1>6, <1>7, <1>8, <1>9, <1>10, <1>11 DEF Continue

LEMMA SerialNext == Sole /\ SerialInv /\ [Next]_vars => SerialInv'
<1> SUFFICES ASSUME Sole, SerialInv, [Next]_vars PROVE SerialInv'
  OBVIOUS
<1> USE DEF paymentVars, moneyVars, gatewayVars, requestVars
<1>1. DepositInv'
  BY DepositInvNext DEF SerialInv
<1>2. CASE \E a \in Slot : Arrive(a) \/ Continue(a)
  BY <1>1, <1>2, SerialArrive, SerialContinue, SerialKept
<1>3. CASE UNCHANGED vars \/ (\E r \in Request : WindowLapses(r))
           \/ (\E o \in orders : TenantPays(o))
  <2>1. RequestsHold /\ UNCHANGED job
    BY <1>3 DEF vars, WindowLapses, TenantPays, RequestsHold
  <2>2. \A a \in Slot : Fresh(job[a])'
    BY <2>1 DEF SerialInv, RequestsHold, Fresh
  <2> QED
    BY <1>1, <2>1, <2>2, RequestsHeld, SerialKept
<1>4. CASE Crash
  <2>1. RequestsHold /\ \A a \in Slot : job'[a].pc = "idle"
    BY <1>4 DEF Crash, RequestsHold, IdleJob, RequestJob
  <2>2. \A a \in Slot : Fresh(job[a])'
    BY <2>1 DEF Fresh
  <2> QED
    BY <1>1, <2>1, <2>2, RequestsHeld, SerialKept
<1>5. ASSUME NEW r \in Request, ContractEnds(r) PROVE SerialInv'
  <2>1. /\ \A q \in Request : status'[q] = IF q = r THEN "expired" ELSE status[q]
        /\ UNCHANGED <<contracted, depositOf, payReq, payStatus, job>>
    BY <1>5 DEF ContractEnds, SetStatus
  <2>2. r \in contracted /\ status[r] \in {"contract_created"} \cup Ended
    BY <1>5 DEF ContractEnds, SerialInv
  <2>3. \A a \in Slot : Fresh(job[a])'
    <3>1. TAKE a \in Slot
    <3>2. Fresh(job[a]) /\ job[a].batch \subseteq Request /\ job'[a] = job[a]
      BY <2>1 DEF SerialInv, DepositInv, TypeOK, Job
    <3>3. job[a].pc \in OnRequest \cup OnDeposit => job[a].req \in Request
      BY DEF SerialInv, DepositInv, JobKnows
    <3> QED
      BY <2>1, <2>2, <3>2, <3>3 DEF Fresh, Early, Ended, OnRequest, OnDeposit, AfterMoney
  <2>4. SerialStep
    BY <2>1, <2>3 DEF SerialStep, Fresh, Ended, Winning
  <2> QED
    BY <1>1, <2>4, SerialKept
<1> QED
  BY <1>2, <1>3, <1>4, <1>5 DEF Next

LEMMA SerialInit == Init => SerialInv
<1> SUFFICES ASSUME Init PROVE SerialInv
  OBVIOUS
<1>1. DepositInv
  BY DepositInvInit
<1>2. \A a \in Slot : Fresh(job[a])
  BY DEF Init, IdleJob, RequestJob, Fresh
<1> QED
  BY <1>1, <1>2 DEF Init, SerialInv, AtMostOneHolder, Winning

\* With one handler at a time a property has one holder, the contracts made
\* included: the handlers' stale writes are all that could give it a second.
THEOREM OneHolder == Sole => (Spec => []AtMostOneHolder)
<1> SUFFICES ASSUME Sole PROVE Spec => []AtMostOneHolder
  OBVIOUS
<1>1. SerialInv => AtMostOneHolder
  BY DEF SerialInv
<1>2. SerialInv /\ [Next]_vars => SerialInv'
  BY SerialNext
<1> QED
  BY <1>1, <1>2, SerialInit, PTL DEF Spec

\* With one handler at a time the deposit a holder holds the property by is not
\* given back: only a request that lost, or whose contract is over, is refunded.
THEOREM HolderKeeps == Sole => (Spec => []HolderKeepsDeposit)
<1> SUFFICES ASSUME Sole PROVE Spec => []HolderKeepsDeposit
  OBVIOUS
<1>1. SerialInv => HolderKeepsDeposit
  <2>1. SerialInv => depositOf \in [Request -> Payment \cup {NoPayment}]
    BY DEF SerialInv, DepositInv, TypeOK, RowsTyped
  <2> QED
    BY <2>1 DEF SerialInv, HolderKeepsDeposit, Winning, Ended
<1>2. SerialInv /\ [Next]_vars => SerialInv'
  BY SerialNext
<1> QED
  BY <1>1, <1>2, SerialInit, PTL DEF Spec

\* Where a job is on its way to a settlement, and what it still finds there.
Unsettled(j) ==
    /\ j.pc # "vnpayCommit"
    /\ j.pc \in {"payLookup", "payCreate", "payRecord", "confirmRead", "confirmWrite"}
       => j.method # "vnpay"
    /\ j.pc \in {"webhookCommit", "lastPoll", "giveUp"} => payStatus[j.pay] = "pending"
    /\ j.pc = "walletCommit" => payStatus[j.pay] \in Payable

\* Without VNPay, whose notification never looks at the payment, a payment is
\* settled while it can be paid and is never made payable again.
CreditInv ==
    /\ DepositInv
    /\ \A a \in Slot : Unsettled(job[a])
    /\ \A o \in orders : o.via # "vnpay"
    /\ \A p \in Payment : settled[p] > 0 => payStatus[p] \in {"paid", "refunded"}
    /\ CreditedOnce

\* What one step may change of that.
CreditStep ==
    /\ \A o \in orders' : o.via # "vnpay"
    /\ \A p \in Payment :
         \/ settled'[p] = settled[p] /\ payStatus'[p] = payStatus[p]
         \/ settled'[p] = settled[p] /\ payStatus'[p] \in {"paid", "refunded"}
         \/ settled'[p] = settled[p] /\ payStatus[p] \in Payable \cup {"none"}
         \/ /\ settled'[p] = settled[p] + 1 /\ payStatus[p] \in Payable
            /\ payStatus'[p] = "paid"
    /\ \A a \in Slot : Unsettled(job[a])'

LEMMA CreditKept ==
    ASSUME CreditInv, DepositInv', CreditStep
    PROVE  CreditInv'
<1>1. ASSUME NEW p \in Payment
      PROVE  settled'[p] <= 1 /\ (settled'[p] > 0 => payStatus'[p] \in {"paid", "refunded"})
  <2>1. /\ settled[p] \in Nat /\ settled[p] <= 1
        /\ settled[p] > 0 => payStatus[p] \in {"paid", "refunded"}
    BY DEF CreditInv, CreditedOnce, DepositInv, TypeOK, RowsTyped
  <2> QED
    BY <2>1 DEF CreditStep, Payable
<1> QED
  BY <1>1 DEF CreditInv, CreditStep, CreditedOnce, Unsettled

\* A step that settles nothing and makes no payment payable.
CreditsHold == UNCHANGED <<settled, payStatus, orders>>

LEMMA CreditsHeld ==
    ASSUME CreditInv, CreditsHold, \A a \in Slot : Unsettled(job[a])'
    PROVE  CreditStep
BY DEF CreditsHold, CreditStep, CreditInv, Unsettled

\* Where a job may stand whatever the payment is by now.
Harmless == Pc \ {"vnpayCommit", "payLookup", "payCreate", "payRecord", "confirmRead",
                  "confirmWrite", "webhookCommit", "lastPoll", "giveUp", "walletCommit"}

LEMMA CreditArrive ==
    ASSUME CreditInv, Sole, "vnpay" \notin Method, NEW a \in Slot, Arrive(a)
    PROVE  CreditStep
<1> USE DEF paymentVars, moneyVars, gatewayVars, requestVars
<1>1. CreditsHold
  BY DEF CreditsHold, Arrive, CreateRequestCheck, TakeUpCheck, RejectCheck, CancelCheck,
     PayCheck, ContractCheck, OpenCheck, ConfirmStart, MomoIpn, VnpayIpn, ReconcileFind, ExpireFind
<1>2. PICK j : job' = [job EXCEPT ![a] = j] /\ Unsettled(j)
  <2>1. CASE \/ ExpireFind(a) \/ \E R \in SUBSET Request : OpenCheck(a, R)
             \/ \E r \in Request : \/ CreateRequestCheck(a, r) \/ TakeUpCheck(a, r)
                                   \/ RejectCheck(a, r) \/ CancelCheck(a, r)
                                   \/ ContractCheck(a, r)
    <3>1. PICK j : job' = [job EXCEPT ![a] = j] /\ j.pc \in Harmless
      BY <2>1 DEF CreateRequestCheck, TakeUpCheck, RejectCheck, CancelCheck, ContractCheck,
         OpenCheck, ExpireFind, Begin, RequestJob, BatchJob, Harmless, Pc
    <3> QED
      BY <3>1 DEF Unsettled, Harmless
  <2>2. CASE \E r \in Request, m \in Method : PayCheck(a, r, m)
    <3>1. PICK j : /\ job' = [job EXCEPT ![a] = j] /\ j.pc \in {"payExpired", "payLookup"}
                   /\ j.pc = "payLookup" => j.method \in Method
      BY <2>2 DEF PayCheck, Begin, RequestJob
    <3> QED
      BY <3>1 DEF Unsettled
  <2>3. CASE \E p \in Payment, m \in Method : ConfirmStart(a, p, m)
    <3>1. PICK p \in Payment, m \in Method : ConfirmStart(a, p, m)
      BY <2>3
    <3>2. Unsettled(DepositJob("confirmWrite", payReq[p], p, NoOrder, m, "idle"))
      BY DEF DepositJob, Unsettled
    <3> QED
      BY <3>1, <3>2 DEF ConfirmStart, Begin
  <2>4. CASE \E o \in captured : MomoIpn(a, o) \/ VnpayIpn(a, o)
    <3>1. PICK o \in captured : MomoIpn(a, o)
      BY <2>4 DEF VnpayIpn, CreditInv, DepositInv, TypeOK, RowsTyped
    <3>2. Unsettled(WebhookRead(o, "idle"))
      BY DEF WebhookRead, DepositJob, Unsettled
    <3> QED
      BY <3>1, <3>2 DEF MomoIpn, Begin
  <2>5. CASE \E p \in Payment : ReconcileFind(a, p)
    <3>1. PICK p \in Payment : ReconcileFind(a, p)
      BY <2>5
    <3>2. payStatus[p] = "pending" /\ \E l \in {"poll", "lastPoll"} : \E o :
            Begin(a, DepositJob(l, payReq[p], p, o, "none", "sweep"))
      BY <3>1 DEF ReconcileFind
    <3>3. PICK l \in {"poll", "lastPoll"} : \E o :
            Begin(a, DepositJob(l, payReq[p], p, o, "none", "sweep"))
      BY <3>2
    <3>4. PICK o : Begin(a, DepositJob(l, payReq[p], p, o, "none", "sweep"))
      BY <3>3
    <3>5. Unsettled(DepositJob(l, payReq[p], p, o, "none", "sweep"))
      BY <3>2 DEF DepositJob, Unsettled
    <3> QED
      BY <3>4, <3>5 DEF Begin
  <2> QED
    BY <2>1, <2>2, <2>3, <2>4, <2>5 DEF Arrive
<1>3. job'[a] = j
  BY <1>2, JobMoves DEF CreditInv
<1>4. \A b \in Slot : Unsettled(job[b])'
  BY <1>1, <1>2, <1>3 DEF CreditsHold, Sole, Unsettled
<1> QED
  BY <1>1, <1>4, CreditsHeld

LEMMA CreditContinue ==
    ASSUME CreditInv, Sole, NEW a \in Slot, Continue(a)
    PROVE  CreditStep
<1> USE DEF paymentVars, moneyVars, gatewayVars, requestVars
<1>0. /\ DepositInv /\ Unsettled(job[a]) /\ JobKnows(job[a]) /\ TypeOK /\ DepositsHaveRequests
      /\ job[a].pc \in OnDeposit => job[a].pay \in Payment
      /\ \A o \in orders : o.via # "vnpay"
  BY DEF CreditInv, DepositInv, JobKnows
<1>1. CASE \/ CreateRequestInsert(a) \/ ReviewWrite(a) \/ OpenWrite(a) \/ CancelWrite(a)
           \/ PayExpired(a) \/ PayRefused(a) \/ WalletRefused(a) \/ ConfirmBound(a)
           \/ Finalize(a) \/ AlreadyPaid(a) \/ MarkRefunded(a) \/ LostRace(a) \/ Promote(a)
           \/ RefundAccepted(a) \/ RefundRefused(a) \/ RefundBlankAnswer(a)
           \/ RefundLogRead(a) \/ RefundLogWrite(a) \/ ReconcileNotFound(a)
           \/ ExpireWrite(a) \/ ContractWrite(a)
  <2>1. CreditsHold
    BY <1>1 DEF CreditsHold, CreateRequestInsert, ReviewWrite, OpenWrite, CancelWrite,
       PayExpired, PayRefused, WalletRefused, ConfirmBound, Finalize, AlreadyPaid, MarkRefunded,
       LostRace, Promote, RefundAccepted, RefundRefused, RefundBlankAnswer, RefundLogRead,
       RefundLogWrite, ReconcileNotFound, ExpireWrite, ContractWrite
  <2>2. Finish(a) \/ \E l \in Harmless : Goto(a, l)
    BY <1>1 DEF CreateRequestInsert, ReviewWrite, OpenWrite, CancelWrite,
       PayExpired, PayRefused, WalletRefused, ConfirmBound, Finalize, AlreadyPaid, MarkRefunded,
       LostRace, Promote, RefundAccepted, RefundRefused, RefundBlankAnswer, RefundLogRead,
       RefundLogWrite, ReconcileNotFound, ExpireWrite, ContractWrite, Harmless, Pc
  <2>3. job'[a].pc \in Harmless
    BY <1>0, <2>2, JobGoes DEF Harmless, Pc
  <2>4. \A b \in Slot : Unsettled(job[b])'
    BY <2>3 DEF Sole, Unsettled, Harmless
  <2> QED
    BY <2>1, <2>4, CreditsHeld
<1>2. CASE PayLookup(a) \/ PayRecord(a) \/ ConfirmRead(a)
  <2>1. CreditsHold /\ job[a].method # "vnpay"
    BY <1>0, <1>2 DEF CreditsHold, PayLookup, PayRecord, ConfirmRead, At, Unsettled
  <2>2. \/ Finish(a) \/ (\E p : GoPay(a, p))
        \/ \E l \in {"payCreate", "confirmRead", "confirmWrite"} : Goto(a, l)
    BY <1>2 DEF PayLookup, PayRecord, ConfirmRead
  <2>3. \/ job'[a].pc \in {"idle", "sweep"}
        \/ /\ job'[a].pc \in {"payRecord", "payCreate", "confirmRead", "confirmWrite"}
           /\ job'[a].method # "vnpay"
    BY <1>0, <2>1, <2>2, JobGoes, JobRenewed
  <2>4. \A b \in Slot : Unsettled(job[b])'
    BY <2>3 DEF Sole, Unsettled
  <2> QED
    BY <2>1, <2>4, CreditsHeld
<1>3. CASE WalletRead(a) \/ ReconcilePoll(a)
  <2>1. CreditsHold
    BY <1>3 DEF CreditsHold, WalletRead, ReconcilePoll
  <2>2. PICK l \in {"walletCommit", "query", "giveUp"} :
            /\ Goto(a, l)
            /\ l = "walletCommit" => payStatus[job[a].pay] \in Payable
            /\ l = "giveUp" => payStatus[job[a].pay] = "pending"
    BY <1>0, <1>3 DEF WalletRead, ReconcilePoll, At, Unsettled
  <2>3. job'[a].pc = l /\ job'[a].pay = job[a].pay
    BY <1>0, <2>2, JobGoes
  <2>4. \A b \in Slot : Unsettled(job[b])'
    BY <2>1, <2>2, <2>3 DEF CreditsHold, Sole, Unsettled
  <2> QED
    BY <2>1, <2>4, CreditsHeld
<1>4. CASE PayCreate(a)
  <2>1. PICK p \in Payment : /\ payReq[p] = NoRequest /\ GoPay(a, p)
                             /\ payStatus' = [payStatus EXCEPT ![p] = "pending"]
    BY <1>4 DEF PayCreate, SetPayStatus
  <2>2. payStatus[p] = "none"
    BY <1>0, <2>1, RequestAssumption DEF DepositsHaveRequests
  <2>3. UNCHANGED <<settled, orders>> /\ job[a].method # "vnpay"
    BY <1>0, <1>4 DEF PayCreate, At, Unsettled
  <2>4. job'[a].pc = "payRecord" /\ job'[a].method # "vnpay"
    BY <1>0, <2>1, <2>3, JobRenewed
  <2>5. \A b \in Slot : Unsettled(job[b])'
    BY <2>4 DEF Sole, Unsettled
  <2>6. \A q \in Payment : payStatus'[q] = payStatus[q] \/ payStatus[q] = "none"
    BY <1>0, <2>1, <2>2 DEF TypeOK, RowsTyped
  <2> QED
    BY <1>0, <2>3, <2>5, <2>6 DEF CreditStep, Unsettled
<1>5. CASE ConfirmWrite(a)
  <2>1. job[a].method # "vnpay" /\ UNCHANGED <<settled, payStatus>>
        /\ (Finish(a) \/ Goto(a, "walletRead"))
    BY <1>0, <1>5 DEF ConfirmWrite, At, Unsettled
  <2>2. \A o \in orders' : o.via # "vnpay"
    BY <1>0, <1>5, <2>1 DEF ConfirmWrite
  <2>3. job'[a].pc \in {"idle", "sweep", "walletRead"}
    BY <1>0, <2>1, JobGoes
  <2>4. \A b \in Slot : Unsettled(job[b])'
    BY <2>3 DEF Sole, Unsettled
  <2> QED
    BY <2>1, <2>2, <2>4 DEF CreditStep, Unsettled
<1>6. CASE WalletCommit(a) \/ WebhookCommit(a) \/ VnpayCommit(a)
  <2>1. PICK p \in Payment : p = job[a].pay /\ payStatus[p] \in Payable
    BY <1>0, <1>6 DEF WalletCommit, WebhookCommit, VnpayCommit, At, Unsettled, OnDeposit,
       WithOrder, WithReceipt, Payable
  <2>2. /\ payStatus' = [payStatus EXCEPT ![p] = "paid"]
        /\ settled' = [settled EXCEPT ![p] = @ + 1] /\ orders' = orders
        /\ Carry(a, "finalize")
    BY <1>0, <1>6, <2>1 DEF WalletCommit, WebhookCommit, VnpayCommit, Receipt, SetPayStatus, At,
       Unsettled
  <2>3. job'[a].pc = "finalize"
    BY <1>0, <2>2, JobGoes
  <2>4. \A b \in Slot : Unsettled(job[b])'
    BY <2>3 DEF Sole, Unsettled
  <2>5. \A q \in Payment : \/ settled'[q] = settled[q] /\ payStatus'[q] = payStatus[q]
                           \/ /\ settled'[q] = settled[q] + 1 /\ payStatus[q] \in Payable
                              /\ payStatus'[q] = "paid"
    BY <1>0, <2>1, <2>2 DEF TypeOK, RowsTyped
  <2> QED
    BY <1>0, <2>2, <2>4, <2>5 DEF CreditStep, Unsettled
<1>7. CASE RefundMark(a)
  <2>1. /\ payStatus' = [payStatus EXCEPT ![job[a].pay] = "refunded"]
        /\ UNCHANGED <<settled, orders>> /\ Goto(a, "refundLogRead")
    BY <1>7 DEF RefundMark, SetPayStatus
  <2>2. job'[a].pc = "refundLogRead"
    BY <1>0, <2>1, JobGoes
  <2>3. \A b \in Slot : Unsettled(job[b])'
    BY <2>2 DEF Sole, Unsettled
  <2>4. \A q \in Payment : payStatus'[q] = payStatus[q] \/ payStatus'[q] = "refunded"
    BY <1>0, <2>1 DEF TypeOK, RowsTyped
  <2> QED
    BY <1>0, <2>1, <2>3, <2>4 DEF CreditStep, Unsettled
<1>8. CASE ReconcileGiveUp(a) \/ ReconcileSweep(a)
  <2>1. UNCHANGED <<settled, orders>> /\ (Finish(a) \/ job' = [job EXCEPT ![a] = IdleJob])
    BY <1>8 DEF ReconcileGiveUp, ReconcileSweep
  <2>2. job'[a].pc \in {"idle", "sweep"}
    BY <1>0, <2>1, JobGoes, JobRenewed
  <2>3. \A b \in Slot : Unsettled(job[b])'
    BY <2>2 DEF Sole, Unsettled
  <2>4. \A q \in Payment : payStatus'[q] = payStatus[q] \/ payStatus[q] = "pending"
    BY <1>0, <1>8 DEF ReconcileGiveUp, ReconcileSweep, SetPayStatus, At, Unsettled, TypeOK, RowsTyped
  <2> QED
    BY <1>0, <2>1, <2>3, <2>4 DEF CreditStep, Unsettled, Payable
<1>9. CASE ReconcileFound(a)
  <2>1. CreditsHold /\ job' = [job EXCEPT ![a] = WebhookRead(job[a].order, "sweep")]
    BY <1>9 DEF ReconcileFound, CreditsHold
  <2>2. Unsettled(WebhookRead(job[a].order, "sweep"))
    BY DEF WebhookRead, DepositJob, Unsettled
  <2>3. PICK j : job' = [job EXCEPT ![a] = j] /\ Unsettled(j)
    BY <2>1, <2>2
  <2>4. job'[a] = j
    BY <1>0, <2>3, JobMoves
  <2>5. \A b \in Slot : Unsettled(job[b])'
    BY <2>1, <2>3, <2>4 DEF CreditsHold, Sole, Unsettled
  <2> QED
    BY <2>1, <2>5, CreditsHeld
<1> QED
  BY <1>1, <1>2, <1>3, <1>4, <1>5, <1>6, <1>7, <1>8, <1>9 DEF Continue

LEMMA CreditNext == Sole /\ "vnpay" \notin Method /\ CreditInv /\ [Next]_vars => CreditInv'
<1> SUFFICES ASSUME Sole, "vnpay" \notin Method, CreditInv, [Next]_vars PROVE CreditInv'
  OBVIOUS
<1> USE DEF paymentVars, moneyVars, gatewayVars, requestVars
<1>1. DepositInv'
  BY DepositInvNext DEF CreditInv
<1>2. CASE \E a \in Slot : Arrive(a) \/ Continue(a)
  BY <1>1, <1>2, CreditArrive, CreditContinue, CreditKept
<1>3. CASE \/ UNCHANGED vars
           \/ \E r \in Request : WindowLapses(r) \/ ContractEnds(r)
           \/ \E o \in orders : TenantPays(o)
  <2>1. CreditsHold /\ UNCHANGED job
    BY <1>3 DEF vars, WindowLapses, ContractEnds, TenantPays, CreditsHold
  <2>2. \A a \in Slot : Unsettled(job[a])'
    BY <2>1 DEF CreditInv, CreditsHold, Unsettled
  <2> QED
    BY <1>1, <2>1, <2>2, CreditsHeld, CreditKept
<1>4. CASE Crash
  <2>1. CreditsHold /\ \A a \in Slot : job'[a].pc = "idle"
    BY <1>4 DEF Crash, CreditsHold, IdleJob, RequestJob
  <2>2. \A a \in Slot : Unsettled(job[a])'
    BY <2>1 DEF Unsettled
  <2> QED
    BY <1>1, <2>1, <2>2, CreditsHeld, CreditKept
<1> QED
  BY <1>2, <1>3, <1>4 DEF Next

LEMMA CreditInit == Init => CreditInv
<1> SUFFICES ASSUME Init PROVE CreditInv
  OBVIOUS
<1>1. DepositInv
  BY DepositInvInit
<1>2. \A a \in Slot : Unsettled(job[a])
  BY DEF Init, IdleJob, RequestJob, Unsettled
<1> QED
  BY <1>1, <1>2 DEF Init, CreditInv, CreditedOnce

\* With one handler at a time, and no tenant who pays by VNPay, the owner is
\* credited once for a deposit, through every notification, reconciliation,
\* confirmation and crash.
THEOREM OwnersCreditedOnce == Sole /\ "vnpay" \notin Method => (Spec => []CreditedOnce)
<1> SUFFICES ASSUME Sole, "vnpay" \notin Method PROVE Spec => []CreditedOnce
  OBVIOUS
<1>1. CreditInv => CreditedOnce
  BY DEF CreditInv
<1>2. CreditInv /\ [Next]_vars => CreditInv'
  BY CreditNext
<1> QED
  BY <1>1, <1>2, CreditInit, PTL DEF Spec

=============================================================================
