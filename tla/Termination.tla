---------------------------- MODULE Termination ----------------------------
(***************************************************************************)
(* How contracts end: requests to terminate, their review, the dispute     *)
(* that goes to an administrator with a report, the crons that terminate,  *)
(* and the settlement of the deposit. One owner and one tenant.            *)
(*                                                                         *)
(* The contracts and their other handlers are those of ContractLifecycle;  *)
(* handlers of this module run in slots of their own, beside those.        *)
(***************************************************************************)
EXTENDS ContractLifecycle, Settlement

CONSTANTS
    MaxRequest,  \* bound: termination requests, numbered as they are created
    MaxReport,   \* bound: reports, numbered likewise
    Clerk,       \* handlers of this module in flight at one time
    Amount,      \* the deposit of a contract
    Fees,        \* early termination fees that are asked for
    Returns,     \* bound: what administrators return of a deposit; no limit is set, less than 0 is as 0
    Reasons,     \* bound: reasons that are given
    MaxDebt      \* bound: unpaid rents of a contract

Request == 1 .. MaxRequest
Report == 1 .. MaxReport

ASSUME TerminationAssumption ==
    /\ MaxRequest \in Nat /\ MaxReport \in Nat /\ MaxDebt \in Nat /\ Amount \in Nat \ {0}
    /\ Fees \subseteq Nat /\ Returns \subseteq Nat
    /\ Reasons \subseteq Reason

VARIABLES
    request,  \* contract_termination_requests
    report,   \* reports
    escrow,   \* deposit_transactions: the state of a contract's deposit
    books,    \* the wallets of the two parties
    debt,     \* unpaid rents of a contract
    clerk     \* handlers in flight

\* Notes of the model about what has happened.
VARIABLES
    paidOut,  \* how often a deposit was paid out
    causes,   \* how often the contract came into force, or a report sent a request back
    repeats,  \* settlements of a deposit that was settled before
    excess,   \* what administrators returned above the deposits
    charged,  \* a settlement by policy has charged a fee
    fined     \* an administrator has named a penalty or a compensation

money == <<escrow, books, debt, paidOut, repeats, excess, charged, fined>>
endVars == <<request, report, money, causes, clerk>>
vars == <<lifeVars, endVars>>

RequestStatus == {"none", "pending", "approved", "rejected", "negotiating", "admin_review",
                  "admin_processing", "resolved", "cancelled"}
OpenStatus == {"pending", "rejected", "negotiating", "admin_review", "admin_processing"}
AtAdmin == {"admin_review", "admin_processing"}

NoRequest == [contract |-> None, status |-> "none", reason |-> "lease_end", by |-> "OWNER",
              fee |-> 0, reopened |-> FALSE]
NoReport == [contract |-> None, on |-> 0, status |-> "none"]
ClerkIdle == [pc |-> "idle", contract |-> None, on |-> 0, next |-> "none", ends |-> FALSE]

Init ==
    /\ LifeInit
    /\ request = [t \in Request |-> NoRequest]
    /\ report = [p \in Report |-> NoReport]
    /\ escrow = [c \in Contract |-> "none"]
    /\ books = [owner |-> 1, tenant |-> 1, held |-> 0]
    /\ debt = [c \in Contract |-> 0]
    /\ paidOut = [c \in Contract |-> 0] /\ causes = [c \in Contract |-> 0]
    /\ repeats = 0 /\ excess = 0
    /\ charged = FALSE /\ fined = FALSE
    /\ clerk = [k \in Clerk |-> ClerkIdle]

Take(k, p, c, t, n, e) ==
    /\ p \in Handlers
    /\ clerk[k] = ClerkIdle
    /\ clerk' = [clerk EXCEPT
                   ![k] = [pc |-> p, contract |-> c, on |-> t, next |-> n, ends |-> e]]
Release(k) == clerk' = [clerk EXCEPT ![k] = ClerkIdle]
Doing(k, p) == clerk[k].pc = p

ContractUntouched == UNCHANGED <<lifeVars, money, causes>>
NothingWritten == ContractUntouched /\ UNCHANGED <<request, report>>

NextRequest(t) == request[t].status = "none" /\ \A u \in Request : u < t => request[u].status # "none"
NextReport(p) == report[p].status = "none" /\ \A q \in Report : q < p => report[q].status # "none"
RequestsOf(c) == {t \in Request : request[t].contract = c}
Linked(t) == {p \in Report : report[p].on = t}
AdminReport(c) == \E p \in Report : report[p].contract = c /\ report[p].status = "admin"

-----------------------------------------------------------------------------
(* The end of a contract, inside the transaction of the handler that        *)
(* decides it.                                                             *)

HasDeposit(c) == escrow[c] # "none" \/ deposit[c] = "paid"

\* Whether the deposit was settled before is not looked at.
PaidOut(c) ==
    /\ paidOut' = [paidOut EXCEPT ![c] = @ + 1]
    /\ repeats' = IF escrow[c] = "none" THEN repeats ELSE repeats + 1

\* Without a deposit nothing is settled, only the fee is asked for.
SettleByPolicy(c, reason, by, fee) ==
    /\ charged' = (charged \/ fee > 0)
    /\ UNCHANGED <<excess, fined>>
    /\ IF HasDeposit(c)
        THEN /\ CanPay(books, PenaltyPayer(reason, by, fee), fee)
             /\ books' = PolicyBooks(books, reason, by, fee, Amount, debt[c])
             /\ escrow' = [escrow EXCEPT ![c] = PolicyEscrow(reason, by, Amount, debt[c])]
             /\ debt' = [debt EXCEPT ![c] = PolicyDebt(reason, by, fee, Amount, @)]
             /\ PaidOut(c)
        ELSE /\ debt' = [debt EXCEPT
                           ![c] = IF PenaltyPayer(reason, by, fee) = "TENANT" THEN @ + fee ELSE @]
             /\ UNCHANGED <<books, escrow, paidOut, repeats>>

\* What is returned need not be less than the deposit.
SettleByAdmin(c, by, back, penalty, compensation) ==
    /\ AdminPays(books, by, penalty, compensation)
    /\ fined' = (fined \/ penalty > 0 \/ compensation > 0)
    /\ books' = AdminBooks(books, by, IF HasDeposit(c) THEN Amount ELSE 0,
                           back, penalty, compensation)
    /\ IF HasDeposit(c)
         THEN /\ escrow' = [escrow EXCEPT ![c] = AdminEscrow(Amount, back)]
              /\ PaidOut(c)
              /\ excess' = excess + (IF back > Amount THEN back - Amount ELSE 0)
         ELSE UNCHANGED <<escrow, paidOut, repeats, excess>>
    /\ UNCHANGED <<debt, charged>>

\* Mutant: the status is not written.
EndContractActive(c, reason) ==
    /\ inactive' = inactive \cup {c}
    /\ UNCHANGED <<status, parent, renewedFrom, deposit, lateEdit, signed, signingVars,
                   renewalVars, timeVars, job, crashes, causes>>

EndContract(c, reason) ==
    /\ SetStatus(c, IF reason = "lease_end" THEN "expired" ELSE "terminated")
    /\ inactive' = inactive \cup {c}
    /\ UNCHANGED <<parent, renewedFrom, deposit, lateEdit, signed, signingVars, renewalVars,
                   timeVars, job, crashes, causes>>

-----------------------------------------------------------------------------
(* Requests and their review.                                              *)

CreateRequestStart(k, c) ==
    /\ status[c] = "active"
    /\ Take(k, "requestTermination", c, 0, "none", FALSE)
    /\ NothingWritten

\* Mutant: a rejected request counts as over.
LatestIsOverOrRejected(c) ==
    \A t \in RequestsOf(c) :
        (\A u \in RequestsOf(c) : u <= t) => request[t].status \notin OpenStatus \ {"rejected"}

\* The contract row is locked, so the rest is one step: the last request is
\* over, and no report about the contract is with an administrator.
LatestIsOver(c) ==
    \A t \in RequestsOf(c) : (\A u \in RequestsOf(c) : u <= t) => request[t].status \notin OpenStatus

CreateTerminationRequest(k, t, reason, by, fee) ==
    /\ Doing(k, "requestTermination")
    /\ LET c == clerk[k].contract IN
       /\ LatestIsOver(c) /\ ~ AdminReport(c)
       /\ NextRequest(t)
       /\ request' = [request EXCEPT
                        ![t] = [contract |-> c, status |-> "pending", reason |-> reason,
                                by |-> by, fee |-> fee, reopened |-> FALSE]]
    /\ Release(k)
    /\ UNCHANGED report
    /\ ContractUntouched

\* The handler refuses, its transaction aborts, or there is nothing to do:
\* a wallet too small for the fee, a deposit set to a state that the column
\* does not have, a request that is already there.
GiveUp(k) ==
    /\ clerk[k] # ClerkIdle
    /\ Release(k)
    /\ NothingWritten

ReviewStart(k, t) ==
    /\ request[t].status = "pending"
    /\ Take(k, "reviewTermination", request[t].contract, t, "none", FALSE)
    /\ NothingWritten

ReviewApprove(k) ==
    /\ Doing(k, "reviewTermination")
    /\ LET t == clerk[k].on
           r == request[t] IN
       /\ request' = [request EXCEPT ![t].status = "approved"]
       /\ SettleByPolicy(r.contract, r.reason, r.by, r.fee)
       /\ EndContract(r.contract, r.reason)
    /\ Release(k)
    /\ UNCHANGED report

ReviewReject(k) ==
    /\ Doing(k, "reviewTermination")
    /\ request' = [request EXCEPT ![clerk[k].on].status = "rejected"]
    /\ Release(k)
    /\ UNCHANGED report
    /\ ContractUntouched

-----------------------------------------------------------------------------
(* Disputes: negotiation, escalation to an administrator, the resolution.   *)

PartyMoves(s) ==
    CASE s = "rejected"    -> {"negotiating", "admin_review"}
      [] s = "negotiating" -> {"resolved", "admin_review"}
      [] OTHER             -> {}
AdminMoves(s) ==
    CASE s = "admin_review"     -> {"admin_processing", "resolved"}
      [] s = "admin_processing" -> {"resolved"}
      [] OTHER                  -> {}

UpdateStart(k, t, n, ends) ==
    /\ n \in PartyMoves(request[t].status) \cup AdminMoves(request[t].status)
    /\ n # "resolved" => ~ ends
    /\ Take(k, IF request[t].status \in AtAdmin THEN "admin" ELSE "escalate",
            request[t].contract, t, n, ends)
    /\ NothingWritten

\* Mutant: only a report that is there goes to the administrator.
SentToAdminExisting(t, p) ==
    IF Linked(t) = {} THEN UNCHANGED report
    ELSE p \in Linked(t) /\ report' = [report EXCEPT ![p].status = "admin"]

\* A report about the request goes to the administrator: a new one, or the
\* one there is.
SentToAdmin(t, p) ==
    IF Linked(t) = {}
      THEN NextReport(p) /\ report' = [report EXCEPT
              ![p] = [contract |-> request[t].contract, on |-> t, status |-> "admin"]]
      ELSE p \in Linked(t) /\ report' = [report EXCEPT ![p].status = "admin"]

Escalate(k, p) ==
    /\ Doing(k, "escalate") /\ clerk[k].next = "admin_review"
    /\ request' = [request EXCEPT ![clerk[k].on].status = "admin_review"]
    /\ SentToAdmin(clerk[k].on, p)
    /\ Release(k)
    /\ ContractUntouched

Negotiate(k) ==
    /\ Doing(k, "escalate") \/ Doing(k, "admin")
    /\ clerk[k].next \in {"negotiating", "admin_processing"}
    /\ request' = [request EXCEPT ![clerk[k].on].status = clerk[k].next]
    /\ Release(k)
    /\ UNCHANGED report
    /\ ContractUntouched

EndsOrContinues(k, t) ==
    IF clerk[k].ends
      THEN /\ SettleByPolicy(request[t].contract, request[t].reason, request[t].by, request[t].fee)
           /\ EndContract(request[t].contract, request[t].reason)
      ELSE ContractUntouched

\* Of an administrator's resolution one linked report is resolved, the first.
ResolveRequest(k) ==
    /\ Doing(k, "escalate") \/ Doing(k, "admin")
    /\ clerk[k].next = "resolved"
    /\ LET t == clerk[k].on IN
       /\ request' = [request EXCEPT ![t].status = "resolved"]
       /\ EndsOrContinues(k, t)
       /\ IF Doing(k, "admin") /\ Linked(t) # {}
            THEN \E p \in Linked(t) : report' = [report EXCEPT ![p].status = "resolved"]
            ELSE UNCHANGED report
    /\ Release(k)

AdminResolveStart(k, t, ends) ==
    /\ request[t].status \in AtAdmin
    /\ Take(k, "resolve", request[t].contract, t, "resolved", ends)
    /\ NothingWritten

\* With amounts, or by policy; all reports about the request are resolved.
AdminResolve(k, named, back, penalty, compensation) ==
    /\ Doing(k, "resolve")
    /\ LET t == clerk[k].on
           c == request[t].contract IN
       /\ request' = [request EXCEPT ![t].status = "resolved"]
       /\ report' = [p \in Report |-> IF p \in Linked(t) THEN [report[p] EXCEPT !.status = "resolved"]
                                      ELSE report[p]]
       /\ IF named /\ clerk[k].ends
            THEN SettleByAdmin(c, request[t].by, back, penalty, compensation)
                 /\ EndContract(c, request[t].reason)
            ELSE EndsOrContinues(k, t)
    /\ Release(k)

-----------------------------------------------------------------------------
(* Reports that a party files itself.                                      *)

\* A report about the contract itself waits for a dispute at the administrator.
\* The request it names has to be there, and may be that of another contract.
CreateReportStart(k, c, t, aboutContract) ==
    /\ Exists(c)
    /\ t # 0 => request[t].status # "none"
    /\ aboutContract => \A u \in RequestsOf(c) : request[u].status \notin AtAdmin
    /\ ~ AdminReport(c)
    /\ Take(k, "report", c, t, "none", FALSE)
    /\ NothingWritten

\* It can name a request, which goes to the administrator whatever it was.
CreateReport(k, p) ==
    /\ Doing(k, "report")
    /\ NextReport(p)
    /\ report' = [report EXCEPT
                    ![p] = [contract |-> clerk[k].contract, on |-> clerk[k].on, status |-> "admin"]]
    /\ IF clerk[k].on = 0 THEN UNCHANGED <<request, causes>>
       ELSE /\ request' = [request EXCEPT ![clerk[k].on].status = "admin_review",
                                          ![clerk[k].on].reopened = TRUE]
            /\ causes' = [causes EXCEPT ![request[clerk[k].on].contract] = @ + 1]
    /\ Release(k)
    /\ UNCHANGED <<lifeVars, money>>

\* updateReportStatus by an administrator, or resolveReport, which does not
\* look at the status; the request is resolved with it and nothing settled.
ResolveReportStart(k, p) ==
    /\ report[p].status # "none"
    /\ Take(k, "resolveReport", report[p].contract, p, "none", FALSE)
    /\ NothingWritten

ResolveReport(k) ==
    /\ Doing(k, "resolveReport")
    /\ LET p == clerk[k].on IN
       /\ report' = [report EXCEPT ![p].status = "resolved"]
       /\ request' = IF report[p].on = 0 THEN request
                     ELSE [request EXCEPT ![report[p].on].status = "resolved"]
    /\ Release(k)
    /\ ContractUntouched

-----------------------------------------------------------------------------
(* The crons that end contracts, and money from elsewhere.                 *)

\* Found over or unpaid, and read again: only an active contract is ended.
AutoTerminateStart(k, c, reason) ==
    /\ \/ reason = "lease_end" /\ LeaseOver(c) /\ ~ RenewsItself(c)
       \/ reason = "non_payment" /\ debt[c] > 0
    /\ status[c] = "active"
    /\ \A t \in RequestsOf(c) : request[t].status \notin OpenStatus
    /\ Take(k, "autoTerminate", c, 0, reason, TRUE)
    /\ NothingWritten

AutoTerminateContract(k, t) ==
    /\ Doing(k, "autoTerminate")
    /\ LET c == clerk[k].contract IN
       /\ NextRequest(t)
       /\ request' = [request EXCEPT
                        ![t] = [contract |-> c, status |-> "approved", reason |-> clerk[k].next,
                                by |-> "OWNER", fee |-> 0, reopened |-> FALSE]]
       /\ SettleByPolicy(c, clerk[k].next, "OWNER", 0)
       /\ EndContract(c, clerk[k].next)
    /\ Release(k)
    /\ UNCHANGED report

\* A deposit that was paid lies in the owner's pending balance.
Received(c) == IF deposit'[c] = "paid" /\ deposit[c] # "paid" THEN Amount ELSE 0

DepositArrives ==
    /\ \E c \in Contract :
        /\ \/ \E f \in BOOLEAN : CreateContract(c, f)
           \/ DepositPaid(c)
        /\ books' = [books EXCEPT !.held = @ + Received(c)]
    /\ UNCHANGED <<request, report, escrow, debt, paidOut, repeats, excess, charged, fined,
                   causes, clerk>>

RentUnpaid(c) ==
    /\ status[c] \in InForce
    /\ debt[c] < MaxDebt
    /\ debt' = [debt EXCEPT ![c] = @ + 1]
    /\ UNCHANGED <<lifeVars, request, report, escrow, books, paidOut, repeats, excess, charged,
                   fined, causes, clerk>>

\* Every other step of ContractLifecycle.
DraftingOfExisting ==
    \E a \in Slot, c \in Contract :
        \/ UpdateDraftStart(a, c) \/ \E n \in Contract : CreateUpdateDraft(a, c, n)
        \/ EditStart(a, c) \/ UpdateContract(a, c)
        \/ SendStart(a, c) \/ SendToTenant(a, c)

LeaseSteps == \E c \in Contract : LeaseAdvances(c) \/ UpdateLapses(c)

ComesIntoForce ==
    causes' = [c \in Contract |->
        IF status'[c] = "active" /\ status[c] # "active" THEN causes[c] + 1 ELSE causes[c]]

LifeStep ==
    /\ DraftingOfExisting \/ Signing \/ SmartCA \/ Lifecycle \/ Renewals \/ LeaseSteps
    /\ ComesIntoForce
    /\ UNCHANGED <<request, report, money, clerk>>

CrashAll ==
    /\ Crash
    /\ clerk' = [k \in Clerk |-> ClerkIdle]
    /\ UNCHANGED <<request, report, money, causes>>

Terminations ==
    \E k \in Clerk :
        \/ GiveUp(k)
        \/ \E c \in Contract :
            \/ CreateRequestStart(k, c)
            \/ \E s \in {"lease_end", "non_payment"} : AutoTerminateStart(k, c, s)
            \/ \E t \in {0} \cup Request, b \in BOOLEAN : CreateReportStart(k, c, t, b)
        \/ \E t \in Request :
            \/ \E s \in Reasons, by \in Party, f \in Fees :
                    CreateTerminationRequest(k, t, s, by, f)
            \/ ReviewStart(k, t)
            \/ \E n \in OpenStatus \cup {"resolved"}, b \in BOOLEAN : UpdateStart(k, t, n, b)
            \/ \E b \in BOOLEAN : AdminResolveStart(k, t, b)
            \/ AutoTerminateContract(k, t)
        \/ ReviewApprove(k) \/ ReviewReject(k)
        \/ Negotiate(k) \/ ResolveRequest(k)
        \/ \E p \in Report : Escalate(k, p) \/ CreateReport(k, p) \/ ResolveReportStart(k, p)
        \/ ResolveReport(k)
        \/ AdminResolve(k, FALSE, 0, 0, 0)
        \/ \E back \in Returns, f, g \in Fees : AdminResolve(k, TRUE, back, f, g)

Next ==
    \/ LifeStep \/ DepositArrives \/ CrashAll \/ Terminations
    \/ \E c \in Contract : RentUnpaid(c)

Spec == Init /\ [][Next]_vars

-----------------------------------------------------------------------------
(* Properties.                                                             *)

\* Every variable holds a value of its kind; no balance falls below zero.
TypeOK ==
    /\ LifeTypeOK
    /\ request \in [Request -> [contract: Contract \cup {None}, status: RequestStatus,
                                reason: Reason, by: Party, fee: Nat, reopened: BOOLEAN]]
    /\ report \in [Report -> [contract: Contract \cup {None}, on: {0} \cup Request,
                              status: {"none", "admin", "resolved"}]]
    /\ escrow \in [Contract -> {"none", "fully_returned", "partially_returned", "forfeited"}]
    /\ books \in Books
    /\ debt \in [Contract -> Nat]
    /\ paidOut \in [Contract -> Nat] /\ causes \in [Contract -> Nat]
    /\ repeats \in Nat /\ excess \in Nat
    /\ charged \in BOOLEAN /\ fined \in BOOLEAN
    /\ \A k \in Clerk : clerk[k].pc \in AllHandlers \cup {"idle"}

\* A dispute that lies with the administrator can be found there: a report
\* about it is open, although reports are also filed, resolved and reopened
\* on their own (handlers one after another).
DisputeHasReport ==
    \A t \in Request :
        request[t].status \in AtAdmin => \E p \in Linked(t) : report[p].status = "admin"

\* A contract has one request to end it that is open, except one that a
\* report sent back to the administrator (handlers one after another).
OneOpenRequest ==
    \A t, u \in Request :
        /\ request[t].contract = request[u].contract
        /\ {request[t].status, request[u].status} \subseteq OpenStatus
        /\ ~ request[t].reopened /\ ~ request[u].reopened
        => t = u

\* What the settlements make of the parties' money. Apart from what an
\* administrator returns above a deposit, money is made only where a deposit
\* is settled that was settled before, and then one deposit at most; it is
\* lost only where a fee was charged, whose receipt the deposit is written
\* over. Penalties and compensations of administrators do either.
PaidDeposits == Amount * Cardinality({c \in Contract : deposit[c] = "paid"})
BooksBalance ==
    LET due == 2 + PaidDeposits + excess IN
    ~ fined =>
        /\ Total(books) <= due + Amount * repeats
        /\ ~ charged => Total(books) >= due

\* Every payout of a deposit has a cause of its own: the contract came into
\* force, by its signatures or by the approval of a renewal after its end, or
\* a report sent a request of it back to the administrator (handlers one
\* after another). The crons, the reviews and the administrators never pay
\* twice for one and the same.
PayoutsCaused == \A c \in Contract : paidOut[c] <= causes[c]

=============================================================================
