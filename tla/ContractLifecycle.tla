------------------------- MODULE ContractLifecycle -------------------------
(***************************************************************************)
(* The life of rental contracts in contract-service up to their end: they  *)
(* are drafted, sent, signed by hand or through VNPT SmartCA, activated,   *)
(* replaced by an update, brought near their end by a cron, and renewed.   *)
(* Terminations and their settlement are added by Termination.             *)
(*                                                                         *)
(* Nearly every handler reads a contract, checks its status, and later     *)
(* writes by id: the check is one step, the write another.                 *)
(***************************************************************************)
EXTENDS Naturals, FiniteSets

CONSTANTS
    Contract,    \* rental_contracts that may come to exist
    Renewal,     \* renewal_requests that may come to exist
    Adjustment,  \* contract_appendices of type adjustment
    AutoRenewal, \* contracts with auto_renewal
    LongTerm,    \* contracts that last RENEWAL_LONG_TERM_DAYS or more
    MaxAutoRenew,\* max_auto_renew_count (3 in the code)
    Slot,        \* handlers in flight at one time
    MaxAppendix, \* bound: appendices of one contract
    MaxCrash,    \* bound: crashes of the process
    Original,    \* bound: contracts that are drafted as such, no update or successor
    Digital,     \* bound: contracts whose parties sign through SmartCA as well
    Handlers,    \* bound: the handlers that are called at all
    None

Role == {"OWNER", "TENANT"}
AllHandlers == {"create", "update", "edit", "send", "tenantSign", "ownerSign", "activate",
                "cancel", "updateExpires", "near", "autoRenew", "sign", "poll",
                "requestRenewal", "reviewRenewal", "createAdjustment", "reviewAdjustment",
                "requestTermination", "reviewTermination", "escalate", "admin", "resolve",
                "report", "resolveReport", "autoTerminate"}

\* Tables hold finitely many rows, and a process runs finitely many handlers.
ASSUME ContractAssumption ==
    /\ IsFiniteSet(Contract) /\ IsFiniteSet(Slot)
    /\ AutoRenewal \subseteq Contract
    /\ LongTerm \subseteq Contract
    /\ Original \subseteq Contract /\ Digital \subseteq Contract
    /\ None \notin Contract \cup Renewal \cup Adjustment
ASSUME LifecycleBoundAssumption ==
    /\ MaxAutoRenew \in Nat /\ MaxAppendix \in Nat /\ MaxCrash \in Nat
    /\ Handlers \subseteq AllHandlers

-----------------------------------------------------------------------------

Status == {"none", "draft", "pending_tenant", "tenant_signed", "pending_landlord",
           "owner_signed", "fully_signed", "active", "near_expiration", "expired",
           "terminated", "renewed", "cancelled", "superseded"}

\* What contract.service calls the valid transitions; send, activate and
\* cancel look it up, the others do not.
ValidTransition(s, t) ==
    t \in CASE s = "draft"            -> {"pending_tenant", "cancelled"}
            [] s = "pending_tenant"   -> {"tenant_signed", "cancelled"}
            [] s = "tenant_signed"    -> {"pending_landlord"}
            [] s = "pending_landlord" -> {"active", "cancelled"}
            [] s = "fully_signed"     -> {"active"}
            [] s = "active"           -> {"expired", "terminated", "renewed", "near_expiration"}
            [] s = "near_expiration"  -> {"expired", "terminated", "renewed", "active"}
            [] OTHER                  -> {}

VARIABLES
    status,       \* status of a contract, none when there is no row
    parent,       \* parent_contract_id of an update
    renewedFrom,  \* renewed_from_contract_id
    inactive,     \* rows whose is_active is false
    deposit,      \* the deposit payment linked to the contract
    lateEdit,     \* contracts rewritten after the tenant had signed them
    signed,       \* owner_signed_at and tenant_signed_at that are set
    sign,         \* owner_sign_status and tenant_sign_status
    session,      \* the SmartCA transaction of a row and its state at VNPT
    inbox,        \* contract.process_signed messages
    renewal,      \* renewal_requests
    adjustment,   \* appendices of type adjustment
    appendices,   \* number of appendices of type renewal
    renewCount,   \* auto_renew_count
    term,         \* where today is in the lease
    lapsed,       \* updates whose update_expiration_time has passed
    job, crashes

contractVars == <<status, parent, renewedFrom, inactive, deposit, lateEdit, signed>>
signingVars == <<sign, session, inbox>>
renewalVars == <<renewal, adjustment, appendices, renewCount>>
timeVars == <<term, lapsed>>
lifeVars == <<contractVars, signingVars, renewalVars, timeVars, job, crashes>>

Term == {"running", "ending", "over"}
Session == {"none", "waiting", "SUCCESS", "REJECTED", "EXPIRED"}
RowStatus == {"none", "pending", "approved", "rejected", "cancelled"}

\* A handler in flight: what it is at, the row it works on, and what it read.
\* The pc of a job is a handler, or the later step of one that writes twice.
Pc == {"idle"} \cup AllHandlers \cup {"renewBase", "extend", "work"}
Job == [pc: Pc,
        on: Contract \cup Renewal \cup Adjustment \cup {None},
        role: Role \cup {None},
        seen: Session \cup RowStatus \cup Contract \cup {"final"}]

JobOf(p, o, r, s) == [pc |-> p, on |-> o, role |-> r, seen |-> s]
Idle == JobOf("idle", None, None, "none")

LifeInit ==
    /\ status = [c \in Contract |-> "none"]
    /\ parent = [c \in Contract |-> None]
    /\ renewedFrom = [c \in Contract |-> None]
    /\ inactive = {}
    /\ deposit = [c \in Contract |-> "none"]
    /\ lateEdit = {}
    /\ signed = {}
    /\ sign = [s \in Contract \X Role |-> "PENDING"]
    /\ session = [s \in Contract \X Role |-> "none"]
    /\ inbox = {}
    /\ renewal = [r \in Renewal |-> [contract |-> None, status |-> "none"]]
    /\ adjustment = [k \in Adjustment |-> [contract |-> None, status |-> "none"]]
    /\ appendices = [c \in Contract |-> 0]
    /\ renewCount = [c \in Contract |-> 0]
    /\ term = [c \in Contract |-> "running"]
    /\ lapsed = {}
    /\ job = [a \in Slot |-> Idle]
    /\ crashes = 0

Begin(a, p, o, r, s) ==
    /\ p \in Handlers \cup {"work"}
    /\ job[a] = Idle
    /\ job' = [job EXCEPT ![a] = JobOf(p, o, r, s)]
Become(a, p) == job' = [job EXCEPT ![a].pc = p]
Finish(a) == job' = [job EXCEPT ![a] = Idle]
At(a, p, o) == job[a].pc = p /\ job[a].on = o

\* Bound: a handler that will make a row starts while there is one to make.
RowLeft(rows) == \E x \in DOMAIN rows : rows[x].status = "none"
ContractLeft == \E n \in Contract : status[n] = "none"

SetStatus(c, s) == status' = [status EXCEPT ![c] = s]
Exists(c) == status[c] # "none"

\* A handler checks and has written nothing yet.
Checked == UNCHANGED <<contractVars, signingVars, renewalVars, timeVars, crashes>>
\* A handler writes the contract and nothing of the signing or the renewals.
OnlyContract == UNCHANGED <<signingVars, renewalVars, timeVars, crashes>>

-----------------------------------------------------------------------------
(* Drafting and sending.                                                   *)

\* From a request the deposit that was paid for it is linked to the contract.
CreateContract(c, fromRequest) ==
    /\ "create" \in Handlers /\ c \in Original
    /\ status[c] = "none"
    /\ SetStatus(c, "draft")
    /\ deposit' = [deposit EXCEPT ![c] = IF fromRequest THEN "paid" ELSE "none"]
    /\ UNCHANGED <<parent, renewedFrom, inactive, lateEdit, signed, signingVars,
                   renewalVars, timeVars, job, crashes>>

PendingUpdate == {"draft", "pending_tenant", "pending_landlord", "tenant_signed", "owner_signed"}

UpdateDraftStart(a, c) ==
    /\ status[c] = "active"
    /\ \A n \in Contract : parent[n] = c => status[n] \notin PendingUpdate
    /\ ContractLeft
    /\ Begin(a, "update", c, None, "none")
    /\ Checked

CreateUpdateDraft(a, c, n) ==
    /\ At(a, "update", c)
    /\ status[n] = "none"
    /\ SetStatus(n, "draft")
    /\ parent' = [parent EXCEPT ![n] = c]
    /\ term' = [term EXCEPT ![n] = term[c]]
    /\ Finish(a)
    /\ UNCHANGED <<renewedFrom, inactive, deposit, lateEdit, signed, signingVars,
                   renewalVars, lapsed, crashes>>

EditStart(a, c) ==
    /\ status[c] = "draft"
    /\ Begin(a, "edit", c, None, "none")
    /\ Checked

UpdateContract(a, c) ==
    /\ At(a, "edit", c)
    /\ lateEdit' = IF <<c, "TENANT">> \in signed THEN lateEdit \cup {c} ELSE lateEdit
    /\ Finish(a)
    /\ UNCHANGED <<status, parent, renewedFrom, inactive, deposit, signed>>
    /\ OnlyContract

SendStart(a, c) ==
    /\ status[c] = "draft"
    /\ ValidTransition(status[c], "pending_tenant")
    /\ Begin(a, "send", c, None, "none")
    /\ Checked

SendToTenant(a, c) ==
    /\ At(a, "send", c)
    /\ SetStatus(c, "pending_tenant")
    /\ Finish(a)
    /\ UNCHANGED <<parent, renewedFrom, inactive, deposit, lateEdit, signed>>
    /\ OnlyContract

-----------------------------------------------------------------------------
(* Signing by hand, activation and cancellation.                           *)

TenantSignStart(a, c) ==
    /\ status[c] = "pending_tenant"
    /\ <<c, "TENANT">> \notin signed
    /\ Begin(a, "tenantSign", c, None, "none")
    /\ Checked

\* A contract that is no update gets its deposit payment, when it has none.
TenantSign(a, c) ==
    /\ At(a, "tenantSign", c)
    /\ SetStatus(c, "pending_landlord")
    /\ signed' = signed \cup {<<c, "TENANT">>}
    /\ deposit' = [deposit EXCEPT
                     ![c] = IF parent[c] = None /\ @ = "none" THEN "pending" ELSE @]
    /\ Finish(a)
    /\ UNCHANGED <<parent, renewedFrom, inactive, lateEdit>>
    /\ OnlyContract

\* Mutant: the owner may sign before the tenant.
OwnerSignStartEarly(a, c) ==
    /\ status[c] \in {"pending_tenant", "pending_landlord", "tenant_signed"}
    /\ <<c, "OWNER">> \notin signed
    /\ parent[c] = None => deposit[c] = "paid"
    /\ Begin(a, "ownerSign", c, None, "none")
    /\ Checked

OwnerSignStart(a, c) ==
    /\ status[c] \in {"pending_landlord", "tenant_signed"}
    /\ <<c, "OWNER">> \notin signed
    /\ parent[c] = None => deposit[c] = "paid"
    /\ Begin(a, "ownerSign", c, None, "none")
    /\ Checked

\* An update that is signed replaces the contract it was made of.
Supersedes(n) == IF parent[n] = None THEN {} ELSE {parent[n]}

OwnerSign(a, c) ==
    /\ At(a, "ownerSign", c)
    /\ status' = [d \in Contract |-> IF d = c THEN "active"
                                     ELSE IF d \in Supersedes(c) THEN "superseded"
                                     ELSE status[d]]
    /\ inactive' = inactive \cup Supersedes(c)
    /\ signed' = signed \cup {<<c, "OWNER">>}
    /\ Finish(a)
    /\ UNCHANGED <<parent, renewedFrom, deposit, lateEdit>>
    /\ OnlyContract

ActivateStart(a, c) ==
    /\ ValidTransition(status[c], "active")
    /\ deposit[c] = "paid"
    /\ Begin(a, "activate", c, None, "none")
    /\ Checked

ActivateContract(a, c) ==
    /\ At(a, "activate", c)
    /\ SetStatus(c, "active")
    /\ Finish(a)
    /\ UNCHANGED <<parent, renewedFrom, inactive, deposit, lateEdit, signed>>
    /\ OnlyContract

CancelStart(a, c) ==
    /\ ValidTransition(status[c], "cancelled")
    /\ Begin(a, "cancel", c, None, "none")
    /\ Checked

CancelContract(a, c) ==
    /\ At(a, "cancel", c)
    /\ SetStatus(c, "cancelled")
    /\ Finish(a)
    /\ UNCHANGED <<parent, renewedFrom, inactive, deposit, lateEdit, signed>>
    /\ OnlyContract

\* The cron finds updates whose time is over, and writes the ids it found.
UpdateExpireFind(a, c) ==
    /\ status[c] \in {"pending_tenant", "pending_landlord", "tenant_signed", "owner_signed"}
    /\ parent[c] # None
    /\ c \in lapsed
    /\ Begin(a, "updateExpires", c, None, "none")
    /\ Checked

UpdateExpireWrite(a, c) ==
    /\ At(a, "updateExpires", c)
    /\ SetStatus(c, "expired")
    /\ Finish(a)
    /\ UNCHANGED <<parent, renewedFrom, inactive, deposit, lateEdit, signed>>
    /\ OnlyContract

-----------------------------------------------------------------------------
(* Signing through VNPT SmartCA: a session at VNPT, polled by the browser,  *)
(* and a message to the worker that puts the signature into the file.       *)

PendingOf(r) == IF r = "OWNER" THEN "pending_landlord" ELSE "pending_tenant"
OtherRole(r) == IF r = "OWNER" THEN "TENANT" ELSE "OWNER"
Answers == {"SUCCESS", "REJECTED", "EXPIRED"}

\* A session that has ended, or that VNPT cannot be asked about, is dropped
\* whatever the status is. The owner signs the file of the tenant's signature.
SignStart(a, c, r) ==
    /\ c \in Digital
    /\ \/ session[<<c, r>>] # "none"
       \/ session[<<c, r>>] = "none" /\ status[c] = PendingOf(r)
    /\ r = "OWNER" => sign[<<c, "TENANT">>] = "DONE"
    /\ Begin(a, "sign", c, r, "none")
    /\ Checked

SignContract(a, c, r) ==
    /\ At(a, "sign", c)
    /\ job[a].role = r
    /\ SetStatus(c, PendingOf(r))
    /\ session' = [session EXCEPT ![<<c, r>>] = "waiting"]
    /\ Finish(a)
    /\ UNCHANGED <<parent, renewedFrom, inactive, deposit, lateEdit, signed, sign, inbox,
                   renewalVars, timeVars, crashes>>

\* No certificate, no file or no answer: the transaction is rolled back.
SignFails(a, c) ==
    /\ At(a, "sign", c)
    /\ Finish(a)
    /\ Checked

\* VNPT: the signer confirms, refuses or lets the session expire.
VnptAnswers(c, r, answer) ==
    /\ session[<<c, r>>] = "waiting"
    /\ session' = [session EXCEPT ![<<c, r>>] = answer]
    /\ UNCHANGED <<contractVars, sign, inbox, renewalVars, timeVars, job, crashes>>

\* The browser polls: VNPT is asked, then the row with this session is read.
PollRead(a, c, r) ==
    /\ session[<<c, r>>] \in Answers
    /\ Begin(a, "poll", c, r, session[<<c, r>>])
    /\ Checked

\* Mutant: the update that claims the signature is not conditional.
PollSuccessAlways(a, c, r) ==
    /\ At(a, "poll", c)
    /\ job[a].role = r /\ job[a].seen = "SUCCESS"
    /\ sign' = [sign EXCEPT ![<<c, r>>] = "PROCESSING"]
    /\ inbox' = inbox \cup {<<c, r>>}
    /\ Finish(a)
    /\ UNCHANGED <<contractVars, session, renewalVars, timeVars, crashes>>

\* Only the poll that moves the signature out of PENDING sends the message.
PollSuccess(a, c, r) ==
    /\ At(a, "poll", c)
    /\ job[a].role = r /\ job[a].seen = "SUCCESS"
    /\ \/ /\ sign[<<c, r>>] = "PENDING"
          /\ sign' = [sign EXCEPT ![<<c, r>>] = "PROCESSING"]
          /\ inbox' = inbox \cup {<<c, r>>}
       \/ /\ sign[<<c, r>>] # "PENDING"
          /\ UNCHANGED <<sign, inbox>>
    /\ Finish(a)
    /\ UNCHANGED <<contractVars, session, renewalVars, timeVars, crashes>>

\* A refused session stays with the row, one that expired is taken from it.
PollRefused(a, c, r) ==
    /\ At(a, "poll", c)
    /\ job[a].role = r /\ job[a].seen \in {"REJECTED", "EXPIRED"}
    /\ SetStatus(c, PendingOf(r))
    /\ session' = [session EXCEPT
                     ![<<c, r>>] = IF job[a].seen = "REJECTED" THEN "REJECTED" ELSE "none"]
    /\ Finish(a)
    /\ UNCHANGED <<parent, renewedFrom, inactive, deposit, lateEdit, signed, sign, inbox,
                   renewalVars, timeVars, crashes>>

\* Mutant: an update is complete with the signature of either party.
CompletesAlone(c, r) == TRUE

\* The worker reads the row, and from it whether this signature completes it.
Completes(c, r) ==
    IF parent[c] # None THEN <<c, OtherRole(r)>> \in signed ELSE r = "OWNER"

ProcessStart(a, c, r) ==
    /\ <<c, r>> \in inbox
    /\ job[a] = Idle
    /\ inbox' = inbox \ {<<c, r>>}
    /\ job' = [job EXCEPT ![a] =
                 IF sign[<<c, r>>] = "DONE" THEN Idle
                 ELSE JobOf("work", c, r, IF Completes(c, r) THEN "final" ELSE "none")]
    /\ UNCHANGED <<contractVars, sign, session, renewalVars, timeVars, crashes>>

\* The file is signed and uploaded, then the row is written whatever its
\* status is by now; an update that is complete replaces its parent.
ProcessSigned(a, c, r) ==
    /\ At(a, "work", c)
    /\ job[a].role = r
    /\ sign[<<c, r>>] # "DONE"
    /\ LET replaced == IF job[a].seen = "final" THEN Supersedes(c) ELSE {} IN
       /\ status' = [d \in Contract |->
                       IF d \in replaced THEN "superseded"
                       ELSE IF d # c THEN status[d]
                       ELSE IF r = "OWNER" THEN "active" ELSE "pending_landlord"]
       /\ inactive' = (IF r = "OWNER" /\ job[a].seen = "final" THEN inactive \ {c} ELSE inactive)
                      \cup replaced
    /\ signed' = signed \cup {<<c, r>>}
    /\ sign' = [sign EXCEPT ![<<c, r>>] = "DONE"]
    /\ Finish(a)
    /\ UNCHANGED <<parent, renewedFrom, deposit, lateEdit, session, inbox,
                   renewalVars, timeVars, crashes>>

\* Any error: the signature is pending again and can be polled again.
ProcessFails(a, c, r) ==
    /\ At(a, "work", c)
    /\ job[a].role = r
    /\ sign' = [sign EXCEPT ![<<c, r>>] = "PENDING"]
    /\ Finish(a)
    /\ UNCHANGED <<contractVars, session, inbox, renewalVars, timeVars, crashes>>

-----------------------------------------------------------------------------
(* The daily crons of a lease that ends.                                   *)

InForce == {"active", "near_expiration"}

NearFind(a, c) ==
    /\ status[c] = "active"
    /\ c \notin inactive
    /\ term[c] = "ending"
    /\ Begin(a, "near", c, None, "none")
    /\ Checked

NearWrite(a, c) ==
    /\ At(a, "near", c)
    /\ SetStatus(c, "near_expiration")
    /\ Finish(a)
    /\ UNCHANGED <<parent, renewedFrom, inactive, deposit, lateEdit, signed>>
    /\ OnlyContract

\* Found at the end of its lease; without this Termination ends it.
LeaseOver(c) == status[c] \in InForce /\ c \notin inactive /\ term[c] = "over"
RenewsItself(c) == c \in AutoRenewal /\ renewCount[c] < MaxAutoRenew

RenewFind(a, c) ==
    /\ LeaseOver(c)
    /\ RenewsItself(c)
    /\ IF c \in LongTerm THEN ContractLeft \/ \E n \in Contract : renewedFrom[n] = c
                        ELSE appendices[c] < MaxAppendix
    /\ Begin(a, "autoRenew", c, None, "none")
    /\ Checked

\* A long lease gets a new contract, active and signed by nobody; the column
\* that names its predecessor is unique.
RenewCreate(a, c, n) ==
    /\ At(a, "autoRenew", c)
    /\ c \in LongTerm
    /\ status[n] = "none"
    /\ \A m \in Contract : renewedFrom[m] # c
    /\ SetStatus(n, "active")
    /\ renewedFrom' = [renewedFrom EXCEPT ![n] = c]
    /\ job' = [job EXCEPT ![a].pc = "renewBase"]
    /\ UNCHANGED <<parent, inactive, deposit, lateEdit, signed>>
    /\ OnlyContract

RenewRefused(a, c) ==
    /\ At(a, "autoRenew", c)
    /\ c \in LongTerm
    /\ \E m \in Contract : renewedFrom[m] = c
    /\ Finish(a)
    /\ Checked

RenewBase(a, c) ==
    /\ At(a, "renewBase", c)
    /\ SetStatus(c, "renewed")
    /\ inactive' = inactive \cup {c}
    /\ renewCount' = [renewCount EXCEPT ![c] = @ + 1]
    /\ Finish(a)
    /\ UNCHANGED <<parent, renewedFrom, deposit, lateEdit, signed, signingVars, renewal,
                   adjustment, appendices, timeVars, crashes>>

\* Mutant: the appendix is not written.
ExtendAppendixUnwritten(a, c) ==
    /\ At(a, "autoRenew", c)
    /\ c \notin LongTerm
    /\ Become(a, "extend")
    /\ Checked

\* A short lease gets an appendix, then its new end: two writes.
ExtendAppendix(a, c) ==
    /\ At(a, "autoRenew", c)
    /\ c \notin LongTerm
    /\ appendices[c] < MaxAppendix
    /\ appendices' = [appendices EXCEPT ![c] = @ + 1]
    /\ Become(a, "extend")
    /\ UNCHANGED <<contractVars, signingVars, renewal, adjustment, renewCount, timeVars, crashes>>

\* Mutant: the lease does not get its new end.
ExtendContractSameEnd(a, c) ==
    /\ At(a, "extend", c)
    /\ SetStatus(c, "active")
    /\ renewCount' = [renewCount EXCEPT ![c] = @ + 1]
    /\ Finish(a)
    /\ UNCHANGED <<parent, renewedFrom, inactive, deposit, lateEdit, signed, signingVars,
                   renewal, adjustment, appendices, timeVars, crashes>>

ExtendContract(a, c) ==
    /\ At(a, "extend", c)
    /\ SetStatus(c, "active")
    /\ term' = [term EXCEPT ![c] = "running"]
    /\ renewCount' = [renewCount EXCEPT ![c] = @ + 1]
    /\ Finish(a)
    /\ UNCHANGED <<parent, renewedFrom, inactive, deposit, lateEdit, signed, signingVars,
                   renewal, adjustment, appendices, lapsed, crashes>>

-----------------------------------------------------------------------------
(* Renewals that the tenant asks for and adjustments that the owner writes. *)

RequestRenewalStart(a, c) ==
    /\ status[c] \in InForce
    /\ \A r \in Renewal : ~ (renewal[r].contract = c /\ renewal[r].status = "pending")
    /\ RowLeft(renewal)
    /\ Begin(a, "requestRenewal", c, None, "none")
    /\ Checked

CreateRenewalRequest(a, c, r) ==
    /\ At(a, "requestRenewal", c)
    /\ renewal[r].status = "none"
    /\ renewal' = [renewal EXCEPT ![r] = [contract |-> c, status |-> "pending"]]
    /\ Finish(a)
    /\ UNCHANGED <<contractVars, signingVars, adjustment, appendices, renewCount, timeVars, crashes>>

ReviewRenewalStart(a, r, answer) ==
    /\ renewal[r].status = "pending"
    /\ answer = "approved" => appendices[renewal[r].contract] < MaxAppendix
    /\ Begin(a, "reviewRenewal", r, None, answer)
    /\ Checked

\* Approval makes the contract active, whatever has become of it.
ApproveRenewalRequest(a, r) ==
    /\ At(a, "reviewRenewal", r)
    /\ job[a].seen = "approved"
    /\ LET c == renewal[r].contract IN
       /\ appendices[c] < MaxAppendix
       /\ SetStatus(c, "active")
       /\ term' = [term EXCEPT ![c] = "running"]
       /\ appendices' = [appendices EXCEPT ![c] = @ + 1]
    /\ renewal' = [renewal EXCEPT ![r].status = "approved"]
    /\ Finish(a)
    /\ UNCHANGED <<parent, renewedFrom, inactive, deposit, lateEdit, signed, signingVars,
                   adjustment, renewCount, lapsed, crashes>>

RejectRenewalRequest(a, r) ==
    /\ At(a, "reviewRenewal", r)
    /\ job[a].seen = "rejected"
    /\ renewal' = [renewal EXCEPT ![r].status = "rejected"]
    /\ Finish(a)
    /\ UNCHANGED <<contractVars, signingVars, adjustment, appendices, renewCount, timeVars, crashes>>

CancelRenewalRequest(a, r) ==
    /\ At(a, "reviewRenewal", r)
    /\ job[a].seen = "cancelled"
    /\ renewal' = [renewal EXCEPT ![r].status = "cancelled"]
    /\ Finish(a)
    /\ UNCHANGED <<contractVars, signingVars, adjustment, appendices, renewCount, timeVars, crashes>>

CreateAdjustmentStart(a, c) ==
    /\ status[c] \in InForce \cup {"renewed"}
    /\ \A k \in Adjustment : ~ (adjustment[k].contract = c /\ adjustment[k].status = "pending")
    /\ RowLeft(adjustment)
    /\ Begin(a, "createAdjustment", c, None, "none")
    /\ Checked

CreateAdjustmentAppendix(a, c, k) ==
    /\ At(a, "createAdjustment", c)
    /\ adjustment[k].status = "none"
    /\ adjustment' = [adjustment EXCEPT ![k] = [contract |-> c, status |-> "pending"]]
    /\ Finish(a)
    /\ UNCHANGED <<contractVars, signingVars, renewal, appendices, renewCount, timeVars, crashes>>

ReviewAdjustmentStart(a, k, answer) ==
    /\ adjustment[k].status = "pending"
    /\ Begin(a, "reviewAdjustment", k, None, answer)
    /\ Checked

ApproveAppendix(a, k) ==
    /\ At(a, "reviewAdjustment", k)
    /\ job[a].seen = "approved"
    /\ adjustment' = [adjustment EXCEPT ![k].status = "approved"]
    /\ Finish(a)
    /\ UNCHANGED <<contractVars, signingVars, renewal, appendices, renewCount, timeVars, crashes>>

RejectAppendix(a, k) ==
    /\ At(a, "reviewAdjustment", k)
    /\ job[a].seen = "rejected"
    /\ adjustment' = [adjustment EXCEPT ![k].status = "rejected"]
    /\ Finish(a)
    /\ UNCHANGED <<contractVars, signingVars, renewal, appendices, renewCount, timeVars, crashes>>

-----------------------------------------------------------------------------
(* The environment.                                                        *)

\* The payment module settles the deposit a contract waits for.
DepositPaid(c) ==
    /\ deposit[c] = "pending"
    /\ deposit' = [deposit EXCEPT ![c] = "paid"]
    /\ UNCHANGED <<status, parent, renewedFrom, inactive, lateEdit, signed, signingVars,
                   renewalVars, timeVars, job, crashes>>

\* Days pass: the end of a lease is near, then it is over.
LeaseAdvances(c) ==
    /\ status[c] \in InForce
    /\ term' = [term EXCEPT ![c] = IF @ = "running" THEN "ending" ELSE "over"]
    /\ term[c] # "over"
    /\ UNCHANGED <<contractVars, signingVars, renewalVars, lapsed, job, crashes>>

UpdateLapses(c) ==
    /\ parent[c] # None
    /\ c \notin lapsed
    /\ lapsed' = lapsed \cup {c}
    /\ UNCHANGED <<contractVars, signingVars, renewalVars, term, job, crashes>>

\* A restart loses every handler, and the messages a worker had taken.
Crash ==
    /\ crashes < MaxCrash
    /\ crashes' = crashes + 1
    /\ job' = [a \in Slot |-> Idle]
    /\ UNCHANGED <<contractVars, signingVars, renewalVars, timeVars>>

-----------------------------------------------------------------------------

Drafting ==
    \/ \E c \in Contract, f \in BOOLEAN : CreateContract(c, f)
    \/ \E a \in Slot, c \in Contract :
        \/ UpdateDraftStart(a, c) \/ \E n \in Contract : CreateUpdateDraft(a, c, n)
        \/ EditStart(a, c) \/ UpdateContract(a, c)
        \/ SendStart(a, c) \/ SendToTenant(a, c)

Signing ==
    \E a \in Slot, c \in Contract :
        \/ TenantSignStart(a, c) \/ TenantSign(a, c)
        \/ OwnerSignStart(a, c) \/ OwnerSign(a, c)
        \/ ActivateStart(a, c) \/ ActivateContract(a, c)
        \/ CancelStart(a, c) \/ CancelContract(a, c)
        \/ UpdateExpireFind(a, c) \/ UpdateExpireWrite(a, c)

SmartCA ==
    \E a \in Slot, c \in Contract, r \in Role :
        \/ SignStart(a, c, r) \/ SignContract(a, c, r) \/ SignFails(a, c)
        \/ \E s \in Answers : VnptAnswers(c, r, s)
        \/ PollRead(a, c, r) \/ PollSuccess(a, c, r) \/ PollRefused(a, c, r)
        \/ ProcessStart(a, c, r) \/ ProcessSigned(a, c, r) \/ ProcessFails(a, c, r)

Lifecycle ==
    \E a \in Slot, c \in Contract :
        \/ NearFind(a, c) \/ NearWrite(a, c)
        \/ RenewFind(a, c) \/ RenewRefused(a, c) \/ RenewBase(a, c)
        \/ \E n \in Contract : RenewCreate(a, c, n)
        \/ ExtendAppendix(a, c) \/ ExtendContract(a, c)

Renewals ==
    \E a \in Slot :
        \/ \E c \in Contract :
            \/ RequestRenewalStart(a, c) \/ CreateAdjustmentStart(a, c)
            \/ \E r \in Renewal : CreateRenewalRequest(a, c, r)
            \/ \E k \in Adjustment : CreateAdjustmentAppendix(a, c, k)
        \/ \E r \in Renewal :
            \/ \E s \in {"approved", "rejected", "cancelled"} : ReviewRenewalStart(a, r, s)
            \/ ApproveRenewalRequest(a, r)
            \/ RejectRenewalRequest(a, r)
            \/ CancelRenewalRequest(a, r)
        \/ \E k \in Adjustment :
            \/ \E s \in {"approved", "rejected"} : ReviewAdjustmentStart(a, k, s)
            \/ ApproveAppendix(a, k)
            \/ RejectAppendix(a, k)

Environment == \E c \in Contract : DepositPaid(c) \/ LeaseAdvances(c) \/ UpdateLapses(c)

LifeNext == Drafting \/ Signing \/ SmartCA \/ Lifecycle \/ Renewals \/ Environment \/ Crash

LifeSpec == LifeInit /\ [][LifeNext]_lifeVars

\* A handler that has begun goes on, and the cron comes to every lease: it
\* runs every minute, and waits in the model only for a free slot.
Continue(a) ==
    \/ \E c \in Contract :
        \/ \E n \in Contract : CreateUpdateDraft(a, c, n) \/ RenewCreate(a, c, n)
        \/ UpdateContract(a, c) \/ SendToTenant(a, c)
        \/ TenantSign(a, c) \/ OwnerSign(a, c) \/ ActivateContract(a, c) \/ CancelContract(a, c)
        \/ UpdateExpireWrite(a, c) \/ NearWrite(a, c)
        \/ RenewRefused(a, c) \/ RenewBase(a, c) \/ ExtendAppendix(a, c) \/ ExtendContract(a, c)
        \/ \E r \in Renewal : CreateRenewalRequest(a, c, r)
        \/ \E k \in Adjustment : CreateAdjustmentAppendix(a, c, k)
    \/ \E r \in Renewal :
        ApproveRenewalRequest(a, r) \/ RejectRenewalRequest(a, r) \/ CancelRenewalRequest(a, r)
    \/ \E k \in Adjustment : ApproveAppendix(a, k) \/ RejectAppendix(a, k)
Fairness ==
    /\ \A a \in Slot : WF_lifeVars(Continue(a))
    /\ \A c \in Contract : SF_lifeVars(\E a \in Slot : RenewFind(a, c))
FairLifeSpec == LifeSpec /\ Fairness

-----------------------------------------------------------------------------
(* Properties.                                                             *)

\* Every variable holds a value of its kind.
LifeTypeOK ==
    /\ status \in [Contract -> Status]
    /\ parent \in [Contract -> Contract \cup {None}]
    /\ renewedFrom \in [Contract -> Contract \cup {None}]
    /\ inactive \subseteq Contract
    /\ deposit \in [Contract -> {"none", "pending", "paid"}]
    /\ lateEdit \subseteq Contract
    /\ signed \subseteq Contract \X Role
    /\ sign \in [Contract \X Role -> {"PENDING", "PROCESSING", "DONE"}]
    /\ session \in [Contract \X Role -> Session]
    /\ inbox \subseteq Contract \X Role
    /\ renewal \in [Renewal -> [contract: Contract \cup {None}, status: RowStatus]]
    /\ adjustment \in [Adjustment -> [contract: Contract \cup {None}, status: RowStatus]]
    /\ appendices \in [Contract -> Nat]
    /\ renewCount \in [Contract -> Nat]
    /\ term \in [Contract -> Term]
    /\ lapsed \subseteq Contract
    /\ job \in [Slot -> Job]
    /\ crashes \in Nat

\* No contract comes into force that its tenant never signed, except the one
\* that follows a long lease by itself, however the handlers that check a
\* status and later write by id overlap, and whatever SmartCA makes of it.
TenantSignedFirst ==
    \A c \in Contract :
        status[c] \in InForce => renewedFrom[c] # None \/ <<c, "TENANT">> \in signed

\* A contract is superseded only by an update that both parties have signed,
\* although the worker decides that on a row it read before it signed.
SupersededBySigned ==
    \A c \in Contract :
        status[c] = "superseded" =>
            \E n \in Contract : parent[n] = c /\ {n} \X Role \subseteq signed

\* A signature is put into the file by one worker at a time, however often
\* the browser polls: SUCCESS is claimed by a conditional update.
Working(c, r) == {a \in Slot : job[a].pc = "work" /\ job[a].on = c /\ job[a].role = r}
OneWorkerPerSignature ==
    \A c \in Contract, r \in Role :
        /\ <<c, r>> \in inbox \/ Working(c, r) # {} => sign[<<c, r>>] = "PROCESSING"
        /\ \A a, b \in Working(c, r) : a = b
        /\ ~ (<<c, r>> \in inbox /\ Working(c, r) # {})

\* What was extended is on record: a process that stops between the appendix
\* and the contract leaves an appendix too many, never an extension without one.
ExtensionsOnRecord ==
    \A c \in Contract :
        renewCount[c] <= appendices[c] + Cardinality({n \in Contract : renewedFrom[n] = c})

\* A lease that renews itself is renewed once it is over; a process that stops
\* between the successor and its predecessor leaves both for ever.
LeaseRenews ==
    \A c \in Contract :
        LeaseOver(c) /\ RenewsItself(c) ~> (~ LeaseOver(c) \/ crashes > 0)
=============================================================================
