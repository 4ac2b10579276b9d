--------------------------- MODULE TenancyProofs ---------------------------
(***************************************************************************)
(* Invariants of contracts from their draft to their settlement, for any   *)
(* number of contracts, renewals and handlers in flight.                   *)
(***************************************************************************)
EXTENDS Termination, FiniteSetTheorems, TLAPS

\* The handlers that work on a contract and the later steps of them.
OnContract == Pc \ {"idle", "reviewRenewal", "reviewAdjustment"}
SigningPc == {"sign", "poll", "work"}

\* Rows that name a contract, and handlers that work on one, have it.
RowsExist ==
    /\ \A c \in Contract :
        /\ parent[c] # None => status[c] # "none"
        /\ renewedFrom[c] # None => status[c] # "none"
        /\ deposit[c] # "none" => status[c] # "none"
        /\ \A r \in Role : session[<<c, r>>] # "none" \/ <<c, r>> \in inbox => status[c] # "none"
    /\ \A a \in Slot, c \in Contract :
        job[a].on = c /\ job[a].pc \in OnContract => status[c] # "none"

\* What the tenant has signed or the cron has made of another contract.
TenantSigned(c) == <<c, "TENANT">> \in signed
Backed(c) == renewedFrom[c] # None \/ TenantSigned(c)

AfterTenant == {"tenant_signed", "pending_landlord", "owner_signed", "fully_signed"} \cup InForce
NeedsBacked == {"ownerSign", "activate", "near", "autoRenew", "renewBase", "extend",
                "requestRenewal"}

\* A row that is past the tenant's turn, and a handler that checked so, has
\* the tenant's signature; so has whatever the owner's turn has left behind.
SignedInTurn ==
    /\ \A c \in Contract :
        /\ status[c] \in AfterTenant => Backed(c)
        /\ sign[<<c, "TENANT">>] = "DONE" => TenantSigned(c)
        /\ session[<<c, "OWNER">>] # "none" => TenantSigned(c)
        /\ <<c, "OWNER">> \in inbox => TenantSigned(c)
    /\ \A a \in Slot, c \in Contract : job[a].on = c =>
        /\ job[a].pc \in NeedsBacked => Backed(c)
        /\ job[a].pc \in SigningPc /\ job[a].role = "OWNER" => TenantSigned(c)
    /\ \A r \in Renewal : renewal[r].status # "none" =>
        renewal[r].contract \in Contract /\ Backed(renewal[r].contract)
    /\ \A a \in Slot : job[a].pc = "reviewRenewal" =>
        job[a].on \in Renewal /\ renewal[job[a].on].status # "none"

\* An update follows no contract by itself, and the worker that completes one
\* has read the other signature.
CompleteUpdates ==
    /\ SupersededBySigned
    /\ \A c \in Contract : parent[c] = None \/ renewedFrom[c] = None
    /\ \A a \in Slot, c \in Contract :
        /\ job[a].pc = "work" /\ job[a].on = c /\ job[a].seen = "final"
        /\ parent[c] # None
        => <<c, OtherRole(job[a].role)>> \in signed

\* Handlers that have put an extension on record and still have to count it.
Owing(c) == {a \in Slot : job[a].pc \in {"extend", "renewBase"} /\ job[a].on = c}
Successors(c) == {n \in Contract : renewedFrom[n] = c}
ExtensionsOwed ==
    \A c \in Contract :
        renewCount[c] + Cardinality(Owing(c)) <= appendices[c] + Cardinality(Successors(c))

\* The inductive invariant of the lives of contracts.
LifeInv ==
    /\ LifeTypeOK /\ RowsExist /\ SignedInTurn
    /\ CompleteUpdates /\ OneWorkerPerSignature /\ ExtensionsOwed

-----------------------------------------------------------------------------
(* Every variable keeps its type.                                          *)

\* A handler begins, goes on or is done: what that makes of the other handlers.
Takes(a, j) == job' = [job EXCEPT ![a] = j]

LEMMA JobsMove ==
    ASSUME job \in [Slot -> Job], NEW a \in Slot
    PROVE  /\ \A j : Takes(a, j) => \A b \in Slot : job'[b] = IF b = a THEN j ELSE job[b]
           /\ \A p : Become(a, p) =>
                /\ \A b \in Slot \ {a} : job'[b] = job[b]
                /\ job'[a].pc = p /\ job'[a].on = job[a].on
                /\ job'[a].role = job[a].role /\ job'[a].seen = job[a].seen
           /\ Finish(a) <=> Takes(a, Idle)
<1>1. ASSUME NEW p, Become(a, p)
      PROVE  /\ \A b \in Slot \ {a} : job'[b] = job[b]
             /\ job'[a].pc = p /\ job'[a].on = job[a].on
             /\ job'[a].role = job[a].role /\ job'[a].seen = job[a].seen
  <2>1. job[a] \in Job
    OBVIOUS
  <2>2. job'[a] = [job[a] EXCEPT !.pc = p]
    BY <1>1 DEF Become
  <2>3. job'[a] = [pc |-> p, on |-> job[a].on, role |-> job[a].role, seen |-> job[a].seen]
    BY <2>1, <2>2 DEF Job
  <2> QED
    BY <1>1, <2>3 DEF Become
<1> QED
  BY <1>1 DEF Takes, Finish

LEMMA JobFields ==
    /\ \A p, o, r, s : /\ JobOf(p, o, r, s).pc = p /\ JobOf(p, o, r, s).on = o
                       /\ JobOf(p, o, r, s).role = r /\ JobOf(p, o, r, s).seen = s
    /\ Idle.pc = "idle" /\ Idle.on = None /\ Idle.role = None /\ Idle.seen = "none"
BY DEF JobOf, Idle

LEMMA JobsTyped ==
    ASSUME job \in [Slot -> Job], NEW a \in Slot
    PROVE  /\ Finish(a) => job' \in [Slot -> Job]
           /\ \A p \in Pc : Become(a, p) => job' \in [Slot -> Job]
           /\ \A p \in Pc, o \in Contract \cup Renewal \cup Adjustment, r \in Role \cup {None},
                 s \in Session \cup RowStatus \cup Contract \cup {"final"} :
                 Takes(a, JobOf(p, o, r, s)) => job' \in [Slot -> Job]
<1>1. Idle \in Job
  BY DEF Idle, JobOf, Job, Pc, Session
<1>2. \A p \in Pc : [job[a] EXCEPT !.pc = p] \in Job
  BY DEF Job
<1> QED
  BY <1>1, <1>2 DEF Finish, Become, Takes, JobOf, Job

\* The handlers that check a contract and have not written yet.
Checks(a, c) ==
    \/ UpdateDraftStart(a, c) \/ EditStart(a, c) \/ SendStart(a, c)
    \/ TenantSignStart(a, c) \/ OwnerSignStart(a, c) \/ ActivateStart(a, c)
    \/ CancelStart(a, c) \/ UpdateExpireFind(a, c) \/ NearFind(a, c) \/ RenewFind(a, c)
    \/ RequestRenewalStart(a, c) \/ CreateAdjustmentStart(a, c)

\* The handlers that write a status and nothing else.
WritesStatus(a, c) ==
    \/ SendToTenant(a, c) \/ ActivateContract(a, c) \/ CancelContract(a, c)
    \/ UpdateExpireWrite(a, c) \/ NearWrite(a, c)

\* The handlers whose end leaves what the invariants speak of as it is.
EndsQuietly(a) ==
    \/ \E c \in Contract : UpdateContract(a, c) \/ SignFails(a, c) \/ RenewRefused(a, c)
    \/ \E c \in Contract, k \in Adjustment : CreateAdjustmentAppendix(a, c, k)
    \/ \E k \in Adjustment : ApproveAppendix(a, k) \/ RejectAppendix(a, k)

ReviewStarts(a) ==
    \/ \E r \in Renewal, s \in {"approved", "rejected", "cancelled"} : ReviewRenewalStart(a, r, s)
    \/ \E k \in Adjustment, s \in {"approved", "rejected"} : ReviewAdjustmentStart(a, k, s)

RenewalEnds(a, r) == RejectRenewalRequest(a, r) \/ CancelRenewalRequest(a, r)

\* The columns of contracts, signatures and renewals that are related.
Columns == <<status, parent, renewedFrom, inactive, deposit, signed, sign, session, inbox,
             renewal, appendices, renewCount>>

\* Lease dates and updates' deadlines matter to no signature.
TimePasses == \E c \in Contract : LeaseAdvances(c) \/ UpdateLapses(c)

\* Every step is one of these.
LEMMA LifeSteps ==
    ASSUME LifeNext
    PROVE  \/ \E c \in Contract, f \in BOOLEAN : CreateContract(c, f)
           \/ \E c \in Contract : DepositPaid(c)
           \/ TimePasses \/ Crash
           \/ \E c \in Contract, r \in Role, s \in Answers : VnptAnswers(c, r, s)
           \/ \E a \in Slot :
                \/ EndsQuietly(a) \/ ReviewStarts(a)
                \/ \E c \in Contract :
                    \/ Checks(a, c) \/ WritesStatus(a, c)
                    \/ \E n \in Contract : CreateUpdateDraft(a, c, n) \/ RenewCreate(a, c, n)
                    \/ TenantSign(a, c) \/ OwnerSign(a, c)
                    \/ RenewBase(a, c) \/ ExtendAppendix(a, c) \/ ExtendContract(a, c)
                    \/ \E r \in Renewal : CreateRenewalRequest(a, c, r)
                    \/ \E r \in Role :
                        \/ SignStart(a, c, r) \/ SignContract(a, c, r)
                        \/ PollRead(a, c, r) \/ PollSuccess(a, c, r) \/ PollRefused(a, c, r)
                        \/ ProcessStart(a, c, r) \/ ProcessSigned(a, c, r)
                        \/ ProcessFails(a, c, r)
                \/ \E r \in Renewal : ApproveRenewalRequest(a, r) \/ RenewalEnds(a, r)
<1>1. CASE Drafting
  BY <1>1 DEF Drafting, Checks, WritesStatus, EndsQuietly
<1>2. CASE Signing
  BY <1>2 DEF Signing, Checks, WritesStatus
<1>3. CASE SmartCA
  BY <1>3 DEF SmartCA, EndsQuietly
<1>4. CASE Lifecycle
  BY <1>4 DEF Lifecycle, Checks, WritesStatus, EndsQuietly
<1>5. CASE Renewals
  BY <1>5 DEF Renewals, Checks, EndsQuietly, ReviewStarts, RenewalEnds
<1>6. CASE Environment
  BY <1>6 DEF Environment, TimePasses
<1> QED
  BY <1>1, <1>2, <1>3, <1>4, <1>5, <1>6 DEF LifeNext

\* What a handler that does not sign or renew is at.
Plain == OnContract \ (SigningPc \cup {"extend", "renewBase"})

LEMMA ChecksDo ==
    ASSUME NEW a \in Slot, NEW c \in Contract, Checks(a, c)
    PROVE  /\ job[a] = Idle /\ Checked /\ status[c] # "none"
           /\ \E p \in Plain : /\ Takes(a, JobOf(p, c, None, "none"))
                               /\ p \in NeedsBacked => status[c] \in AfterTenant
BY DEF Checks, Takes, Begin, Plain, OnContract, SigningPc, Pc, AllHandlers, NeedsBacked,
   AfterTenant, InForce, PendingUpdate, ValidTransition, LeaseOver, UpdateDraftStart, EditStart,
   SendStart, TenantSignStart, OwnerSignStart, ActivateStart, CancelStart, UpdateExpireFind,
   NearFind, RenewFind, RequestRenewalStart, CreateAdjustmentStart

LEMMA WritesDo ==
    ASSUME NEW a \in Slot, NEW c \in Contract, WritesStatus(a, c)
    PROVE  /\ job[a].on = c /\ job[a].pc \in Plain /\ Takes(a, Idle)
           /\ UNCHANGED <<parent, renewedFrom, inactive, deposit, lateEdit, signed>>
           /\ OnlyContract
           /\ \E s \in Status \ {"none", "superseded"} :
                 /\ SetStatus(c, s)
                 /\ s \in AfterTenant => job[a].pc \in NeedsBacked
BY DEF WritesStatus, Takes, Finish, At, Plain, OnContract, SigningPc, Pc, AllHandlers,
   NeedsBacked, AfterTenant, InForce, Status, SendToTenant, ActivateContract, CancelContract,
   UpdateExpireWrite, NearWrite

LEMMA QuietDo ==
    ASSUME NEW a \in Slot, EndsQuietly(a)
    PROVE  /\ UNCHANGED <<Columns, term, lapsed, crashes>> /\ Takes(a, Idle)
           /\ job[a].pc \notin {"idle", "work", "extend", "renewBase"}
BY DEF EndsQuietly, Columns, Takes, Finish, At, Checked, OnlyContract, contractVars, signingVars,
   renewalVars, timeVars, UpdateContract, SignFails, RenewRefused, CreateAdjustmentAppendix,
   ApproveAppendix, RejectAppendix

LEMMA ReviewsDo ==
    ASSUME NEW a \in Slot, ReviewStarts(a)
    PROVE  /\ job[a] = Idle /\ Checked
           /\ \/ \E r \in Renewal, s \in RowStatus :
                    /\ Takes(a, JobOf("reviewRenewal", r, None, s))
                    /\ renewal[r].status # "none"
              \/ \E k \in Adjustment, s \in RowStatus :
                    Takes(a, JobOf("reviewAdjustment", k, None, s))
BY DEF ReviewStarts, ReviewRenewalStart, ReviewAdjustmentStart, Takes, Begin, RowStatus

-----------------------------------------------------------------------------
(* Every variable keeps its type.                                          *)

Rows == [contract: Contract \cup {None}, status: RowStatus]

LEMMA RowsTyped ==
    ASSUME NEW S, NEW f \in [S -> Rows], NEW r \in S, NEW s \in RowStatus, NEW c \in Contract
    PROVE  /\ [f EXCEPT ![r] = [contract |-> c, status |-> s]] \in [S -> Rows]
           /\ [f EXCEPT ![r].status = s] \in [S -> Rows]
<1>1. [f[r] EXCEPT !.status = s] \in Rows
  BY DEF Rows
<1> QED
  BY <1>1 DEF Rows

LEMMA LifeTypes == LifeTypeOK /\ LifeNext => LifeTypeOK'
<1> SUFFICES ASSUME LifeTypeOK, LifeNext PROVE LifeTypeOK'
  OBVIOUS
<1> USE DEF contractVars, signingVars, renewalVars, timeVars, OnlyContract, Checked
<1>1. ASSUME NEW c \in Contract,
             (\E f \in BOOLEAN : CreateContract(c, f)) \/ DepositPaid(c) PROVE LifeTypeOK'
  BY <1>1 DEF CreateContract, DepositPaid, LifeTypeOK, SetStatus, Status
<1>2. CASE TimePasses \/ Crash
  <2>1. Idle \in Job
    BY DEF Idle, JobOf, Job, Pc, Session
  <2> QED
    BY <1>2, <2>1 DEF TimePasses, LeaseAdvances, UpdateLapses, Crash, LifeTypeOK, Term
<1>3. ASSUME NEW c \in Contract, NEW r \in Role, NEW s \in Answers, VnptAnswers(c, r, s)
      PROVE  LifeTypeOK'
  BY <1>3 DEF VnptAnswers, LifeTypeOK, Answers, Session
<1>4. ASSUME NEW a \in Slot, EndsQuietly(a) PROVE LifeTypeOK'
  <2>1. job' \in [Slot -> Job]
    BY <1>4, JobsTyped DEF EndsQuietly, LifeTypeOK, UpdateContract, SignFails, RenewRefused,
       CreateAdjustmentAppendix, ApproveAppendix, RejectAppendix
  <2>2. adjustment' \in [Adjustment -> Rows]
    <3>1. adjustment \in [Adjustment -> Rows]
      BY DEF LifeTypeOK, Rows
    <3>2. \/ UNCHANGED adjustment
          \/ \E k \in Adjustment, s \in RowStatus : adjustment' = [adjustment EXCEPT ![k].status = s]
          \/ \E k \in Adjustment, c \in Contract :
                adjustment' = [adjustment EXCEPT ![k] = [contract |-> c, status |-> "pending"]]
      BY <1>4 DEF EndsQuietly, UpdateContract, SignFails, RenewRefused, CreateAdjustmentAppendix,
         ApproveAppendix, RejectAppendix, RowStatus
    <3>3. ASSUME NEW k \in Adjustment, NEW s \in RowStatus,
                 adjustment' = [adjustment EXCEPT ![k].status = s]
          PROVE  adjustment' \in [Adjustment -> Rows]
      BY <3>1, <3>3, RowsTyped, [adjustment[k] EXCEPT !.status = s] \in Rows DEF Rows
    <3>4. \A c \in Contract : [contract |-> c, status |-> "pending"] \in Rows
      BY DEF Rows, RowStatus
    <3> QED
      BY <3>1, <3>2, <3>3, <3>4
  <2>3. lateEdit' \subseteq Contract
    BY <1>4 DEF EndsQuietly, LifeTypeOK, UpdateContract, SignFails, RenewRefused,
       CreateAdjustmentAppendix, ApproveAppendix, RejectAppendix
  <2> QED
    BY <1>4, <2>1, <2>2, <2>3, QuietDo DEF LifeTypeOK, Columns, Rows
<1>5. ASSUME NEW a \in Slot, ReviewStarts(a) PROVE LifeTypeOK'
  <2>1. job' \in [Slot -> Job]
    BY <1>5, ReviewsDo, JobsTyped DEF LifeTypeOK, Pc, AllHandlers
  <2> QED
    BY <1>5, <2>1, ReviewsDo DEF LifeTypeOK
<1>6. ASSUME NEW a \in Slot, NEW c \in Contract, Checks(a, c) PROVE LifeTypeOK'
  <2>1. job' \in [Slot -> Job]
    BY <1>6, ChecksDo, JobsTyped DEF LifeTypeOK, Plain, OnContract, Session
  <2> QED
    BY <1>6, <2>1, ChecksDo DEF LifeTypeOK
<1>7. ASSUME NEW a \in Slot, NEW c \in Contract,
             \/ WritesStatus(a, c) \/ TenantSign(a, c) \/ OwnerSign(a, c)
             \/ \E n \in Contract : CreateUpdateDraft(a, c, n)
      PROVE  LifeTypeOK'
  <2>1. Finish(a)
    BY <1>7, WritesDo DEF Finish, Takes, TenantSign, OwnerSign, CreateUpdateDraft
  <2>2. job' \in [Slot -> Job]
    BY <2>1, JobsTyped DEF LifeTypeOK
  <2>3. CASE WritesStatus(a, c)
    BY <2>2, <2>3, WritesDo DEF LifeTypeOK, SetStatus
  <2>4. CASE TenantSign(a, c) \/ OwnerSign(a, c)
    <3>1. signed' \subseteq Contract \X Role
      BY <2>4 DEF TenantSign, OwnerSign, LifeTypeOK, Role
    <3>2. status' \in [Contract -> Status]
      BY <2>4 DEF TenantSign, OwnerSign, LifeTypeOK, SetStatus, Status
    <3>3. inactive' \subseteq Contract
      BY <2>4 DEF TenantSign, OwnerSign, Supersedes, LifeTypeOK
    <3> QED
      BY <2>2, <2>4, <3>1, <3>2, <3>3 DEF TenantSign, OwnerSign, LifeTypeOK
  <2>5. CASE \E n \in Contract : CreateUpdateDraft(a, c, n)
    BY <2>2, <2>5 DEF CreateUpdateDraft, LifeTypeOK, SetStatus, Status
  <2> QED
    BY <1>7, <2>3, <2>4, <2>5
<1>8. ASSUME NEW a \in Slot, NEW c \in Contract,
             \/ RenewBase(a, c) \/ ExtendAppendix(a, c) \/ ExtendContract(a, c)
             \/ \E n \in Contract : RenewCreate(a, c, n)
             \/ \E r \in Renewal : CreateRenewalRequest(a, c, r)
      PROVE  LifeTypeOK'
  <2>1. job' \in [Slot -> Job]
    BY <1>8, JobsTyped DEF LifeTypeOK, Become, Pc, RenewBase, ExtendAppendix, ExtendContract,
       RenewCreate, CreateRenewalRequest
  <2>2. CASE RenewBase(a, c)
    BY <2>1, <2>2 DEF RenewBase, LifeTypeOK, SetStatus, Status
  <2>3. CASE ExtendAppendix(a, c)
    BY <2>1, <2>3 DEF ExtendAppendix, LifeTypeOK
  <2>4. CASE ExtendContract(a, c)
    BY <2>1, <2>4 DEF ExtendContract, LifeTypeOK, SetStatus, Status, Term
  <2>5. CASE \E n \in Contract : RenewCreate(a, c, n)
    BY <2>1, <2>5 DEF RenewCreate, LifeTypeOK, SetStatus, Status
  <2>6. CASE \E r \in Renewal : CreateRenewalRequest(a, c, r)
    BY <2>1, <2>6, RowsTyped DEF CreateRenewalRequest, LifeTypeOK, Rows, RowStatus
  <2> QED
    BY <1>8, <2>2, <2>3, <2>4, <2>5, <2>6
<1>9. ASSUME NEW a \in Slot, NEW c \in Contract, NEW r \in Role,
             \/ SignStart(a, c, r) \/ SignContract(a, c, r)
             \/ PollRead(a, c, r) \/ PollSuccess(a, c, r) \/ PollRefused(a, c, r)
             \/ ProcessStart(a, c, r) \/ ProcessSigned(a, c, r) \/ ProcessFails(a, c, r)
      PROVE  LifeTypeOK'
  <2>1. \/ Finish(a)
        \/ \E p \in Pc, s \in Session \cup {"final"} : Takes(a, JobOf(p, c, r, s))
    BY <1>9 DEF SignStart, SignContract, PollRead, PollSuccess, PollRefused, ProcessStart,
       ProcessSigned, ProcessFails, Finish, Takes, Begin, Pc, AllHandlers, Session, Answers
  <2>2. job' \in [Slot -> Job]
    BY <2>1, JobsTyped DEF LifeTypeOK
  <2>3. CASE ProcessSigned(a, c, r)
    BY <2>2, <2>3 DEF ProcessSigned, Supersedes, LifeTypeOK, Status
  <2>4. <<c, r>> \in Contract \X Role
    BY <1>9
  <2>5. CASE SignContract(a, c, r) \/ PollRefused(a, c, r)
    BY <2>2, <2>4, <2>5 DEF SignContract, PollRefused, LifeTypeOK, SetStatus, PendingOf, Status,
       Session
  <2>6. CASE PollSuccess(a, c, r) \/ ProcessFails(a, c, r)
    BY <2>2, <2>4, <2>6 DEF PollSuccess, ProcessFails, LifeTypeOK
  <2>7. CASE SignStart(a, c, r) \/ PollRead(a, c, r) \/ ProcessStart(a, c, r)
    BY <2>2, <2>7 DEF SignStart, PollRead, ProcessStart, LifeTypeOK
  <2> QED
    BY <1>9, <2>3, <2>5, <2>6, <2>7
<1>10. ASSUME NEW a \in Slot, NEW r \in Renewal,
              ApproveRenewalRequest(a, r) \/ RenewalEnds(a, r)
       PROVE  LifeTypeOK'
  <2>1. job' \in [Slot -> Job]
    BY <1>10, JobsTyped DEF LifeTypeOK, ApproveRenewalRequest, RenewalEnds, RejectRenewalRequest,
       CancelRenewalRequest
  <2>2. renewal' \in [Renewal -> Rows]
    <3>1. renewal \in [Renewal -> Rows]
      BY DEF LifeTypeOK, Rows
    <3>2. PICK s \in RowStatus : renewal' = [renewal EXCEPT ![r].status = s]
      BY <1>10 DEF ApproveRenewalRequest, RenewalEnds, RejectRenewalRequest, CancelRenewalRequest,
         RowStatus
    <3>3. [renewal[r] EXCEPT !.status = s] \in Rows
      BY <3>1 DEF Rows
    <3> QED
      BY <3>1, <3>2, <3>3
  <2>3. CASE ApproveRenewalRequest(a, r)
    <3>1. status' \in [Contract -> Status]
      BY <2>3 DEF ApproveRenewalRequest, LifeTypeOK, SetStatus, Status
    <3>2. term' \in [Contract -> Term]
      BY <2>3 DEF ApproveRenewalRequest, LifeTypeOK, Term
    <3>3. appendices' \in [Contract -> Nat]
      <4> DEFINE c == renewal[r].contract
      <4>1. appendices' = [d \in Contract |-> IF d = c THEN appendices[d] + 1 ELSE appendices[d]]
        BY <2>3 DEF ApproveRenewalRequest, LifeTypeOK
      <4> HIDE DEF c
      <4> QED
        BY <4>1 DEF LifeTypeOK
    <3> QED
      BY <2>1, <2>2, <2>3, <3>1, <3>2, <3>3 DEF ApproveRenewalRequest, LifeTypeOK, Rows
  <2>4. CASE RenewalEnds(a, r)
    BY <2>1, <2>2, <2>4 DEF RenewalEnds, RejectRenewalRequest, CancelRenewalRequest, LifeTypeOK, Rows
  <2> QED
    BY <1>10, <2>3, <2>4
<1> QED
  BY <1>1, <1>2, <1>3, <1>4, <1>5, <1>6, <1>7, <1>8, <1>9, <1>10, LifeSteps

-----------------------------------------------------------------------------
(* Contracts that are named exist, and no contract is deleted.             *)

\* What a step does to the handlers: one of them goes on, or all are lost.
LEMMA RowsRemain ==
    LifeTypeOK /\ RowsExist /\ LifeNext => \A c \in Contract : Exists(c) => Exists(c)'
<1> SUFFICES ASSUME LifeTypeOK, RowsExist, LifeNext, NEW d \in Contract, Exists(d) PROVE Exists(d)'
  OBVIOUS
<1> USE DEF contractVars, signingVars, renewalVars, timeVars, OnlyContract, Checked, Columns
<1>1. ASSUME NEW c \in Contract,
             (\E f \in BOOLEAN : CreateContract(c, f)) \/ DepositPaid(c) PROVE Exists(d)'
  BY <1>1 DEF CreateContract, DepositPaid, LifeTypeOK, SetStatus, Exists
<1>2. ASSUME UNCHANGED status PROVE Exists(d)'
  BY <1>2 DEF Exists
<1>3. CASE TimePasses \/ Crash
  BY <1>2, <1>3 DEF TimePasses, LeaseAdvances, UpdateLapses, Crash
<1>4. ASSUME NEW c \in Contract, NEW r \in Role, NEW s \in Answers, VnptAnswers(c, r, s)
      PROVE  Exists(d)'
  BY <1>2, <1>4 DEF VnptAnswers
<1>5. ASSUME NEW a \in Slot, EndsQuietly(a) \/ ReviewStarts(a) PROVE Exists(d)'
  BY <1>2, <1>5, QuietDo, ReviewsDo
<1>6. ASSUME NEW a \in Slot, NEW c \in Contract, Checks(a, c) PROVE Exists(d)'
  BY <1>2, <1>6, ChecksDo
<1>7. ASSUME NEW a \in Slot, NEW c \in Contract,
             \/ WritesStatus(a, c) \/ TenantSign(a, c) \/ OwnerSign(a, c)
             \/ \E n \in Contract : CreateUpdateDraft(a, c, n) \/ RenewCreate(a, c, n)
             \/ RenewBase(a, c) \/ ExtendAppendix(a, c) \/ ExtendContract(a, c)
             \/ \E r \in Renewal : CreateRenewalRequest(a, c, r)
      PROVE  Exists(d)'
  BY <1>7, WritesDo DEF LifeTypeOK, SetStatus, Exists, TenantSign, OwnerSign, CreateUpdateDraft,
     RenewCreate, RenewBase, ExtendAppendix, ExtendContract, CreateRenewalRequest
<1>8. ASSUME NEW a \in Slot, NEW c \in Contract, NEW r \in Role,
             \/ SignStart(a, c, r) \/ SignContract(a, c, r)
             \/ PollRead(a, c, r) \/ PollSuccess(a, c, r) \/ PollRefused(a, c, r)
             \/ ProcessStart(a, c, r) \/ ProcessSigned(a, c, r) \/ ProcessFails(a, c, r)
      PROVE  Exists(d)'
  BY <1>8 DEF LifeTypeOK, SetStatus, Exists, PendingOf, SignStart, SignContract, PollRead,
     PollSuccess, PollRefused, ProcessStart, ProcessSigned, ProcessFails
<1>9. ASSUME NEW a \in Slot, NEW r \in Renewal,
             ApproveRenewalRequest(a, r) \/ RenewalEnds(a, r)
      PROVE  Exists(d)'
  BY <1>9 DEF LifeTypeOK, SetStatus, Exists, ApproveRenewalRequest, RenewalEnds,
     RejectRenewalRequest, CancelRenewalRequest
<1> QED
  BY <1>1, <1>3, <1>4, <1>5, <1>6, <1>7, <1>8, <1>9, LifeSteps

LEMMA ExistStep == LifeTypeOK /\ RowsExist /\ LifeNext => RowsExist'
<1> SUFFICES ASSUME LifeTypeOK, RowsExist, LifeNext PROVE RowsExist'
  OBVIOUS
<1> USE DEF contractVars, signingVars, renewalVars, timeVars, OnlyContract, Checked, Columns
<1>1. \A c \in Contract : status[c] # "none" => status'[c] # "none"
  BY RowsRemain DEF Exists
<1>2. ASSUME UNCHANGED <<parent, renewedFrom, deposit, session, inbox>>,
             NEW a \in Slot, NEW j, Takes(a, j),
             j.pc \in OnContract /\ j.on \in Contract => status[j.on] # "none"
      PROVE  RowsExist'
  <2>1. \A b \in Slot : job'[b] = IF b = a THEN j ELSE job[b]
    BY <1>2 DEF Takes, LifeTypeOK
  <2> QED
    BY <1>1, <1>2, <2>1 DEF RowsExist
<1>3. ASSUME NEW c \in Contract,
             (\E f \in BOOLEAN : CreateContract(c, f)) \/ DepositPaid(c) PROVE RowsExist'
  BY <1>1, <1>3 DEF CreateContract, DepositPaid, SetStatus, LifeTypeOK, RowsExist
<1>4. CASE TimePasses
  BY <1>1, <1>4 DEF TimePasses, LeaseAdvances, UpdateLapses, RowsExist
<1>5. CASE Crash
  BY <1>1, <1>5 DEF Crash, RowsExist, Idle, JobOf, OnContract
<1>6. ASSUME NEW c \in Contract, NEW r \in Role, NEW s \in Answers, VnptAnswers(c, r, s)
      PROVE  RowsExist'
  BY <1>1, <1>6 DEF VnptAnswers, RowsExist, LifeTypeOK
<1>7. ASSUME NEW a \in Slot, EndsQuietly(a) \/ ReviewStarts(a) PROVE RowsExist'
  BY <1>2, <1>7, QuietDo, ReviewsDo, JobFields DEF OnContract
<1>8. ASSUME NEW a \in Slot, NEW c \in Contract, Checks(a, c) \/ WritesStatus(a, c)
      PROVE  RowsExist'
  BY <1>2, <1>8, ChecksDo, WritesDo, JobFields DEF Plain, OnContract
<1>9. ASSUME NEW a \in Slot, NEW r \in Renewal,
             ApproveRenewalRequest(a, r) \/ RenewalEnds(a, r)
      PROVE  RowsExist'
  BY <1>2, <1>9, JobFields DEF ApproveRenewalRequest, RenewalEnds, RejectRenewalRequest,
     CancelRenewalRequest, Finish, Takes, OnContract
<1>10. ASSUME NEW a \in Slot, NEW c \in Contract,
              \/ TenantSign(a, c) \/ OwnerSign(a, c)
              \/ \E n \in Contract : CreateUpdateDraft(a, c, n)
              \/ \E r \in Renewal : CreateRenewalRequest(a, c, r)
       PROVE  RowsExist'
  <2>1. Takes(a, Idle)
    BY <1>10 DEF TenantSign, OwnerSign, CreateUpdateDraft, CreateRenewalRequest, Finish, Takes
  <2>2. \A b \in Slot, d \in Contract :
           job'[b].on = d /\ job'[b].pc \in OnContract => status'[d] # "none"
    BY <1>1, <2>1, JobsMove, JobFields DEF RowsExist, LifeTypeOK, OnContract
  <2>3. job[a].on = c /\ job[a].pc \in OnContract => status[c] # "none"
    BY DEF RowsExist
  <2> QED
    BY <1>1, <1>10, <2>2, <2>3 DEF TenantSign, OwnerSign, CreateUpdateDraft, CreateRenewalRequest,
       At, SetStatus, RowsExist, LifeTypeOK, OnContract, Pc, AllHandlers
<1>11. ASSUME NEW a \in Slot, NEW c \in Contract,
              \/ RenewBase(a, c) \/ ExtendAppendix(a, c) \/ ExtendContract(a, c)
              \/ \E n \in Contract : RenewCreate(a, c, n)
       PROVE  RowsExist'
  <2>1. /\ Finish(a) \/ Become(a, "renewBase") \/ Become(a, "extend")
        /\ job[a].on = c /\ job[a].pc \in OnContract
    BY <1>11 DEF RenewBase, ExtendAppendix, ExtendContract, RenewCreate, Become, At, OnContract,
       Pc, AllHandlers
  <2>2. \A b \in Slot, d \in Contract :
           job'[b].on = d /\ job'[b].pc \in OnContract => status'[d] # "none"
    BY <1>1, <2>1, JobsMove, JobFields DEF RowsExist, LifeTypeOK, OnContract
  <2> QED
    BY <1>1, <1>11, <2>2 DEF RenewBase, ExtendAppendix, ExtendContract, RenewCreate, SetStatus,
       RowsExist, LifeTypeOK
<1>12. ASSUME NEW a \in Slot, NEW c \in Contract, NEW r \in Role,
              \/ SignStart(a, c, r) \/ SignContract(a, c, r)
              \/ PollRead(a, c, r) \/ PollSuccess(a, c, r) \/ PollRefused(a, c, r)
              \/ ProcessStart(a, c, r) \/ ProcessSigned(a, c, r) \/ ProcessFails(a, c, r)
       PROVE  RowsExist'
  <2>1. /\ status[c] # "none"
        /\ Takes(a, Idle) \/ \E p \in Pc : \E s : Takes(a, JobOf(p, c, r, s))
    BY <1>12 DEF RowsExist, SignStart, SignContract, PollRead, PollSuccess, PollRefused,
       ProcessStart, ProcessSigned, ProcessFails, Begin, Takes, Finish, At, PendingOf, Answers,
       OnContract, Pc, AllHandlers
  <2>2. \A b \in Slot, d \in Contract :
           job'[b].on = d /\ job'[b].pc \in OnContract => status'[d] # "none"
    BY <1>1, <2>1, JobsMove, JobFields DEF RowsExist, LifeTypeOK, OnContract
  <2>3. <<c, r>> \in Contract \X Role
    BY <1>12
  <2>4. UNCHANGED <<parent, renewedFrom, deposit>>
    BY <1>12 DEF SignStart, SignContract, PollRead, PollSuccess, PollRefused,
       ProcessStart, ProcessSigned, ProcessFails
  <2>5. \A d \in Contract, q \in Role :
           session'[<<d, q>>] # "none" => session[<<d, q>>] # "none" \/ d = c
    BY <1>12, <2>3 DEF SignStart, SignContract, PollRead, PollSuccess, PollRefused,
       ProcessStart, ProcessSigned, ProcessFails, LifeTypeOK
  <2>6. \A d \in Contract, q \in Role : <<d, q>> \in inbox' => <<d, q>> \in inbox \/ d = c
    BY <1>12 DEF SignStart, SignContract, PollRead, PollSuccess, PollRefused,
       ProcessStart, ProcessSigned, ProcessFails
  <2> QED
    BY <1>1, <2>1, <2>2, <2>4, <2>5, <2>6 DEF RowsExist
<1> QED
  BY <1>3, <1>4, <1>5, <1>6, <1>7, <1>8, <1>9, <1>10, <1>11, <1>12, LifeSteps

-----------------------------------------------------------------------------
(* The tenant signs first.                                                 *)

\* Signatures stay, and so does what a contract was made of.
OriginsStay ==
    /\ signed \subseteq signed'
    /\ \A c \in Contract : Exists(c) => parent'[c] = parent[c] /\ renewedFrom'[c] = renewedFrom[c]

LEMMA OriginsKept == LifeTypeOK /\ RowsExist /\ LifeNext => OriginsStay
<1> SUFFICES ASSUME LifeTypeOK, RowsExist, LifeNext PROVE OriginsStay
  OBVIOUS
<1> USE DEF contractVars, signingVars, renewalVars, timeVars, OnlyContract, Checked, Columns
<1>1. ASSUME UNCHANGED <<signed, parent, renewedFrom>> PROVE OriginsStay
  BY <1>1 DEF OriginsStay
<1>2. CASE \E c \in Contract : DepositPaid(c) \/ \E f \in BOOLEAN : CreateContract(c, f)
  BY <1>1, <1>2 DEF CreateContract, DepositPaid
<1>3. CASE TimePasses \/ Crash
  BY <1>1, <1>3 DEF TimePasses, LeaseAdvances, UpdateLapses, Crash
<1>4. CASE \E c \in Contract, r \in Role, s \in Answers : VnptAnswers(c, r, s)
  BY <1>1, <1>4 DEF VnptAnswers
<1>5. ASSUME NEW a \in Slot, EndsQuietly(a) \/ ReviewStarts(a) PROVE OriginsStay
  BY <1>1, <1>5, QuietDo, ReviewsDo
<1>6. ASSUME NEW a \in Slot, NEW c \in Contract,
             \/ Checks(a, c) \/ WritesStatus(a, c)
             \/ RenewBase(a, c) \/ ExtendAppendix(a, c) \/ ExtendContract(a, c)
             \/ \E r \in Renewal : CreateRenewalRequest(a, c, r)
      PROVE  OriginsStay
  BY <1>1, <1>6, ChecksDo, WritesDo DEF RenewBase, ExtendAppendix, ExtendContract,
     CreateRenewalRequest
<1>7. ASSUME NEW a \in Slot, NEW c \in Contract,
             \/ TenantSign(a, c) \/ OwnerSign(a, c)
             \/ \E n \in Contract : CreateUpdateDraft(a, c, n) \/ RenewCreate(a, c, n)
      PROVE  OriginsStay
  BY <1>7 DEF TenantSign, OwnerSign, CreateUpdateDraft, RenewCreate, OriginsStay, Exists, LifeTypeOK
<1>8. ASSUME NEW a \in Slot, NEW c \in Contract, NEW r \in Role,
             \/ SignStart(a, c, r) \/ SignContract(a, c, r)
             \/ PollRead(a, c, r) \/ PollSuccess(a, c, r) \/ PollRefused(a, c, r)
             \/ ProcessStart(a, c, r) \/ ProcessSigned(a, c, r) \/ ProcessFails(a, c, r)
      PROVE  OriginsStay
  BY <1>8 DEF SignStart, SignContract, PollRead, PollSuccess, PollRefused, ProcessStart,
     ProcessSigned, ProcessFails, OriginsStay
<1>9. ASSUME NEW a \in Slot, NEW r \in Renewal,
             ApproveRenewalRequest(a, r) \/ RenewalEnds(a, r)
      PROVE  OriginsStay
  BY <1>1, <1>9 DEF ApproveRenewalRequest, RenewalEnds, RejectRenewalRequest, CancelRenewalRequest
<1> QED
  BY <1>2, <1>3, <1>4, <1>5, <1>6, <1>7, <1>8, <1>9, LifeSteps

\* What a step must show of the statuses, of the signatures, of the renewals
\* and of the handler it moves.
StatusBacked ==
    \A c \in Contract : status'[c] \in AfterTenant =>
        \/ status[c] \in AfterTenant \/ Backed(c)
        \/ <<c, "TENANT">> \in signed' \/ renewedFrom'[c] # None
SignaturesBacked ==
    \A c \in Contract :
        /\ sign'[<<c, "TENANT">>] = "DONE" =>
                sign[<<c, "TENANT">>] = "DONE" \/ <<c, "TENANT">> \in signed'
        /\ session'[<<c, "OWNER">>] # "none" => session[<<c, "OWNER">>] # "none" \/ TenantSigned(c)
        /\ <<c, "OWNER">> \in inbox' => <<c, "OWNER">> \in inbox \/ TenantSigned(c)
RenewalsBacked ==
    \A r \in Renewal :
        /\ renewal'[r].status # "none" =>
                \/ renewal[r].status # "none" /\ renewal'[r].contract = renewal[r].contract
                \/ renewal'[r].contract \in Contract /\ Backed(renewal'[r].contract)
        /\ renewal[r].status # "none" => renewal'[r].status # "none"
MayHold(j) ==
    /\ \A c \in Contract : j.on = c =>
        /\ j.pc \in NeedsBacked => Backed(c)
        /\ j.pc \in SigningPc /\ j.role = "OWNER" => TenantSigned(c)
    /\ j.pc = "reviewRenewal" => j.on \in Renewal /\ renewal[j.on].status # "none"
JobsBacked == \A b \in Slot : job'[b] = job[b] \/ MayHold(job'[b])

LEMMA SignedStays ==
    ASSUME LifeTypeOK, RowsExist, SignedInTurn, LifeNext,
           StatusBacked, SignaturesBacked, RenewalsBacked, JobsBacked
    PROVE  SignedInTurn'
<1>1. \A c \in Contract : Backed(c) => Backed(c)'
  BY OriginsKept DEF Backed, TenantSigned, OriginsStay, Exists, RowsExist
<1>2. \A c \in Contract : TenantSigned(c) => TenantSigned(c)'
  BY OriginsKept DEF TenantSigned, OriginsStay
<1>3. \A c \in Contract : status'[c] \in AfterTenant => Backed(c)'
  BY <1>1 DEF SignedInTurn, StatusBacked, Backed, TenantSigned
<1>4. \A c \in Contract :
        /\ sign'[<<c, "TENANT">>] = "DONE" => TenantSigned(c)'
        /\ session'[<<c, "OWNER">>] # "none" => TenantSigned(c)'
        /\ <<c, "OWNER">> \in inbox' => TenantSigned(c)'
  BY <1>2 DEF SignedInTurn, SignaturesBacked, TenantSigned
<1>5. \A a \in Slot, c \in Contract : job'[a].on = c =>
        /\ job'[a].pc \in NeedsBacked => Backed(c)'
        /\ job'[a].pc \in SigningPc /\ job'[a].role = "OWNER" => TenantSigned(c)'
  BY <1>1, <1>2 DEF SignedInTurn, JobsBacked, MayHold
<1>6. \A r \in Renewal : renewal'[r].status # "none" =>
        renewal'[r].contract \in Contract /\ Backed(renewal[r].contract)'
  BY <1>1 DEF SignedInTurn, RenewalsBacked
<1>7. \A a \in Slot : job'[a].pc = "reviewRenewal" =>
        job'[a].on \in Renewal /\ renewal'[job'[a].on].status # "none"
  BY DEF SignedInTurn, JobsBacked, MayHold, RenewalsBacked
<1> QED
  BY <1>3, <1>4, <1>5, <1>6, <1>7 DEF SignedInTurn
LEMMA SignedStep == LifeTypeOK /\ RowsExist /\ SignedInTurn /\ LifeNext => SignedInTurn'
<1> SUFFICES ASSUME LifeTypeOK, RowsExist, SignedInTurn, LifeNext PROVE SignedInTurn'
  OBVIOUS
<1> USE DEF contractVars, signingVars, renewalVars, timeVars, OnlyContract, Checked, Columns
<1>1. /\ UNCHANGED status => StatusBacked
      /\ UNCHANGED <<sign, session, inbox>> => SignaturesBacked
      /\ UNCHANGED renewal => RenewalsBacked
      /\ UNCHANGED job => JobsBacked
  BY DEF StatusBacked, SignaturesBacked, RenewalsBacked, JobsBacked
<1>2. \A a \in Slot : \A j : Takes(a, j) /\ MayHold(j) => JobsBacked
  BY JobsMove DEF LifeTypeOK, JobsBacked
<1>3. MayHold(Idle)
  BY JobFields DEF MayHold, NeedsBacked, SigningPc
<1>4. \A a \in Slot : Finish(a) => JobsBacked
  BY <1>2, <1>3, JobsMove DEF LifeTypeOK
<1>5. ASSUME NEW c \in Contract,
             (\E f \in BOOLEAN : CreateContract(c, f)) \/ DepositPaid(c) PROVE SignedInTurn'
  <2>1. StatusBacked
    BY <1>5 DEF CreateContract, DepositPaid, SetStatus, LifeTypeOK, StatusBacked, AfterTenant, InForce
  <2> QED
    BY <1>1, <1>5, <2>1, SignedStays DEF CreateContract, DepositPaid
<1>6. CASE TimePasses
  BY <1>1, <1>6, SignedStays DEF TimePasses, LeaseAdvances, UpdateLapses
<1>7. CASE Crash
  <2>1. JobsBacked
    BY <1>3, <1>7 DEF Crash, JobsBacked
  <2> QED
    BY <1>1, <1>7, <2>1, SignedStays DEF Crash
<1>8. ASSUME NEW c \in Contract, NEW r \in Role, NEW s \in Answers, VnptAnswers(c, r, s)
      PROVE  SignedInTurn'
  <2>1. SignaturesBacked
    BY <1>8 DEF VnptAnswers, SignaturesBacked, LifeTypeOK
  <2> QED
    BY <1>1, <1>8, <2>1, SignedStays DEF VnptAnswers
<1>9. ASSUME NEW a \in Slot, EndsQuietly(a) PROVE SignedInTurn'
  BY <1>1, <1>4, <1>9, QuietDo, SignedStays, JobsMove DEF LifeTypeOK
<1>10. ASSUME NEW a \in Slot, ReviewStarts(a) PROVE SignedInTurn'
  <2>1. JobsBacked
    BY <1>2, <1>10, ReviewsDo, JobFields DEF MayHold, NeedsBacked, SigningPc
  <2> QED
    BY <1>1, <1>10, <2>1, ReviewsDo, SignedStays
<1>11. ASSUME NEW a \in Slot, NEW c \in Contract, Checks(a, c) PROVE SignedInTurn'
  <2>1. status[c] \in AfterTenant => Backed(c)
    BY DEF SignedInTurn
  <2>2. JobsBacked
    BY <1>2, <1>11, <2>1, ChecksDo, JobFields DEF MayHold, Plain, OnContract, SigningPc
  <2> QED
    BY <1>1, <1>11, <2>2, ChecksDo, SignedStays
<1>12. ASSUME NEW a \in Slot, NEW c \in Contract, WritesStatus(a, c) PROVE SignedInTurn'
  <2>1. StatusBacked
    BY <1>12, WritesDo DEF SignedInTurn, StatusBacked, SetStatus, LifeTypeOK
  <2> QED
    BY <1>1, <1>2, <1>3, <1>12, <2>1, WritesDo, SignedStays
<1>13. ASSUME NEW a \in Slot, NEW c \in Contract,
              \/ TenantSign(a, c) \/ OwnerSign(a, c)
              \/ \E n \in Contract : CreateUpdateDraft(a, c, n)
              \/ RenewBase(a, c) \/ ExtendContract(a, c)
       PROVE  SignedInTurn'
  <2>1. StatusBacked
    BY <1>13 DEF TenantSign, OwnerSign, CreateUpdateDraft, RenewBase, ExtendContract, At, SetStatus,
       SignedInTurn, StatusBacked, NeedsBacked, AfterTenant, InForce, LifeTypeOK
  <2> QED
    BY <1>1, <1>4, <1>13, <2>1, SignedStays DEF TenantSign, OwnerSign, CreateUpdateDraft, RenewBase,
       ExtendContract
<1>14. ASSUME NEW a \in Slot, NEW c \in Contract,
              ExtendAppendix(a, c) \/ \E n \in Contract : RenewCreate(a, c, n)
       PROVE  SignedInTurn'
  <2>1. job[a].on = c /\ job[a].pc = "autoRenew" /\ Backed(c)
    BY <1>14 DEF ExtendAppendix, RenewCreate, At, SignedInTurn, NeedsBacked
  <2>2. \E p \in {"extend", "renewBase"} : Become(a, p)
    BY <1>14 DEF ExtendAppendix, RenewCreate, Become
  <2>3. JobsBacked
    BY <2>1, <2>2, JobsMove DEF LifeTypeOK, JobsBacked, MayHold, SigningPc
  <2>4. StatusBacked
    BY <1>14, ContractAssumption DEF ExtendAppendix, RenewCreate, SetStatus, StatusBacked,
       LifeTypeOK, ContractAssumption
  <2> QED
    BY <1>1, <1>14, <2>3, <2>4, SignedStays DEF ExtendAppendix, RenewCreate
<1>15. ASSUME NEW a \in Slot, NEW c \in Contract, NEW r \in Renewal, CreateRenewalRequest(a, c, r)
       PROVE  SignedInTurn'
  <2>1. Backed(c)
    BY <1>15 DEF CreateRenewalRequest, At, SignedInTurn, NeedsBacked
  <2>2. RenewalsBacked
    BY <1>15, <2>1 DEF CreateRenewalRequest, RenewalsBacked, LifeTypeOK
  <2> QED
    BY <1>1, <1>4, <1>15, <2>2, SignedStays DEF CreateRenewalRequest
<1>16. ASSUME NEW a \in Slot, NEW r \in Renewal,
              ApproveRenewalRequest(a, r) \/ RenewalEnds(a, r)
       PROVE  SignedInTurn'
  <2>1. renewal[r].status # "none" /\ renewal[r].contract \in Contract /\ Backed(renewal[r].contract)
    BY <1>16 DEF ApproveRenewalRequest, RenewalEnds, RejectRenewalRequest, CancelRenewalRequest, At,
       SignedInTurn
  <2>2. PICK s \in RowStatus \ {"none"} : renewal' = [renewal EXCEPT ![r].status = s]
    BY <1>16 DEF ApproveRenewalRequest, RenewalEnds, RejectRenewalRequest, CancelRenewalRequest,
       RowStatus
  <2>3. RenewalsBacked
    BY <2>1, <2>2 DEF RenewalsBacked, LifeTypeOK
  <2>4. StatusBacked
    BY <1>16, <2>1 DEF ApproveRenewalRequest, RenewalEnds, RejectRenewalRequest,
       CancelRenewalRequest, StatusBacked, SetStatus, LifeTypeOK
  <2> QED
    BY <1>1, <1>4, <1>16, <2>3, <2>4, SignedStays DEF ApproveRenewalRequest, RenewalEnds,
       RejectRenewalRequest, CancelRenewalRequest
<1>17. ASSUME NEW a \in Slot, NEW c \in Contract, NEW r \in Role,
              \/ SignStart(a, c, r) \/ SignContract(a, c, r)
              \/ PollRead(a, c, r) \/ PollSuccess(a, c, r) \/ PollRefused(a, c, r)
              \/ ProcessStart(a, c, r) \/ ProcessSigned(a, c, r) \/ ProcessFails(a, c, r)
       PROVE  SignedInTurn'
  <2>1. <<c, r>> \in Contract \X Role
    BY <1>17
  <2>2. r = "OWNER" => TenantSigned(c)
    BY <1>17 DEF SignStart, SignContract, PollRead, PollSuccess, PollRefused, ProcessStart,
       ProcessSigned, ProcessFails, At, Answers, SigningPc, SignedInTurn
  <2>3. Takes(a, Idle) \/ \E p \in SigningPc : \E s : Takes(a, JobOf(p, c, r, s))
    BY <1>17 DEF SignStart, SignContract, PollRead, PollSuccess, PollRefused, ProcessStart,
       ProcessSigned, ProcessFails, Begin, Takes, Finish, SigningPc
  <2>4. JobsBacked
    BY <1>2, <1>3, <2>2, <2>3, JobFields DEF MayHold, NeedsBacked, SigningPc
  <2>5. StatusBacked
    <3>1. CASE SignContract(a, c, r) \/ PollRefused(a, c, r)
      BY <2>2, <3>1 DEF SignContract, PollRefused, PendingOf, SetStatus, StatusBacked, Backed,
         AfterTenant, InForce, Role, LifeTypeOK
    <3>2. CASE ProcessSigned(a, c, r)
      <4>1. \A d \in Contract : status'[d] \in AfterTenant => status[d] \in AfterTenant \/ d = c
        BY <3>2 DEF ProcessSigned, AfterTenant, InForce, LifeTypeOK
      <4>2. r = "TENANT" => <<c, "TENANT">> \in signed'
        BY <3>2 DEF ProcessSigned
      <4> QED
        BY <2>2, <4>1, <4>2 DEF StatusBacked, Backed, Role
    <3>3. CASE UNCHANGED status
      BY <1>1, <3>3
    <3> QED
      BY <1>17, <3>1, <3>2, <3>3 DEF SignStart, PollRead, PollSuccess, ProcessStart, ProcessFails
  <2>6. SignaturesBacked
    <3>1. CASE SignContract(a, c, r) \/ PollRefused(a, c, r)
      BY <2>1, <2>2, <3>1 DEF SignContract, PollRefused, SignaturesBacked, LifeTypeOK, Role
    <3>2. CASE PollSuccess(a, c, r) \/ ProcessStart(a, c, r) \/ ProcessFails(a, c, r)
      BY <2>1, <2>2, <3>2 DEF PollSuccess, ProcessStart, ProcessFails, SignaturesBacked, LifeTypeOK, Role
    <3>3. CASE ProcessSigned(a, c, r)
      BY <2>1, <3>3 DEF ProcessSigned, SignaturesBacked, LifeTypeOK, Role
    <3>4. CASE SignStart(a, c, r) \/ PollRead(a, c, r)
      BY <1>1, <3>4 DEF SignStart, PollRead
    <3> QED
      BY <1>17, <3>1, <3>2, <3>3, <3>4
  <2>7. RenewalsBacked
    BY <1>1, <1>17 DEF SignStart, SignContract, PollRead, PollSuccess, PollRefused, ProcessStart,
       ProcessSigned, ProcessFails
  <2> QED
    BY <2>4, <2>5, <2>6, <2>7, SignedStays
<1> QED
  BY <1>5, <1>6, <1>7, <1>8, <1>9, <1>10, <1>11, <1>12, <1>13, <1>14, <1>15, <1>16, <1>17, LifeSteps

-----------------------------------------------------------------------------
(* Only signed updates supersede.                                          *)

\* A superseded contract has the update that replaces it.
Replaced(c) == \E n \in Contract : parent[n] = c /\ {n} \X Role \subseteq signed

\* What a step must show: of a contract it supersedes, and of a worker that
\* begins with the last signature.
ReplacesOnly == \A c \in Contract : status'[c] = "superseded" => status[c] = "superseded" \/ Replaced(c)'
FinalRead(j) ==
    \A c \in Contract :
        j.pc = "work" /\ j.on = c /\ j.seen = "final" /\ parent'[c] # None
        => <<c, OtherRole(j.role)>> \in signed'
FinalsRead == \A b \in Slot : job'[b] = job[b] \/ FinalRead(job'[b])
OneOrigin == \A c \in Contract : parent[c] = None \/ renewedFrom[c] = None

LEMMA UpdatesStay ==
    ASSUME LifeTypeOK, RowsExist, CompleteUpdates, LifeNext, ReplacesOnly, FinalsRead, OneOrigin'
    PROVE  CompleteUpdates'
<1>1. \A c \in Contract : Replaced(c) => Replaced(c)'
  BY OriginsKept, ContractAssumption DEF Replaced, OriginsStay, Exists, RowsExist, ContractAssumption
<1>2. SupersededBySigned'
  BY <1>1 DEF CompleteUpdates, SupersededBySigned, ReplacesOnly, Replaced
<1>3. ASSUME NEW a \in Slot, NEW c \in Contract,
             job'[a] = job[a], job[a].pc = "work", job[a].on = c, job[a].seen = "final",
             parent'[c] # None
      PROVE  <<c, OtherRole(job[a].role)>> \in signed'
  <2>1. status[c] # "none"
    BY <1>3 DEF RowsExist, OnContract, Pc
  <2>2. parent[c] # None
    BY <1>3, <2>1, OriginsKept DEF OriginsStay, Exists
  <2> QED
    BY <1>3, <2>2, OriginsKept DEF OriginsStay, CompleteUpdates
<1> QED
  BY <1>2, <1>3 DEF CompleteUpdates, FinalsRead, FinalRead, OneOrigin

LEMMA UpdatesStep ==
    LifeTypeOK /\ RowsExist /\ SignedInTurn /\ CompleteUpdates /\ LifeNext => CompleteUpdates'
<1> SUFFICES ASSUME LifeTypeOK, RowsExist, SignedInTurn, CompleteUpdates, LifeNext
             PROVE  CompleteUpdates'
  OBVIOUS
<1> USE DEF contractVars, signingVars, renewalVars, timeVars, OnlyContract, Checked, Columns
<1>1. /\ UNCHANGED status => ReplacesOnly
      /\ UNCHANGED <<parent, renewedFrom>> => OneOrigin'
      /\ UNCHANGED job => FinalsRead
  BY DEF ReplacesOnly, OneOrigin, CompleteUpdates, FinalsRead
<1>2. \A a \in Slot : \A j : Takes(a, j) /\ FinalRead(j) => FinalsRead
  BY JobsMove DEF LifeTypeOK, FinalsRead
<1>3. \A a \in Slot, p \in Pc : Become(a, p) /\ p # "work" => FinalsRead
  BY JobsMove DEF LifeTypeOK, FinalsRead, FinalRead
<1>4. FinalRead(Idle) /\ \A p, o, r, s : p # "work" => FinalRead(JobOf(p, o, r, s))
  BY JobFields DEF FinalRead
<1>5. \A a \in Slot : Finish(a) => FinalsRead
  BY <1>2, <1>4, JobsMove DEF LifeTypeOK
<1>6. ASSUME NEW c \in Contract, DepositPaid(c) \/ \E f \in BOOLEAN : CreateContract(c, f)
      PROVE  CompleteUpdates'
  BY <1>1, <1>6, UpdatesStay DEF DepositPaid, CreateContract, SetStatus, ReplacesOnly, LifeTypeOK
<1>7. CASE Crash
  BY <1>1, <1>4, <1>7, UpdatesStay DEF Crash, FinalsRead
<1>8. CASE TimePasses \/ \E c \in Contract, r \in Role, s \in Answers : VnptAnswers(c, r, s)
  BY <1>1, <1>8, UpdatesStay DEF TimePasses, LeaseAdvances, UpdateLapses, VnptAnswers
<1>9. ASSUME NEW a \in Slot, EndsQuietly(a) \/ ReviewStarts(a) PROVE CompleteUpdates'
  BY <1>1, <1>2, <1>4, <1>9, QuietDo, ReviewsDo, UpdatesStay
<1>10. ASSUME NEW a \in Slot, NEW c \in Contract, Checks(a, c) PROVE CompleteUpdates'
  BY <1>1, <1>2, <1>4, <1>10, ChecksDo, UpdatesStay DEF Plain, SigningPc
<1>11. ASSUME NEW a \in Slot, NEW c \in Contract, WritesStatus(a, c) PROVE CompleteUpdates'
  <2>1. ReplacesOnly
    BY <1>11, WritesDo DEF ReplacesOnly, SetStatus, LifeTypeOK
  <2> QED
    BY <1>1, <1>2, <1>4, <1>11, <2>1, WritesDo, UpdatesStay
<1>12. ASSUME NEW a \in Slot, NEW c \in Contract, OwnerSign(a, c) PROVE CompleteUpdates'
  <2>1. parent[c] # None => TenantSigned(c)
    BY <1>12 DEF OwnerSign, At, SignedInTurn, NeedsBacked, Backed, CompleteUpdates
  <2>2. \A d \in Supersedes(c) : Replaced(d)'
    BY <1>12, <2>1 DEF OwnerSign, Supersedes, TenantSigned, Replaced, Role
  <2>3. ReplacesOnly
    BY <1>12, <2>2 DEF OwnerSign, ReplacesOnly
  <2> QED
    BY <1>1, <1>5, <1>12, <2>3, UpdatesStay DEF OwnerSign
<1>13. ASSUME NEW a \in Slot, NEW c \in Contract,
              \/ TenantSign(a, c) \/ RenewBase(a, c) \/ ExtendContract(a, c)
              \/ \E r \in Renewal : CreateRenewalRequest(a, c, r)
       PROVE  CompleteUpdates'
  <2>1. ReplacesOnly
    BY <1>13 DEF TenantSign, RenewBase, ExtendContract, CreateRenewalRequest, ReplacesOnly,
       SetStatus, LifeTypeOK
  <2> QED
    BY <1>1, <1>5, <1>13, <2>1, UpdatesStay DEF TenantSign, RenewBase, ExtendContract,
       CreateRenewalRequest
<1>14. ASSUME NEW a \in Slot, NEW c \in Contract, NEW n \in Contract,
              CreateUpdateDraft(a, c, n) \/ RenewCreate(a, c, n) \/ ExtendAppendix(a, c)
       PROVE  CompleteUpdates'
  <2>1. ReplacesOnly
    BY <1>14 DEF CreateUpdateDraft, RenewCreate, ExtendAppendix, ReplacesOnly, SetStatus, LifeTypeOK
  <2>2. OneOrigin'
    BY <1>14 DEF CreateUpdateDraft, RenewCreate, ExtendAppendix, OneOrigin, CompleteUpdates,
       RowsExist, LifeTypeOK
  <2>3. FinalsRead
    BY <1>3, <1>5, <1>14 DEF CreateUpdateDraft, RenewCreate, ExtendAppendix, Become, Pc, AllHandlers
  <2> QED
    BY <2>1, <2>2, <2>3, UpdatesStay
<1>15. ASSUME NEW a \in Slot, NEW c \in Contract, NEW r \in Role,
              \/ SignStart(a, c, r) \/ SignContract(a, c, r)
              \/ PollRead(a, c, r) \/ PollSuccess(a, c, r) \/ PollRefused(a, c, r)
              \/ ProcessFails(a, c, r)
       PROVE  CompleteUpdates'
  <2>1. ReplacesOnly
    BY <1>15 DEF SignStart, SignContract, PollRead, PollSuccess, PollRefused, ProcessFails,
       PendingOf, ReplacesOnly, SetStatus, LifeTypeOK
  <2>2. OneOrigin'
    BY <1>1, <1>15 DEF SignStart, SignContract, PollRead, PollSuccess, PollRefused, ProcessFails
  <2>3. FinalsRead
    BY <1>2, <1>4, <1>5, <1>15 DEF SignStart, SignContract, PollRead, PollSuccess, PollRefused,
       ProcessFails, Begin, Takes
  <2> QED
    BY <2>1, <2>2, <2>3, UpdatesStay
<1>16. ASSUME NEW a \in Slot, NEW c \in Contract, NEW r \in Role, ProcessStart(a, c, r)
       PROVE  CompleteUpdates'
  <2>1. \/ Takes(a, Idle)
        \/ Takes(a, JobOf("work", c, r, IF Completes(c, r) THEN "final" ELSE "none"))
    BY <1>16 DEF ProcessStart, Takes
  <2>2. FinalRead(JobOf("work", c, r, IF Completes(c, r) THEN "final" ELSE "none"))
    BY <1>16, JobFields DEF ProcessStart, FinalRead, Completes
  <2> QED
    BY <1>1, <1>2, <1>4, <1>16, <2>1, <2>2, UpdatesStay DEF ProcessStart
<1>17. ASSUME NEW a \in Slot, NEW c \in Contract, NEW r \in Role, ProcessSigned(a, c, r)
       PROVE  CompleteUpdates'
  <2>1. job[a].seen = "final" /\ parent[c] # None => {c} \X Role \subseteq signed'
    BY <1>17 DEF ProcessSigned, At, CompleteUpdates, OtherRole, Role
  <2>2. job[a].seen = "final" => \A d \in Supersedes(c) : Replaced(d)'
    BY <1>17, <2>1 DEF ProcessSigned, Supersedes, Replaced
  <2>3. ReplacesOnly
    BY <1>17, <2>2 DEF ProcessSigned, ReplacesOnly
  <2> QED
    BY <1>1, <1>5, <1>17, <2>3, UpdatesStay DEF ProcessSigned
<1>18. ASSUME NEW a \in Slot, NEW r \in Renewal, ApproveRenewalRequest(a, r) \/ RenewalEnds(a, r)
       PROVE  CompleteUpdates'
  <2>1. ReplacesOnly
    BY <1>18 DEF ApproveRenewalRequest, RenewalEnds, RejectRenewalRequest, CancelRenewalRequest,
       ReplacesOnly, SetStatus, LifeTypeOK
  <2> QED
    BY <1>1, <1>5, <1>18, <2>1, UpdatesStay DEF ApproveRenewalRequest, RenewalEnds,
       RejectRenewalRequest, CancelRenewalRequest
<1> QED
  BY <1>6, <1>7, <1>8, <1>9, <1>10, <1>11, <1>12, <1>13, <1>14, <1>15, <1>16, <1>17, <1>18,
     LifeSteps

-----------------------------------------------------------------------------
(* One worker signs.                                                       *)

\* A handler that is no worker, before and after its step.
NoWorker == \A b \in Slot : job'[b] = job[b] \/ (job[b].pc # "work" /\ job'[b].pc # "work")

LEMMA WorkersStay ==
    ASSUME OneWorkerPerSignature, UNCHANGED <<sign, inbox>>, NoWorker
    PROVE  OneWorkerPerSignature'
<1>1. \A c \in Contract, r \in Role : Working(c, r)' = Working(c, r)
  BY DEF NoWorker, Working
<1> QED
  BY <1>1 DEF OneWorkerPerSignature

LEMMA WorkersStep == LifeTypeOK /\ OneWorkerPerSignature /\ LifeNext => OneWorkerPerSignature'
<1> SUFFICES ASSUME LifeTypeOK, OneWorkerPerSignature, LifeNext PROVE OneWorkerPerSignature'
  OBVIOUS
<1> USE DEF contractVars, signingVars, renewalVars, timeVars, OnlyContract, Checked, Columns
<1>1. \A a \in Slot : \A j : Takes(a, j) /\ job[a].pc # "work" /\ j.pc # "work" => NoWorker
  BY JobsMove DEF LifeTypeOK, NoWorker
<1>2. \A a \in Slot : Finish(a) /\ job[a].pc # "work" => NoWorker
  BY <1>1, JobsMove, JobFields DEF LifeTypeOK
<1>3. CASE UNCHANGED <<sign, inbox, job>>
  BY <1>3, WorkersStay DEF NoWorker
<1>w. ASSUME NEW c \in Contract, NEW r \in Role,
             \A d \in Contract, q \in Role : Working(d, q)' \subseteq Working(d, q),
             \A d \in Contract, q \in Role : <<d, q>> # <<c, r>> =>
                 sign'[<<d, q>>] = sign[<<d, q>>] /\ (<<d, q>> \in inbox' <=> <<d, q>> \in inbox),
             Working(c, r)' = {},
             <<c, r>> \in inbox' => sign'[<<c, r>>] = "PROCESSING"
      PROVE  OneWorkerPerSignature'
  <2>1. ASSUME NEW d \in Contract, NEW q \in Role
        PROVE  /\ <<d, q>> \in inbox' \/ Working(d, q)' # {} => sign'[<<d, q>>] = "PROCESSING"
               /\ \A e, f \in Working(d, q)' : e = f
               /\ ~ (<<d, q>> \in inbox' /\ Working(d, q)' # {})
    <3>1. CASE <<d, q>> = <<c, r>>
      BY <1>w, <3>1
    <3>2. CASE <<d, q>> # <<c, r>>
      <4>1. /\ <<d, q>> \in inbox \/ Working(d, q) # {} => sign[<<d, q>>] = "PROCESSING"
            /\ \A e, f \in Working(d, q) : e = f
            /\ ~ (<<d, q>> \in inbox /\ Working(d, q) # {})
        BY DEF OneWorkerPerSignature
      <4>2. /\ Working(d, q)' \subseteq Working(d, q) /\ sign'[<<d, q>>] = sign[<<d, q>>]
            /\ (<<d, q>> \in inbox' <=> <<d, q>> \in inbox)
        BY <1>w, <3>2
      <4> QED
        BY <4>1, <4>2
    <3> QED
      BY <3>1, <3>2
  <2> QED
    BY <2>1 DEF OneWorkerPerSignature
<1>4. CASE TimePasses \/ \E c \in Contract :
              DepositPaid(c) \/ \E f \in BOOLEAN : CreateContract(c, f)
  BY <1>3, <1>4 DEF TimePasses, LeaseAdvances, UpdateLapses, DepositPaid, CreateContract
<1>5. CASE \E c \in Contract, r \in Role, s \in Answers : VnptAnswers(c, r, s)
  BY <1>3, <1>5 DEF VnptAnswers
<1>6. CASE Crash
  <2>1. \A c \in Contract, r \in Role : Working(c, r)' = {}
    BY <1>6, JobFields DEF Crash, Working
  <2> QED
    BY <1>6, <2>1 DEF Crash, OneWorkerPerSignature
<1>7. ASSUME NEW a \in Slot, EndsQuietly(a) \/ ReviewStarts(a) PROVE OneWorkerPerSignature'
  BY <1>1, <1>7, QuietDo, ReviewsDo, JobFields, WorkersStay
<1>8. ASSUME NEW a \in Slot, NEW c \in Contract, Checks(a, c) \/ WritesStatus(a, c)
      PROVE  OneWorkerPerSignature'
  BY <1>1, <1>8, ChecksDo, WritesDo, JobFields, WorkersStay DEF Plain, SigningPc
<1>9. ASSUME NEW a \in Slot, NEW c \in Contract,
             \/ TenantSign(a, c) \/ OwnerSign(a, c)
             \/ \E n \in Contract : CreateUpdateDraft(a, c, n)
             \/ RenewBase(a, c) \/ ExtendContract(a, c)
             \/ \E r \in Renewal : CreateRenewalRequest(a, c, r)
      PROVE  OneWorkerPerSignature'
  BY <1>2, <1>9, WorkersStay DEF TenantSign, OwnerSign, CreateUpdateDraft, RenewBase,
     ExtendContract, CreateRenewalRequest, At
<1>10. ASSUME NEW a \in Slot, NEW c \in Contract,
              ExtendAppendix(a, c) \/ \E n \in Contract : RenewCreate(a, c, n)
       PROVE  OneWorkerPerSignature'
  <2>1. job[a].pc = "autoRenew" /\ \E p \in {"extend", "renewBase"} : Become(a, p)
    BY <1>10 DEF ExtendAppendix, RenewCreate, Become, At
  <2>2. NoWorker
    BY <2>1, JobsMove DEF NoWorker, LifeTypeOK
  <2> QED
    BY <1>10, <2>2, WorkersStay DEF ExtendAppendix, RenewCreate
<1>11. ASSUME NEW a \in Slot, NEW r \in Renewal, ApproveRenewalRequest(a, r) \/ RenewalEnds(a, r)
       PROVE  OneWorkerPerSignature'
  BY <1>2, <1>11, WorkersStay DEF ApproveRenewalRequest, RenewalEnds, RejectRenewalRequest,
     CancelRenewalRequest, At
<1>12. ASSUME NEW a \in Slot, NEW c \in Contract, NEW r \in Role,
              \/ SignStart(a, c, r) \/ SignContract(a, c, r)
              \/ PollRead(a, c, r) \/ PollRefused(a, c, r)
       PROVE  OneWorkerPerSignature'
  <2>1. NoWorker
    BY <1>1, <1>2, <1>12, JobFields DEF SignStart, SignContract, PollRead, PollRefused, Begin,
       Takes, At
  <2> QED
    BY <1>12, <2>1, WorkersStay DEF SignStart, SignContract, PollRead, PollRefused
<1>13. ASSUME NEW a \in Slot, NEW c \in Contract, NEW r \in Role, PollSuccess(a, c, r)
       PROVE  OneWorkerPerSignature'
  <2>1. NoWorker
    BY <1>2, <1>13 DEF PollSuccess, At
  <2>2. CASE UNCHANGED <<sign, inbox>>
    BY <2>1, <2>2, WorkersStay
  <2>3. CASE /\ sign[<<c, r>>] = "PENDING" /\ sign' = [sign EXCEPT ![<<c, r>>] = "PROCESSING"]
             /\ inbox' = inbox \cup {<<c, r>>}
    <3>1. \A d \in Contract, q \in Role : Working(d, q)' = Working(d, q)
      BY <2>1 DEF NoWorker, Working
    <3>2. Working(c, r) = {}
      BY <2>3 DEF OneWorkerPerSignature
    <3>3. \A d \in Contract, q \in Role : <<d, q>> # <<c, r>> =>
             sign'[<<d, q>>] = sign[<<d, q>>] /\ (<<d, q>> \in inbox' <=> <<d, q>> \in inbox)
      BY <2>3 DEF LifeTypeOK
    <3>4. sign'[<<c, r>>] = "PROCESSING"
      BY <2>3, <<c, r>> \in Contract \X Role DEF LifeTypeOK
    <3> QED
      BY <1>w, <3>1, <3>2, <3>3, <3>4
  <2> QED
    BY <1>13, <2>2, <2>3 DEF PollSuccess
<1>14. ASSUME NEW a \in Slot, NEW c \in Contract, NEW r \in Role, ProcessStart(a, c, r)
       PROVE  OneWorkerPerSignature'
  <2>1. sign[<<c, r>>] = "PROCESSING" /\ Working(c, r) = {}
    BY <1>14 DEF ProcessStart, OneWorkerPerSignature
  <2>2. PICK s : Takes(a, JobOf("work", c, r, s))
    BY <1>14, <2>1 DEF ProcessStart, Takes
  <2>3. job[a].pc # "work"
    BY <1>14, JobFields DEF ProcessStart
  <2>4. \A b \in Slot : job'[b] = IF b = a THEN JobOf("work", c, r, s) ELSE job[b]
    BY <2>2, JobsMove DEF LifeTypeOK
  <2>5. Working(c, r)' = {a}
    BY <2>1, <2>4, JobFields DEF Working
  <2>6. \A d \in Contract, q \in Role : <<d, q>> # <<c, r>> => Working(d, q)' = Working(d, q)
    BY <2>3, <2>4, JobFields DEF Working
  <2>7. UNCHANGED sign /\ inbox' = inbox \ {<<c, r>>}
    BY <1>14 DEF ProcessStart
  <2>8. \A d \in Contract, q \in Role :
          /\ <<d, q>> # <<c, r>> => (<<d, q>> \in inbox' <=> <<d, q>> \in inbox)
          /\ <<c, r>> \notin inbox'
    BY <2>7
  <2>9. ASSUME NEW d \in Contract, NEW q \in Role
        PROVE  /\ <<d, q>> \in inbox' \/ Working(d, q)' # {} => sign'[<<d, q>>] = "PROCESSING"
               /\ \A e, f \in Working(d, q)' : e = f
               /\ ~ (<<d, q>> \in inbox' /\ Working(d, q)' # {})
    <3>1. CASE <<d, q>> = <<c, r>>
      BY <2>1, <2>5, <2>7, <3>1
    <3>2. CASE <<d, q>> # <<c, r>>
      BY <2>6, <2>7, <2>8, <3>2 DEF OneWorkerPerSignature
    <3> QED
      BY <3>1, <3>2
  <2> QED
    BY <2>9 DEF OneWorkerPerSignature
<1>15. ASSUME NEW a \in Slot, NEW c \in Contract, NEW r \in Role,
              ProcessSigned(a, c, r) \/ ProcessFails(a, c, r)
       PROVE  OneWorkerPerSignature'
  <2>1. a \in Working(c, r)
    BY <1>15 DEF ProcessSigned, ProcessFails, At, Working
  <2>2. \A b \in Slot : job'[b] = IF b = a THEN Idle ELSE job[b]
    BY <1>15, JobsMove DEF ProcessSigned, ProcessFails, LifeTypeOK
  <2>3. \A d \in Contract, q \in Role : Working(d, q)' \subseteq Working(d, q) \ {a}
    BY <2>2, JobFields DEF Working
  <2>4. Working(c, r)' = {} /\ <<c, r>> \notin inbox
    BY <2>1, <2>3 DEF OneWorkerPerSignature
  <2>5. \A d \in Contract, q \in Role : <<d, q>> # <<c, r>> => sign'[<<d, q>>] = sign[<<d, q>>]
    BY <1>15 DEF ProcessSigned, ProcessFails, LifeTypeOK
  <2>6. UNCHANGED inbox
    BY <1>15 DEF ProcessSigned, ProcessFails
  <2>7. \A d \in Contract, q \in Role : <<d, q>> # <<c, r>> =>
            sign'[<<d, q>>] = sign[<<d, q>>] /\ (<<d, q>> \in inbox' <=> <<d, q>> \in inbox)
    BY <2>5, <2>6
  <2> QED
    BY <1>w, <2>3, <2>4, <2>6, <2>7
<1> QED
  BY <1>4, <1>5, <1>6, <1>7, <1>8, <1>9, <1>10, <1>11, <1>12, <1>13, <1>14, <1>15, LifeSteps

-----------------------------------------------------------------------------
(* Extensions are on record.                                               *)

LEMMA CountsFinite ==
    ASSUME NEW c
    PROVE  /\ IsFiniteSet(Owing(c)) /\ Cardinality(Owing(c)) \in Nat
           /\ IsFiniteSet(Successors(c)) /\ Cardinality(Successors(c)) \in Nat
<1>1. Owing(c) \in SUBSET Slot /\ Successors(c) \in SUBSET Contract
  BY DEF Owing, Successors
<1> QED
  BY <1>1, ContractAssumption, FS_Subset, FS_CardinalityType DEF ContractAssumption

\* A handler that owes no extension, before and after its step.
Owes(j) == j.pc \in {"extend", "renewBase"}
NobodyOwes == \A b \in Slot : job'[b] = job[b] \/ (~ Owes(job[b]) /\ ~ Owes(job'[b]))

LEMMA OwedStays ==
    ASSUME LifeTypeOK, ExtensionsOwed, UNCHANGED <<renewCount, renewedFrom>>, NobodyOwes,
           \A c \in Contract : appendices'[c] \in Nat /\ appendices'[c] >= appendices[c]
    PROVE  ExtensionsOwed'
<1> SUFFICES ASSUME NEW c \in Contract
             PROVE  renewCount'[c] + Cardinality(Owing(c)')
                    <= appendices'[c] + Cardinality(Successors(c)')
  BY DEF ExtensionsOwed
<1>1. Owing(c)' = Owing(c)
  BY DEF NobodyOwes, Owes, Owing
<1>2. Successors(c)' = Successors(c)
  BY DEF Successors
<1>3. renewCount[c] \in Nat /\ appendices[c] \in Nat /\ UNCHANGED renewCount
  BY DEF LifeTypeOK
<1>4. renewCount[c] + Cardinality(Owing(c)) <= appendices[c] + Cardinality(Successors(c))
  BY DEF ExtensionsOwed
<1> QED
  BY <1>1, <1>2, <1>3, <1>4, CountsFinite

\* A handler puts an extension on record, or counts the one it put there.
LEMMA OwedChanges ==
    ASSUME LifeTypeOK, ExtensionsOwed, NEW a \in Slot, NEW c \in Contract,
           \A d \in Contract \ {c} :
              /\ renewCount'[d] = renewCount[d] /\ appendices'[d] = appendices[d]
              /\ Owing(d)' = Owing(d) /\ Successors(d)' = Successors(d),
           \/ /\ a \notin Owing(c) /\ Owing(c)' = Owing(c) \cup {a}
              /\ renewCount'[c] = renewCount[c]
              /\ \/ appendices'[c] = appendices[c] + 1 /\ Successors(c)' = Successors(c)
                 \/ /\ appendices'[c] = appendices[c]
                    /\ \E n \in Contract \ Successors(c) : Successors(c)' = Successors(c) \cup {n}
           \/ /\ a \in Owing(c) /\ Owing(c)' = Owing(c) \ {a}
              /\ renewCount'[c] = renewCount[c] + 1
              /\ appendices'[c] = appendices[c] /\ Successors(c)' = Successors(c)
    PROVE  ExtensionsOwed'
<1>1. \A d \in Contract : /\ renewCount[d] \in Nat /\ appendices[d] \in Nat
                          /\ renewCount[d] + Cardinality(Owing(d))
                             <= appendices[d] + Cardinality(Successors(d))
  BY DEF LifeTypeOK, ExtensionsOwed
<1>2. a \notin Owing(c) => Cardinality(Owing(c) \cup {a}) = Cardinality(Owing(c)) + 1
  BY CountsFinite, FS_AddElement
<1>3. a \in Owing(c) => Cardinality(Owing(c) \ {a}) = Cardinality(Owing(c)) - 1
  BY CountsFinite, FS_RemoveElement
<1>4. \A n \in Contract \ Successors(c) :
        Cardinality(Successors(c) \cup {n}) = Cardinality(Successors(c)) + 1
  BY CountsFinite, FS_AddElement
<1>5. Cardinality(Owing(c)) \in Nat /\ Cardinality(Successors(c)) \in Nat
  BY CountsFinite
<1>6. renewCount'[c] + Cardinality(Owing(c)') <= appendices'[c] + Cardinality(Successors(c)')
  <2> DEFINE owing == Cardinality(Owing(c))
             made == Cardinality(Successors(c))
  <2>1. \/ /\ Cardinality(Owing(c)') = owing + 1 /\ renewCount'[c] = renewCount[c]
           /\ appendices'[c] + Cardinality(Successors(c)') = appendices[c] + made + 1
        \/ /\ Cardinality(Owing(c)') = owing - 1 /\ renewCount'[c] = renewCount[c] + 1
           /\ appendices'[c] + Cardinality(Successors(c)') = appendices[c] + made
    <3>1. CASE a \in Owing(c)
      BY <1>3, <3>1
    <3>2. CASE a \notin Owing(c)
      <4>1. Cardinality(Owing(c)') = owing + 1 /\ renewCount'[c] = renewCount[c]
        BY <1>2, <3>2
      <4>2. \/ appendices'[c] = appendices[c] + 1 /\ Cardinality(Successors(c)') = made
            \/ appendices'[c] = appendices[c] /\ Cardinality(Successors(c)') = made + 1
        BY <1>4, <3>2
      <4>3. appendices'[c] + Cardinality(Successors(c)') = appendices[c] + made + 1
        BY <1>1, <1>5, <4>2
      <4> QED
        BY <4>1, <4>3
    <3> QED
      BY <3>1, <3>2
  <2>2. renewCount[c] \in Nat /\ appendices[c] \in Nat /\ owing \in Nat /\ made \in Nat
        /\ renewCount[c] + owing <= appendices[c] + made
    BY <1>1, <1>5
  <2> HIDE DEF owing, made
  <2> QED
    BY <2>1, <2>2
<1>7. \A d \in Contract \ {c} :
        renewCount'[d] + Cardinality(Owing(d)') <= appendices'[d] + Cardinality(Successors(d)')
  BY <1>1
<1> QED
  BY <1>6, <1>7 DEF ExtensionsOwed

LEMMA OwedStep == LifeTypeOK /\ RowsExist /\ ExtensionsOwed /\ LifeNext => ExtensionsOwed'
<1> SUFFICES ASSUME LifeTypeOK, RowsExist, ExtensionsOwed, LifeNext PROVE ExtensionsOwed'
  OBVIOUS
<1> USE DEF contractVars, signingVars, renewalVars, timeVars, OnlyContract, Checked, Columns
<1>1. \A a \in Slot : \A j : Takes(a, j) /\ ~ Owes(job[a]) /\ ~ Owes(j) => NobodyOwes
  BY JobsMove DEF LifeTypeOK, NobodyOwes
<1>2. \A a \in Slot : Finish(a) /\ ~ Owes(job[a]) => NobodyOwes
  BY <1>1, JobsMove, JobFields DEF LifeTypeOK, Owes
<1>3. CASE UNCHANGED <<renewCount, renewedFrom, appendices>> /\ NobodyOwes
  BY <1>3, OwedStays DEF LifeTypeOK
<1>4. CASE TimePasses \/ \E c \in Contract :
              DepositPaid(c) \/ \E f \in BOOLEAN : CreateContract(c, f)
  BY <1>3, <1>4 DEF TimePasses, LeaseAdvances, UpdateLapses, DepositPaid, CreateContract, NobodyOwes
<1>5. CASE \E c \in Contract, r \in Role, s \in Answers : VnptAnswers(c, r, s)
  BY <1>3, <1>5 DEF VnptAnswers, NobodyOwes
<1>6. CASE Crash
  <2>1. \A c \in Contract : Owing(c)' = {} /\ Successors(c)' = Successors(c)
    BY <1>6, JobFields DEF Crash, Owing, Successors
  <2>2. \A c \in Contract : renewCount'[c] = renewCount[c] /\ appendices'[c] = appendices[c]
                            /\ renewCount[c] \in Nat /\ appendices[c] \in Nat
    BY <1>6 DEF Crash, LifeTypeOK
  <2>3. ASSUME NEW c \in Contract
        PROVE  renewCount'[c] + Cardinality(Owing(c)')
               <= appendices'[c] + Cardinality(Successors(c)')
    <3>1. Cardinality(Owing(c)') = 0 /\ Cardinality(Successors(c)') = Cardinality(Successors(c))
      BY <2>1, FS_EmptySet
    <3>2. renewCount[c] + Cardinality(Owing(c)) <= appendices[c] + Cardinality(Successors(c))
      BY DEF ExtensionsOwed
    <3> QED
      BY <2>2, <3>1, <3>2, CountsFinite
  <2> QED
    BY <2>3 DEF ExtensionsOwed
<1>7. ASSUME NEW a \in Slot, EndsQuietly(a) \/ ReviewStarts(a) PROVE ExtensionsOwed'
  BY <1>1, <1>3, <1>7, QuietDo, ReviewsDo, JobFields DEF Owes
<1>8. ASSUME NEW a \in Slot, NEW c \in Contract, Checks(a, c) \/ WritesStatus(a, c)
      PROVE  ExtensionsOwed'
  <2>1. CASE Checks(a, c)
    <3>1. NobodyOwes
      BY <1>1, <2>1, ChecksDo, JobFields DEF Owes, Plain
    <3> QED
      BY <1>3, <2>1, <3>1, ChecksDo
  <2>2. CASE WritesStatus(a, c)
    BY <1>1, <1>3, <2>2, WritesDo, JobFields DEF Owes, Plain
  <2> QED
    BY <1>8, <2>1, <2>2
<1>9. ASSUME NEW a \in Slot, NEW c \in Contract,
             \/ TenantSign(a, c) \/ OwnerSign(a, c)
             \/ \E n \in Contract : CreateUpdateDraft(a, c, n)
             \/ \E r \in Renewal : CreateRenewalRequest(a, c, r)
      PROVE  ExtensionsOwed'
  BY <1>2, <1>3, <1>9 DEF TenantSign, OwnerSign, CreateUpdateDraft, CreateRenewalRequest, At, Owes
<1>10. ASSUME NEW a \in Slot, NEW c \in Contract, NEW r \in Role,
              \/ SignStart(a, c, r) \/ SignContract(a, c, r)
              \/ PollRead(a, c, r) \/ PollSuccess(a, c, r) \/ PollRefused(a, c, r)
              \/ ProcessStart(a, c, r) \/ ProcessSigned(a, c, r) \/ ProcessFails(a, c, r)
       PROVE  ExtensionsOwed'
  <2>1. NobodyOwes
    BY <1>1, <1>2, <1>10, JobFields DEF SignStart, SignContract, PollRead, PollSuccess, PollRefused,
       ProcessStart, ProcessSigned, ProcessFails, Begin, Takes, At, Owes
  <2> QED
    BY <1>3, <1>10, <2>1 DEF SignStart, SignContract, PollRead, PollSuccess, PollRefused,
       ProcessStart, ProcessSigned, ProcessFails
<1>11. ASSUME NEW a \in Slot, NEW r \in Renewal, ApproveRenewalRequest(a, r) \/ RenewalEnds(a, r)
       PROVE  ExtensionsOwed'
  <2>1. NobodyOwes
    BY <1>2, <1>11 DEF ApproveRenewalRequest, RenewalEnds, RejectRenewalRequest,
       CancelRenewalRequest, At, Owes
  <2>2. \A c \in Contract : appendices'[c] \in Nat /\ appendices'[c] >= appendices[c]
    BY <1>11 DEF ApproveRenewalRequest, RenewalEnds, RejectRenewalRequest, CancelRenewalRequest,
       LifeTypeOK
  <2> QED
    BY <1>11, <2>1, <2>2, OwedStays DEF ApproveRenewalRequest, RenewalEnds, RejectRenewalRequest,
       CancelRenewalRequest
<1>12. ASSUME NEW a \in Slot, NEW c \in Contract, NEW n \in Contract,
              ExtendAppendix(a, c) \/ RenewCreate(a, c, n)
       PROVE  ExtensionsOwed'
  <2>1. job[a].pc = "autoRenew" /\ job[a].on = c /\ \E p \in {"extend", "renewBase"} : Become(a, p)
    BY <1>12 DEF ExtendAppendix, RenewCreate, Become, At
  <2>2. /\ a \notin Owing(c) /\ Owing(c)' = Owing(c) \cup {a}
        /\ \A d \in Contract \ {c} : Owing(d)' = Owing(d)
    <3>1. \A b \in Slot \ {a} : job'[b] = job[b]
      BY <2>1, JobsMove DEF LifeTypeOK
    <3>2. job'[a].pc \in {"extend", "renewBase"} /\ job'[a].on = c
      BY <2>1, JobsMove DEF LifeTypeOK
    <3> QED
      BY <2>1, <3>1, <3>2 DEF Owing
  <2>3. CASE ExtendAppendix(a, c)
    BY <2>2, <2>3, OwedChanges DEF ExtendAppendix, LifeTypeOK, Successors
  <2>4. CASE RenewCreate(a, c, n)
    <3>1. renewedFrom[n] = None /\ renewedFrom' = [renewedFrom EXCEPT ![n] = c]
      BY <2>4 DEF RenewCreate, RowsExist
    <3>2. n \notin Successors(c) /\ Successors(c)' = Successors(c) \cup {n}
      BY <3>1, ContractAssumption DEF Successors, LifeTypeOK, ContractAssumption
    <3>3. \A d \in Contract \ {c} : Successors(d)' = Successors(d)
      BY <3>1, ContractAssumption DEF Successors, LifeTypeOK, ContractAssumption
    <3> QED
      BY <2>2, <2>4, <3>2, <3>3, OwedChanges DEF RenewCreate
  <2> QED
    BY <1>12, <2>3, <2>4
<1>13. ASSUME NEW a \in Slot, NEW c \in Contract, RenewBase(a, c) \/ ExtendContract(a, c)
       PROVE  ExtensionsOwed'
  <2>1. a \in Owing(c)
    BY <1>13 DEF RenewBase, ExtendContract, At, Owing
  <2>2. \A b \in Slot : job'[b] = IF b = a THEN Idle ELSE job[b]
    BY <1>13, JobsMove DEF RenewBase, ExtendContract, LifeTypeOK
  <2>3. Owing(c)' = Owing(c) \ {a} /\ \A d \in Contract \ {c} : Owing(d)' = Owing(d)
    BY <2>1, <2>2, JobFields DEF Owing
  <2> QED
    BY <1>13, <2>1, <2>3, OwedChanges DEF RenewBase, ExtendContract, LifeTypeOK, Successors
<1> QED
  BY <1>4, <1>5, <1>6, <1>7, <1>8, <1>9, <1>10, <1>11, <1>12, <1>13, LifeSteps

-----------------------------------------------------------------------------
(* The invariant of ContractLifecycle, and what it promises.               *)

LEMMA LifeStarts == LifeInit => LifeInv
<1> SUFFICES ASSUME LifeInit PROVE LifeInv
  OBVIOUS
<1>1. LifeTypeOK
  BY ContractAssumption DEF LifeInit, LifeTypeOK, Status, Session, RowStatus, Term, Idle, JobOf, Job, Pc
<1>2. RowsExist /\ SignedInTurn /\ CompleteUpdates
  BY JobFields DEF LifeInit, RowsExist, SignedInTurn, CompleteUpdates, SupersededBySigned,
     AfterTenant, InForce, NeedsBacked, SigningPc, OnContract, Role
<1>3. OneWorkerPerSignature
  BY JobFields DEF LifeInit, OneWorkerPerSignature, Working
<1>4. ExtensionsOwed
  <2>1. \A c \in Contract : Owing(c) = {} /\ renewCount[c] = 0 /\ appendices[c] = 0
    BY <1>1, JobFields DEF LifeInit, Owing
  <2> QED
    BY <2>1, FS_EmptySet, CountsFinite DEF ExtensionsOwed
<1> QED
  BY <1>1, <1>2, <1>3, <1>4 DEF LifeInv

LEMMA LifeStutters == LifeInv /\ UNCHANGED lifeVars => LifeInv'
<1> SUFFICES ASSUME LifeInv, UNCHANGED lifeVars PROVE LifeInv'
  OBVIOUS
<1> USE DEF lifeVars, contractVars, signingVars, renewalVars, timeVars
<1>1. LifeTypeOK' /\ RowsExist' /\ SignedInTurn' /\ CompleteUpdates'
  BY DEF LifeInv, LifeTypeOK, RowsExist, SignedInTurn, Backed, TenantSigned, CompleteUpdates,
     SupersededBySigned
<1>2. OneWorkerPerSignature' /\ ExtensionsOwed'
  BY DEF LifeInv, OneWorkerPerSignature, Working, ExtensionsOwed, Owing, Successors
<1> QED
  BY <1>1, <1>2 DEF LifeInv

LEMMA LifeContinues == LifeInv /\ LifeNext => LifeInv'
BY LifeTypes, ExistStep, SignedStep, UpdatesStep, WorkersStep, OwedStep DEF LifeInv

LEMMA LifeInvPromises ==
    LifeInv => /\ TenantSignedFirst /\ SupersededBySigned
               /\ OneWorkerPerSignature /\ ExtensionsOnRecord
<1> SUFFICES ASSUME LifeInv
             PROVE  TenantSignedFirst /\ SupersededBySigned /\ ExtensionsOnRecord
  BY DEF LifeInv
<1>1. TenantSignedFirst
  BY DEF LifeInv, SignedInTurn, TenantSignedFirst, Backed, TenantSigned, AfterTenant
<1>2. ASSUME NEW c \in Contract
      PROVE  renewCount[c] <= appendices[c] + Cardinality({n \in Contract : renewedFrom[n] = c})
  <2>1. renewCount[c] \in Nat /\ appendices[c] \in Nat
        /\ renewCount[c] + Cardinality(Owing(c)) <= appendices[c] + Cardinality(Successors(c))
    BY DEF LifeInv, LifeTypeOK, ExtensionsOwed
  <2> QED
    BY <2>1, CountsFinite DEF Successors
<1> QED
  BY <1>1, <1>2 DEF LifeInv, CompleteUpdates, ExtensionsOnRecord

\* Contracts keep LifeInv on their own.
LEMMA LifeInvariant == LifeSpec => []LifeInv
BY LifeStarts, LifeStutters, LifeContinues, PTL DEF LifeSpec

\* No contract is in force that its tenant never signed, but for the successor
\* of a long lease, in whatever order handlers check and write.
THEOREM TenantFirst == LifeSpec => []TenantSignedFirst
BY LifeInvariant, LifeInvPromises, PTL

\* Only an update that both parties have signed supersedes a contract.
THEOREM UpdatesSigned == LifeSpec => []SupersededBySigned
BY LifeInvariant, LifeInvPromises, PTL

\* Each signature is put into the file by one worker at a time.
THEOREM SoleWorker == LifeSpec => []OneWorkerPerSignature
BY LifeInvariant, LifeInvPromises, PTL

\* No lease is extended without an appendix or a successor on record.
THEOREM ExtensionsRecorded == LifeSpec => []ExtensionsOnRecord
BY LifeInvariant, LifeInvPromises, PTL

-----------------------------------------------------------------------------
(* The end of contracts: what the clerks know, and what a request refers to. *)

ClerkJob == [pc: AllHandlers \cup {"idle"}, contract: Contract \cup {None}, on: Nat,
             next: RequestStatus \cup Reason, ends: BOOLEAN]
WithContract == {"requestTermination", "autoTerminate", "report"}
WithRequest == {"reviewTermination", "escalate", "admin", "resolve"}
Moving == {"escalate", "admin"}
CronReasons == {"lease_end", "non_payment"}

\* What a handler was started with.
Instructed(j) ==
    /\ j.pc \in WithContract => j.contract \in Contract
    /\ j.pc = "autoTerminate" => j.next \in CronReasons
    /\ j.pc \in WithRequest => j.on \in Request /\ request[j.on].status # "none"
    /\ j.pc \in Moving => j.next \in OpenStatus \cup {"resolved"}
    /\ j.pc = "report" => j.on \in {0} \cup Request
    /\ j.pc = "report" /\ j.on # 0 => request[j.on].status # "none"
    /\ j.pc = "resolveReport" => j.on \in Report

RequestsKnown ==
    /\ \A t \in Request : request[t].status = "none" <=> request[t].contract = None
    /\ \A p \in Report : report[p].on # 0 => request[report[p].on].status # "none"

EndTypes ==
    /\ TypeOK
    /\ clerk \in [Clerk -> ClerkJob]
    /\ \A k \in Clerk : Instructed(clerk[k])
    /\ RequestsKnown

InHand(b) == b.owner + b.tenant
Above(amount, back) == IF back > amount THEN back - amount ELSE 0

\* What a settlement leaves in the wallets is never below zero. By policy the
\* parties get the deposit and no more, and without a fee no less.
LEMMA PolicyPays ==
    ASSUME NEW b \in Books, NEW s \in Reason, NEW by \in Party, NEW fee \in Nat,
           NEW amount \in Nat \ {0}, NEW owed \in Nat,
           CanPay(b, PenaltyPayer(s, by, fee), fee)
    PROVE  /\ PolicyBooks(b, s, by, fee, amount, owed) \in Books
           /\ PolicyDebt(s, by, fee, amount, owed) \in Nat
           /\ PolicyEscrow(s, by, amount, owed)
                \in {"fully_returned", "partially_returned", "forfeited"}
           /\ PolicyBooks(b, s, by, fee, amount, owed).held = Released(b, amount)
           /\ InHand(PolicyBooks(b, s, by, fee, amount, owed)) <= InHand(b) + amount
           /\ fee = 0 => InHand(PolicyBooks(b, s, by, fee, amount, owed)) = InHand(b) + amount
<1> DEFINE paid == AfterPenalty(b, PenaltyPayer(s, by, fee), fee)
           after == PolicyBooks(b, s, by, fee, amount, owed)
<1>1. /\ b = [owner |-> b.owner, tenant |-> b.tenant, held |-> b.held]
      /\ b.owner \in Nat /\ b.tenant \in Nat /\ b.held \in Nat
  BY DEF Books
<1>2. /\ paid.owner \in Nat /\ paid.tenant \in Nat /\ paid.held = b.held
      /\ fee = 0 => paid = b
      /\ paid = [owner |-> paid.owner, tenant |-> paid.tenant, held |-> paid.held]
  BY <1>1 DEF AfterPenalty, PenaltyPayer, CanPay, BalanceOf, Other, Party, Reason
<1>3. /\ Released(b, amount) \in Nat
      /\ Least(amount, owed) \in 0 .. amount /\ Least(amount, owed) <= owed
  BY <1>1 DEF Released, Least
<1> DEFINE toTenant == \/ s = "unilateral_termination" /\ by = "OWNER"
                       \/ ForfeitedTo(s, by) = "TENANT"
           toOwner == ForfeitedTo(s, by) = "OWNER"
<1>30. (toTenant => paid.owner <= b.owner) /\ (toOwner => paid.tenant <= b.tenant)
  BY <1>1 DEF AfterPenalty, PenaltyPayer, ForfeitedTo, CanPay, BalanceOf, Other, Party, Reason
<1>4. \/ /\ after = [owner |-> paid.owner, tenant |-> b.tenant + amount,
                     held |-> Released(b, amount)]
         /\ toTenant
      \/ /\ after = [owner |-> b.owner + amount, tenant |-> paid.tenant,
                     held |-> Released(b, amount)]
         /\ toOwner
      \/ after = [owner |-> b.owner + Least(amount, owed),
                  tenant |-> b.tenant + (amount - Least(amount, owed)),
                  held |-> Released(b, amount)]
  BY <1>2 DEF PolicyBooks
<1> HIDE DEF paid, after, toTenant, toOwner
<1>5. after \in Books
  BY <1>1, <1>2, <1>3, <1>4 DEF Books
<1>6. /\ after.held = Released(b, amount)
      /\ InHand(after) <= InHand(b) + amount
      /\ fee = 0 => InHand(after) = InHand(b) + amount
  BY <1>1, <1>2, <1>3, <1>30, <1>4 DEF InHand
<1>7. PolicyDebt(s, by, fee, amount, owed) \in Nat
  BY <1>3 DEF PolicyDebt
<1>8. PolicyEscrow(s, by, amount, owed) \in {"fully_returned", "partially_returned", "forfeited"}
  BY DEF PolicyEscrow
<1> QED
  BY <1>5, <1>6, <1>7, <1>8 DEF after

\* An administrator who names no fine gives them as much more as is returned
\* above the deposit.
LEMMA AdminPaysOut ==
    ASSUME NEW b \in Books, NEW by \in Party, NEW amount \in Nat, NEW back \in Nat,
           NEW f \in Nat, NEW g \in Nat, AdminPays(b, by, f, g)
    PROVE  /\ AdminBooks(b, by, amount, back, f, g) \in Books
           /\ AdminEscrow(amount, back) \in {"fully_returned", "partially_returned", "forfeited"}
           /\ AdminBooks(b, by, amount, back, f, g).held = Released(b, amount)
           /\ f = 0 /\ g = 0 =>
                InHand(AdminBooks(b, by, amount, back, f, g))
                    = IF amount = 0 THEN InHand(b) ELSE InHand(b) + amount + Above(amount, back)
<1> DEFINE penal == AfterPenalty(b, by, f)
           after == AdminBooks(b, by, amount, back, f, g)
           kept == IF amount > back THEN amount - back ELSE 0
<1>1. /\ b = [owner |-> b.owner, tenant |-> b.tenant, held |-> b.held]
      /\ b.owner \in Nat /\ b.tenant \in Nat /\ b.held \in Nat
  BY DEF Books
<1>2. /\ penal.owner \in Nat /\ penal.tenant \in Nat /\ penal.held = b.held
      /\ f = 0 => penal = b
      /\ penal = [owner |-> penal.owner, tenant |-> penal.tenant, held |-> penal.held]
  BY <1>1 DEF AfterPenalty, AdminPays, BalanceOf, Party
<1>3. /\ Released(b, amount) \in Nat
      /\ amount = 0 => Released(b, amount) = b.held
      /\ kept \in Nat /\ kept + back = amount + Above(amount, back)
  BY <1>1 DEF Released, Least, Above
<1> DEFINE o == IF amount = 0 THEN penal.owner ELSE b.owner + kept
           t == IF amount = 0 \/ back = 0 THEN penal.tenant ELSE b.tenant + back
           h == IF amount = 0 THEN penal.held ELSE Released(b, amount)
<1>4. after = IF g = 0 THEN [owner |-> o, tenant |-> t, held |-> h]
              ELSE [owner |-> b.owner - g, tenant |-> b.tenant + g, held |-> h]
  BY <1>2 DEF AdminBooks
<1>5. g <= b.owner
  BY DEF AdminPays
<1>6. o \in Nat /\ t \in Nat /\ h \in Nat
  BY <1>1, <1>2, <1>3
<1>7. /\ h = Released(b, amount)
      /\ f = 0 => o + t = IF amount = 0 THEN b.owner + b.tenant
                         ELSE b.owner + b.tenant + amount + Above(amount, back)
  <2>1. Above(amount, back) \in Nat
    BY DEF Above
  <2> HIDE DEF penal, kept
  <2>2. h = Released(b, amount)
    BY <1>2, <1>3
  <2>3. ASSUME f = 0
        PROVE  o + t = IF amount = 0 THEN b.owner + b.tenant
                       ELSE b.owner + b.tenant + amount + Above(amount, back)
    <3>1. penal = b
      BY <1>2, <2>3
    <3>2. CASE amount = 0
      BY <3>1, <3>2
    <3>3. CASE amount # 0
      BY <1>1, <1>3, <2>1, <3>1, <3>3
    <3> QED
      BY <3>2, <3>3
  <2> QED
    BY <2>2, <2>3
<1> HIDE DEF after, o, t, h
<1>8. after \in Books
  BY <1>1, <1>4, <1>5, <1>6 DEF Books
<1>9. /\ after.held = Released(b, amount)
      /\ f = 0 /\ g = 0 => InHand(after) = IF amount = 0 THEN InHand(b)
                                          ELSE InHand(b) + amount + Above(amount, back)
  BY <1>4, <1>7 DEF InHand
<1> QED
  BY <1>8, <1>9 DEF after, AdminEscrow

\* The rows and the handlers of this module.
RequestRow == [contract: Contract \cup {None}, status: RequestStatus, reason: Reason,
               by: Party, fee: Nat, reopened: BOOLEAN]
ReportRow == [contract: Contract \cup {None}, on: {0} \cup Request,
              status: {"none", "admin", "resolved"}]
Task(p, c, t, n, e) == [pc |-> p, contract |-> c, on |-> t, next |-> n, ends |-> e]

\* The handlers that check and have written nothing yet.
Starts(k) ==
    \/ \E c \in Contract : CreateRequestStart(k, c)
    \/ \E c \in Contract : \E s \in CronReasons : AutoTerminateStart(k, c, s)
    \/ \E c \in Contract : \E t \in {0} \cup Request, b \in BOOLEAN : CreateReportStart(k, c, t, b)
    \/ \E t \in Request : ReviewStart(k, t)
    \/ \E t \in Request : \E n \in OpenStatus \cup {"resolved"}, b \in BOOLEAN : UpdateStart(k, t, n, b)
    \/ \E t \in Request : \E b \in BOOLEAN : AdminResolveStart(k, t, b)
    \/ \E p \in Report : ResolveReportStart(k, p)

\* The handlers that write a request or a report, and end no contract.
Paperwork(k) ==
    \/ \E t \in Request : \E s \in Reasons, by \in Party, f \in Fees :
            CreateTerminationRequest(k, t, s, by, f)
    \/ ReviewReject(k) \/ Negotiate(k)
    \/ \E p \in Report : Escalate(k, p) \/ CreateReport(k, p)
    \/ ResolveReport(k)

\* The handlers that may end a contract.
Ends(k) ==
    \/ \E t \in Request : AutoTerminateContract(k, t)
    \/ ReviewApprove(k) \/ ResolveRequest(k)
    \/ AdminResolve(k, FALSE, 0, 0, 0)
    \/ \E back \in Returns, f, g \in Fees : AdminResolve(k, TRUE, back, f, g)

LEMMA EndSteps ==
    ASSUME Next
    PROVE  \/ LifeStep \/ DepositArrives \/ CrashAll
           \/ \E c \in Contract : RentUnpaid(c)
           \/ \E k \in Clerk : GiveUp(k) \/ Starts(k) \/ Paperwork(k) \/ Ends(k)
BY DEF Next, Terminations, Starts, Paperwork, Ends, CronReasons

Receives(k, j) == clerk' = [clerk EXCEPT ![k] = j]

LEMMA ClerksMove ==
    ASSUME clerk \in [Clerk -> ClerkJob], NEW k \in Clerk, NEW i \in ClerkJob, Receives(k, i)
    PROVE  /\ \A j \in Clerk : clerk'[j] = IF j = k THEN i ELSE clerk[j]
           /\ clerk' \in [Clerk -> ClerkJob]
BY DEF Receives

LEMMA TaskFields ==
    /\ \A p, c, t, n, e :
         /\ Task(p, c, t, n, e).pc = p /\ Task(p, c, t, n, e).contract = c
         /\ Task(p, c, t, n, e).on = t /\ Task(p, c, t, n, e).next = n
         /\ Task(p, c, t, n, e).ends = e
    /\ ClerkIdle = Task("idle", None, 0, "none", FALSE)
BY DEF Task, ClerkIdle

LEMMA RequestNumbers == Request \subseteq Nat \ {0} /\ Report \subseteq Nat \ {0}
BY TerminationAssumption DEF Request, Report, TerminationAssumption

LEMMA IdleInstructed == ClerkIdle \in ClerkJob /\ Instructed(ClerkIdle)
BY TaskFields DEF ClerkIdle, ClerkJob, RequestStatus, Instructed, WithContract, WithRequest, Moving

\* A handler starts with what it needs to know.
LEMMA StartsDo ==
    ASSUME EndTypes, NEW k \in Clerk, Starts(k)
    PROVE  /\ NothingWritten /\ clerk[k] = ClerkIdle
           /\ \E j \in ClerkJob : Receives(k, j) /\ Instructed(j)
<1> USE LifecycleBoundAssumption DEF LifecycleBoundAssumption
<1>1. NothingWritten /\ clerk[k] = ClerkIdle
  BY DEF Starts, CreateRequestStart, AutoTerminateStart, CreateReportStart, ReviewStart,
     UpdateStart, AdminResolveStart, ResolveReportStart, Take
<1>2. \A p, c, t, n, e : Take(k, p, c, t, n, e) =>
         Receives(k, Task(p, c, t, n, e)) /\ p \in AllHandlers
  BY DEF Take, Receives, Task
<1>3. ASSUME NEW c \in Contract, CreateRequestStart(k, c)
      PROVE  \E j \in ClerkJob : Receives(k, j) /\ Instructed(j)
  <2> DEFINE j == Task("requestTermination", c, 0, "none", FALSE)
  <2>1. Receives(k, j)
    BY <1>2, <1>3 DEF CreateRequestStart
  <2>2. j \in ClerkJob /\ Instructed(j)
    BY TaskFields DEF Task, ClerkJob, AllHandlers, RequestStatus, Instructed, WithContract,
       WithRequest, Moving
  <2> QED
    BY <2>1, <2>2
<1>4. ASSUME NEW c \in Contract, NEW s \in CronReasons, AutoTerminateStart(k, c, s)
      PROVE  \E j \in ClerkJob : Receives(k, j) /\ Instructed(j)
  <2> DEFINE j == Task("autoTerminate", c, 0, s, TRUE)
  <2>1. Receives(k, j)
    BY <1>2, <1>4 DEF AutoTerminateStart
  <2>2. j \in ClerkJob /\ Instructed(j)
    BY TaskFields DEF Task, ClerkJob, AllHandlers, Reason, CronReasons, Instructed, WithContract,
       WithRequest, Moving
  <2> QED
    BY <2>1, <2>2
<1>5. ASSUME NEW c \in Contract, NEW t \in {0} \cup Request, NEW b \in BOOLEAN,
             CreateReportStart(k, c, t, b)
      PROVE  \E j \in ClerkJob : Receives(k, j) /\ Instructed(j)
  <2> DEFINE j == Task("report", c, t, "none", FALSE)
  <2>1. Receives(k, j)
    BY <1>2, <1>5 DEF CreateReportStart
  <2>2. t # 0 => request[t].status # "none"
    BY <1>5 DEF CreateReportStart
  <2>3. t \in Nat
    BY RequestNumbers
  <2>4. j \in ClerkJob
    BY <2>3 DEF Task, ClerkJob, AllHandlers, RequestStatus
  <2>5. j.pc = "report" /\ j.contract = c /\ j.on = t
    BY DEF Task
  <2> HIDE DEF j
  <2>6. Instructed(j)
    BY <1>5, <2>2, <2>5 DEF Instructed, WithContract, WithRequest, Moving
  <2> QED
    BY <2>1, <2>4, <2>6
<1>6. ASSUME NEW t \in Request, NEW p \in WithRequest,
             NEW n \in OpenStatus \cup {"resolved", "none"}, NEW e \in BOOLEAN,
             Take(k, p, request[t].contract, t, n, e),
             request[t].status # "none", p \in Moving => n # "none"
      PROVE  \E j \in ClerkJob : Receives(k, j) /\ Instructed(j)
  <2> DEFINE j == Task(p, request[t].contract, t, n, e)
  <2>1. request[t].contract \in Contract \cup {None}
    BY DEF EndTypes, TypeOK
  <2>2. j \in ClerkJob
    <3>1. p \in AllHandlers /\ t \in Nat /\ n \in RequestStatus
      BY RequestNumbers DEF AllHandlers, RequestStatus, OpenStatus, WithRequest
    <3> QED
      BY <2>1, <3>1 DEF Task, ClerkJob
  <2>3. Instructed(j)
    BY <1>6, TaskFields DEF Instructed, WithContract, WithRequest, Moving
  <2> QED
    BY <1>2, <1>6, <2>2, <2>3
<1>7. ASSUME NEW t \in Request,
             \/ ReviewStart(k, t)
             \/ \E n \in OpenStatus \cup {"resolved"}, b \in BOOLEAN : UpdateStart(k, t, n, b)
             \/ \E b \in BOOLEAN : AdminResolveStart(k, t, b)
      PROVE  \E j \in ClerkJob : Receives(k, j) /\ Instructed(j)
  <2>1. CASE ReviewStart(k, t)
    BY <1>6, <2>1 DEF ReviewStart, WithRequest, Moving
  <2>2. ASSUME NEW n \in OpenStatus \cup {"resolved"}, NEW b \in BOOLEAN, UpdateStart(k, t, n, b)
        PROVE  \E j \in ClerkJob : Receives(k, j) /\ Instructed(j)
    <3>1. request[t].status # "none"
      BY <2>2 DEF UpdateStart, PartyMoves, AdminMoves
    <3> QED
      BY <1>6, <2>2, <3>1 DEF UpdateStart, WithRequest, OpenStatus
  <2>3. ASSUME NEW b \in BOOLEAN, AdminResolveStart(k, t, b)
        PROVE  \E j \in ClerkJob : Receives(k, j) /\ Instructed(j)
    BY <1>6, <2>3 DEF AdminResolveStart, AtAdmin, WithRequest, Moving
  <2> QED
    BY <1>7, <2>1, <2>2, <2>3
<1>8. ASSUME NEW p \in Report, ResolveReportStart(k, p)
      PROVE  \E j \in ClerkJob : Receives(k, j) /\ Instructed(j)
  <2> DEFINE j == Task("resolveReport", report[p].contract, p, "none", FALSE)
  <2>1. Receives(k, j)
    BY <1>2, <1>8 DEF ResolveReportStart
  <2>2. report[p].contract \in Contract \cup {None}
    BY DEF EndTypes, TypeOK
  <2>3. j \in ClerkJob /\ Instructed(j)
    BY <2>2, TaskFields, RequestNumbers DEF Task, ClerkJob, AllHandlers, RequestStatus, Instructed,
       WithContract, WithRequest, Moving
  <2> QED
    BY <2>1, <2>3
<1> QED
  BY <1>1, <1>3, <1>4, <1>5, <1>7, <1>8 DEF Starts

\* What a step may do to the requests and the reports there are.
RequestsKept ==
    /\ request' \in [Request -> RequestRow]
    /\ \A t \in Request : /\ request'[t].status = "none" <=> request'[t].contract = None
                          /\ request[t].status # "none" => request'[t].status # "none"
ReportsKept ==
    /\ report' \in [Report -> ReportRow]
    /\ \A p \in Report : report'[p].on # 0 => request[report'[p].on].status # "none"

LEMMA RowsWritten ==
    ASSUME EndTypes
    PROVE  /\ UNCHANGED request => RequestsKept
           /\ UNCHANGED report => ReportsKept
           /\ \A t \in Request : \A s \in RequestStatus \ {"none"} :
                request[t].status # "none" /\ request' = [request EXCEPT ![t].status = s]
                => RequestsKept
           /\ \A p \in Report : \A s \in {"admin", "resolved"} :
                report' = [report EXCEPT ![p].status = s] => ReportsKept
<1>1. request \in [Request -> RequestRow] /\ report \in [Report -> ReportRow] /\ RequestsKnown
  BY DEF EndTypes, TypeOK, RequestRow, ReportRow
<1>2. ASSUME NEW t \in Request, NEW s \in RequestStatus \ {"none"}, request[t].status # "none",
             request' = [request EXCEPT ![t].status = s]
      PROVE  RequestsKept
  <2>1. request' \in [Request -> RequestRow]
    BY <1>1, <1>2 DEF RequestRow
  <2>2. \A u \in Request : /\ request'[u].contract = request[u].contract
                           /\ request'[u].status = IF u = t THEN s ELSE request[u].status
    BY <1>1, <1>2 DEF RequestRow
  <2> QED
    BY <1>1, <1>2, <2>1, <2>2 DEF RequestsKept, RequestsKnown
<1>3. ASSUME NEW p \in Report, NEW s \in {"admin", "resolved"},
             report' = [report EXCEPT ![p].status = s]
      PROVE  ReportsKept
  <2>1. report' \in [Report -> ReportRow]
    BY <1>1, <1>3 DEF ReportRow
  <2>2. \A q \in Report : report'[q].on = report[q].on
    BY <1>1, <1>3 DEF ReportRow
  <2> QED
    BY <1>1, <2>1, <2>2 DEF ReportsKept, RequestsKnown
<1> QED
  BY <1>1, <1>2, <1>3 DEF RequestsKept, ReportsKept, RequestsKnown

LEMMA PaperworkDoes ==
    ASSUME EndTypes, NEW k \in Clerk, Paperwork(k)
    PROVE  /\ clerk[k] # ClerkIdle /\ Release(k)
           /\ UNCHANGED <<lifeVars, money>> /\ causes' \in [Contract -> Nat]
           /\ RequestsKept /\ ReportsKept
<1> DEFINE Quiet == UNCHANGED <<lifeVars, money>> /\ causes' \in [Contract -> Nat]
<1>1. clerk[k] # ClerkIdle /\ Release(k) /\ Quiet
  <2>1. causes \in [Contract -> Nat]
    BY DEF EndTypes, TypeOK
  <2>2. UNCHANGED causes \/ \E d : causes' = [causes EXCEPT ![d] = @ + 1]
    BY DEF Paperwork, CreateTerminationRequest, ReviewReject, Negotiate, Escalate, CreateReport,
       ResolveReport, ContractUntouched
  <2>3. causes' \in [Contract -> Nat]
    BY <2>1, <2>2
  <2> QED
    BY <2>3 DEF ClerkIdle, Paperwork, CreateTerminationRequest, ReviewReject, Negotiate, Escalate,
       CreateReport, ResolveReport, Doing, ContractUntouched
<1>2. Instructed(clerk[k]) /\ RequestsKnown
  BY DEF EndTypes
<1>3. request \in [Request -> RequestRow] /\ report \in [Report -> ReportRow]
  BY DEF EndTypes, TypeOK, RequestRow, ReportRow
<1>4. CASE \E t \in Request : \E s \in Reasons, by \in Party, f \in Fees :
              CreateTerminationRequest(k, t, s, by, f)
  <2>1. PICK t \in Request, s \in Reasons, by \in Party, f \in Fees :
            CreateTerminationRequest(k, t, s, by, f)
    BY <1>4
  <2> DEFINE r == [contract |-> clerk[k].contract, status |-> "pending", reason |-> s,
                   by |-> by, fee |-> f, reopened |-> FALSE]
  <2>2. clerk[k].contract \in Contract
    BY <1>2, <2>1 DEF CreateTerminationRequest, Doing, Instructed, WithContract
  <2>3. r \in RequestRow /\ r.status = "pending" /\ r.contract \in Contract
    BY <2>2, TerminationAssumption DEF RequestRow, RequestStatus, TerminationAssumption
  <2>4. request' = [request EXCEPT ![t] = r] /\ UNCHANGED report
    BY <2>1 DEF CreateTerminationRequest
  <2> HIDE DEF r
  <2>5. RequestsKept
    BY <1>2, <1>3, <2>3, <2>4, ContractAssumption DEF RequestsKept, RequestsKnown,
       ContractAssumption
  <2> QED
    BY <1>1, <2>4, <2>5, RowsWritten
<1>5. CASE ReviewReject(k) \/ Negotiate(k)
  <2>1. clerk[k].on \in Request /\ request[clerk[k].on].status # "none"
    BY <1>2, <1>5 DEF ReviewReject, Negotiate, Doing, Instructed, WithRequest
  <2> QED
    BY <1>1, <1>5, <2>1, RowsWritten DEF ReviewReject, Negotiate, RequestStatus
<1>6. ASSUME NEW p \in Report, Escalate(k, p) PROVE RequestsKept /\ ReportsKept
  <2> DEFINE t == clerk[k].on
  <2>1. t \in Request /\ request[t].status # "none"
    BY <1>2, <1>6 DEF Escalate, Doing, Instructed, WithRequest
  <2>2. RequestsKept
    BY <1>6, <2>1, RowsWritten DEF Escalate, RequestStatus
  <2>3. ASSUME report' = [report EXCEPT ![p] = [contract |-> request[t].contract, on |-> t,
                                                status |-> "admin"]]
        PROVE  ReportsKept
    <3> DEFINE r == [contract |-> request[t].contract, on |-> t, status |-> "admin"]
    <3>1. request[t].contract \in Contract \cup {None}
      BY <1>3, <2>1 DEF RequestRow
    <3>2. r \in ReportRow /\ r.on = t
      BY <2>1, <3>1 DEF ReportRow
    <3>3. report' = [report EXCEPT ![p] = r]
      BY <2>3
    <3> HIDE DEF r, t
    <3> QED
      BY <1>2, <1>3, <2>1, <3>2, <3>3 DEF ReportsKept, RequestsKnown
  <2>4. \/ report' = [report EXCEPT ![p] = [contract |-> request[t].contract, on |-> t,
                                            status |-> "admin"]]
        \/ report' = [report EXCEPT ![p].status = "admin"]
    BY <1>6 DEF Escalate, SentToAdmin
  <2> QED
    BY <2>2, <2>3, <2>4, RowsWritten
<1>7. ASSUME NEW p \in Report, CreateReport(k, p) PROVE RequestsKept /\ ReportsKept
  <2> DEFINE t == clerk[k].on
             r == [contract |-> clerk[k].contract, on |-> t, status |-> "admin"]
  <2>1. /\ clerk[k].contract \in Contract /\ t \in {0} \cup Request
        /\ t # 0 => request[t].status # "none"
    BY <1>2, <1>7 DEF CreateReport, Doing, Instructed, WithContract
  <2>2. r \in ReportRow /\ r.on = t
    BY <2>1 DEF ReportRow
  <2>3. report' = [report EXCEPT ![p] = r]
    BY <1>7 DEF CreateReport
  <2>4. request' = IF t = 0 THEN request
                   ELSE [request EXCEPT ![t].status = "admin_review", ![t].reopened = TRUE]
    BY <1>7 DEF CreateReport
  <2> HIDE DEF t, r
  <2>5. ReportsKept
    BY <1>2, <1>3, <2>1, <2>2, <2>3 DEF ReportsKept, RequestsKnown
  <2>6. CASE t # 0
    <3>1. t \in Request
      BY <2>1, <2>6
    <3>2. request' \in [Request -> RequestRow]
      BY <1>3, <2>4, <2>6, <3>1 DEF RequestRow, RequestStatus
    <3>3. \A u \in Request : /\ request'[u].contract = request[u].contract
                             /\ request'[u].status = IF u = t THEN "admin_review"
                                                     ELSE request[u].status
      BY <1>3, <2>4, <2>6, <3>1 DEF RequestRow
    <3> QED
      BY <1>2, <2>1, <2>5, <2>6, <3>2, <3>3 DEF RequestsKept, RequestsKnown
  <2> QED
    BY <2>4, <2>5, <2>6, RowsWritten
<1>8. CASE ResolveReport(k)
  <2> DEFINE p == clerk[k].on
             t == report[p].on
  <2>1. p \in Report
    BY <1>2, <1>8 DEF ResolveReport, Doing, Instructed
  <2>2. t \in {0} \cup Request /\ (t # 0 => request[t].status # "none")
    BY <1>2, <1>3, <2>1 DEF ReportRow, RequestsKnown
  <2>3. report' = [report EXCEPT ![p].status = "resolved"]
    BY <1>8 DEF ResolveReport
  <2>4. request' = IF t = 0 THEN request ELSE [request EXCEPT ![t].status = "resolved"]
    BY <1>8 DEF ResolveReport
  <2> HIDE DEF p, t
  <2> QED
    BY <1>1, <2>1, <2>2, <2>3, <2>4, RowsWritten DEF RequestStatus
<1> QED
  BY <1>1, <1>4, <1>5, <1>6, <1>7, <1>8 DEF Paperwork

Escrow == {"none", "fully_returned", "partially_returned", "forfeited"}

\* What a settlement may do to the money of a contract. The deposit goes out of
\* what is held, and the parties get it, or more by what is put down as excess.
Settled(c) ==
    /\ books' \in Books /\ debt' \in [Contract -> Nat]
    /\ charged' \in BOOLEAN /\ fined' \in BOOLEAN /\ repeats' \in Nat /\ excess' \in Nat
    /\ escrow' \in [Contract -> Escrow] /\ paidOut' \in [Contract -> Nat]
    /\ (charged => charged') /\ (fined => fined')
    /\ \A d \in Contract \ {c} : escrow'[d] = escrow[d] /\ paidOut'[d] = paidOut[d]
    /\ HasDeposit(c) =>
        /\ paidOut'[c] = paidOut[c] + 1 /\ escrow'[c] # "none"
        /\ repeats' = IF escrow[c] = "none" THEN repeats ELSE repeats + 1
        /\ books'.held = Released(books, Amount)
        /\ ~ fined' =>
            /\ InHand(books') + excess <= InHand(books) + Amount + excess'
            /\ ~ charged' => InHand(books') + excess = InHand(books) + Amount + excess'
    /\ ~ HasDeposit(c) =>
        /\ paidOut'[c] = paidOut[c] /\ escrow'[c] = escrow[c] /\ repeats' = repeats
        /\ books'.held = books.held
        /\ ~ fined' => InHand(books') = InHand(books) /\ excess' = excess

MoneyTypes ==
    /\ Amount \in Nat \ {0} /\ books \in Books /\ charged \in BOOLEAN /\ fined \in BOOLEAN
    /\ repeats \in Nat /\ excess \in Nat
    /\ debt \in [Contract -> Nat] /\ paidOut \in [Contract -> Nat]
    /\ escrow \in [Contract -> Escrow]

\* A deposit that is paid out.
LEMMA PaysOut ==
    ASSUME MoneyTypes, NEW c \in Contract, NEW e \in Escrow \ {"none"},
           escrow' = [escrow EXCEPT ![c] = e], PaidOut(c)
    PROVE  /\ escrow' \in [Contract -> Escrow] /\ escrow'[c] # "none"
           /\ paidOut' \in [Contract -> Nat] /\ paidOut'[c] = paidOut[c] + 1
           /\ \A d \in Contract \ {c} : escrow'[d] = escrow[d] /\ paidOut'[d] = paidOut[d]
           /\ repeats' \in Nat
           /\ repeats' = IF escrow[c] = "none" THEN repeats ELSE repeats + 1
<1>1. escrow' \in [Contract -> Escrow] /\ escrow'[c] # "none"
  BY DEF MoneyTypes
<1>2. paidOut' \in [Contract -> Nat] /\ paidOut'[c] = paidOut[c] + 1
  BY DEF MoneyTypes, PaidOut
<1>3. \A d \in Contract \ {c} : escrow'[d] = escrow[d] /\ paidOut'[d] = paidOut[d]
  BY DEF MoneyTypes, PaidOut
<1>4. repeats' \in Nat /\ repeats' = IF escrow[c] = "none" THEN repeats ELSE repeats + 1
  BY DEF MoneyTypes, PaidOut
<1> QED
  BY <1>1, <1>2, <1>3, <1>4

LEMMA SettlePolicy ==
    ASSUME TypeOK, NEW c \in Contract, NEW s \in Reason, NEW by \in Party, NEW fee \in Nat,
           SettleByPolicy(c, s, by, fee)
    PROVE  Settled(c)
<1>1. MoneyTypes /\ debt[c] \in Nat
  BY TerminationAssumption DEF TypeOK, TerminationAssumption, Escrow, MoneyTypes
<1>2. /\ charged' \in BOOLEAN /\ (charged => charged') /\ (~ charged' => fee = 0)
      /\ UNCHANGED <<excess, fined>>
  <2>1. charged' = (charged \/ fee > 0) /\ UNCHANGED <<excess, fined>>
    BY DEF SettleByPolicy
  <2>2. fee = 0 \/ fee > 0
    OBVIOUS
  <2> QED
    BY <1>1, <2>1, <2>2, Zenon DEF MoneyTypes
<1>3. CASE HasDeposit(c)
  <2> DEFINE b == PolicyBooks(books, s, by, fee, Amount, debt[c])
             e == PolicyEscrow(s, by, Amount, debt[c])
             o == PolicyDebt(s, by, fee, Amount, debt[c])
  <2>1. /\ books' = b /\ escrow' = [escrow EXCEPT ![c] = e] /\ debt' = [debt EXCEPT ![c] = o]
        /\ PaidOut(c) /\ CanPay(books, PenaltyPayer(s, by, fee), fee)
    BY <1>3 DEF SettleByPolicy
  <2>2. /\ b \in Books /\ o \in Nat /\ e \in Escrow \ {"none"}
        /\ b.held = Released(books, Amount)
        /\ InHand(b) <= InHand(books) + Amount
        /\ fee = 0 => InHand(b) = InHand(books) + Amount
    BY <1>1, <2>1, PolicyPays DEF Escrow, MoneyTypes
  <2> HIDE DEF b, e, o
  <2>3. debt' \in [Contract -> Nat]
    BY <1>1, <2>1, <2>2 DEF MoneyTypes
  <2>4. InHand(books') = InHand(b) /\ InHand(b) \in Nat /\ InHand(books) \in Nat
    BY <1>1, <2>1, <2>2 DEF InHand, Books, MoneyTypes
  <2>5. /\ InHand(books') + excess <= InHand(books) + Amount + excess'
        /\ ~ charged' => InHand(books') + excess = InHand(books) + Amount + excess'
    BY <1>1, <1>2, <2>2, <2>4 DEF MoneyTypes
  <2>6. books'.held = Released(books, Amount) /\ books' \in Books
    BY <2>1, <2>2
  <2>7. fined' \in BOOLEAN /\ excess' \in Nat /\ (fined => fined')
    BY <1>1, <1>2 DEF MoneyTypes
  <2> QED
    BY <1>1, <1>2, <1>3, <2>1, <2>2, <2>3, <2>5, <2>6, <2>7, PaysOut DEF Settled
<1>4. CASE ~ HasDeposit(c)
  <2>1. UNCHANGED <<books, escrow, paidOut, repeats>> /\ debt' \in [Contract -> Nat]
    BY <1>1, <1>4 DEF SettleByPolicy, MoneyTypes
  <2> QED
    BY <1>1, <1>2, <1>4, <2>1 DEF Settled, MoneyTypes, InHand
<1> QED
  BY <1>3, <1>4

LEMMA SettleAdmin ==
    ASSUME TypeOK, NEW c \in Contract, NEW by \in Party, NEW back \in Nat,
           NEW f \in Nat, NEW g \in Nat, SettleByAdmin(c, by, back, f, g)
    PROVE  Settled(c)
<1> DEFINE amount == IF HasDeposit(c) THEN Amount ELSE 0
           b == AdminBooks(books, by, amount, back, f, g)
           e == AdminEscrow(Amount, back)
<1>1. MoneyTypes /\ Amount \in Nat \ {0} /\ amount \in Nat /\ books \in Books
  BY TerminationAssumption DEF TypeOK, TerminationAssumption, Escrow, MoneyTypes
<1>2. /\ fined' = (fined \/ f > 0 \/ g > 0) /\ books' = b /\ UNCHANGED <<debt, charged>>
      /\ AdminPays(books, by, f, g)
      /\ HasDeposit(c) => /\ escrow' = [escrow EXCEPT ![c] = e]
                          /\ PaidOut(c)
                          /\ excess' = excess + Above(Amount, back)
      /\ ~ HasDeposit(c) => UNCHANGED <<escrow, paidOut, repeats, excess>>
  BY DEF SettleByAdmin, Above
<1>3. /\ b \in Books /\ b.held = Released(books, amount)
      /\ f = 0 /\ g = 0 =>
            InHand(b) = IF amount = 0 THEN InHand(books)
                        ELSE InHand(books) + amount + Above(amount, back)
  BY <1>1, <1>2, AdminPaysOut
<1>4. e \in Escrow \ {"none"}
  BY DEF AdminEscrow, Escrow
<1>5. InHand(b) \in Nat /\ InHand(books) \in Nat /\ Above(Amount, back) \in Nat
  BY <1>1, <1>3 DEF InHand, Books, Above
<1>6. (HasDeposit(c) => amount = Amount) /\ (~ HasDeposit(c) => amount = 0)
  OBVIOUS
<1>7. ~ HasDeposit(c) => b.held = books.held
  BY <1>1, <1>3, <1>6 DEF Released, Least, Books
<1> HIDE DEF b, e, amount
<1>8. fined' \in BOOLEAN /\ (fined => fined') /\ (~ fined' => f = 0 /\ g = 0)
  <2>1. fined' = (fined \/ f > 0 \/ g > 0)
    BY <1>2
  <2>2. (f = 0 \/ f > 0) /\ (g = 0 \/ g > 0)
    OBVIOUS
  <2> QED
    BY <2>1, <2>2, Zenon
<1>9. charged' \in BOOLEAN /\ (charged => charged') /\ debt' \in [Contract -> Nat]
  BY <1>1, <1>2 DEF MoneyTypes
<1>10. CASE HasDeposit(c)
  <2>1. excess' \in Nat
    BY <1>1, <1>2, <1>5, <1>10 DEF MoneyTypes
  <2>2. ~ fined' => InHand(books') + excess = InHand(books) + Amount + excess'
    BY <1>1, <1>2, <1>3, <1>5, <1>6, <1>8, <1>10 DEF MoneyTypes
  <2>3. InHand(books') + excess \in Nat
    BY <1>1, <1>2, <1>5 DEF MoneyTypes
  <2>4. books' \in Books /\ books'.held = Released(books, Amount)
    BY <1>2, <1>3, <1>6, <1>10
  <2> QED
    BY <1>1, <1>2, <1>4, <1>8, <1>9, <1>10, <2>1, <2>2, <2>3, <2>4, PaysOut DEF Settled
<1>11. CASE ~ HasDeposit(c)
  <2>1. ~ fined' => InHand(books') = InHand(books) /\ excess' = excess
    BY <1>2, <1>3, <1>6, <1>8, <1>11
  <2> QED
    BY <1>1, <1>2, <1>3, <1>7, <1>8, <1>9, <1>11, <2>1 DEF Settled, MoneyTypes
<1> QED
  BY <1>10, <1>11

\* Whose contract a handler ends: the one it was started for, or that of a
\* request which is over with it.
EndedBy(k, c) ==
    \/ clerk[k].pc = "autoTerminate" /\ clerk[k].contract = c
    \/ /\ clerk[k].pc \in WithRequest /\ request[clerk[k].on].contract = c
       /\ request'[clerk[k].on].status \notin OpenStatus

\* A handler that ends a contract settles it; what becomes of the others.
LEMMA EndsDo ==
    ASSUME EndTypes, NEW k \in Clerk, Ends(k)
    PROVE  /\ clerk[k] # ClerkIdle /\ Release(k) /\ RequestsKept /\ ReportsKept
           /\ \/ ContractUntouched
              \/ \E c \in Contract, s \in Reason : EndContract(c, s) /\ Settled(c) /\ EndedBy(k, c)
<1>1. clerk[k] # ClerkIdle /\ Release(k)
  BY DEF ClerkIdle, Ends, AutoTerminateContract, ReviewApprove, ResolveRequest, AdminResolve, Doing
<1>2. Instructed(clerk[k]) /\ RequestsKnown /\ TypeOK
  BY DEF EndTypes
<1>3. request \in [Request -> RequestRow] /\ report \in [Report -> ReportRow]
  BY DEF EndTypes, TypeOK, RequestRow, ReportRow
<1>4. \A t \in Request : request[t].status # "none" =>
        /\ request[t].contract \in Contract /\ request[t].reason \in Reason
        /\ request[t].by \in Party /\ request[t].fee \in Nat
  BY <1>2, <1>3 DEF RequestRow, RequestsKnown
<1>5. ASSUME NEW t \in Request, AutoTerminateContract(k, t)
      PROVE  /\ RequestsKept /\ ReportsKept
             /\ \E c \in Contract, s \in Reason : EndContract(c, s) /\ Settled(c) /\ EndedBy(k, c)
  <2> DEFINE c == clerk[k].contract
             s == clerk[k].next
             r == [contract |-> c, status |-> "approved", reason |-> s,
                   by |-> "OWNER", fee |-> 0, reopened |-> FALSE]
  <2>1. c \in Contract /\ s \in Reason
    BY <1>2, <1>5 DEF AutoTerminateContract, Doing, Instructed, WithContract, CronReasons, Reason
  <2>2. /\ request' = [request EXCEPT ![t] = r] /\ UNCHANGED report
        /\ SettleByPolicy(c, s, "OWNER", 0) /\ EndContract(c, s) /\ EndedBy(k, c)
    BY <1>5 DEF AutoTerminateContract, EndedBy, Doing
  <2>3. r \in RequestRow /\ r.status = "approved" /\ r.contract \in Contract
    BY <2>1 DEF RequestRow, RequestStatus, Party
  <2> HIDE DEF c, s, r
  <2>4. RequestsKept
    BY <1>2, <1>3, <2>2, <2>3, ContractAssumption DEF RequestsKept, RequestsKnown,
       ContractAssumption
  <2>5. Settled(c)
    BY <1>2, <2>1, <2>2, SettlePolicy DEF Party
  <2> QED
    BY <2>1, <2>2, <2>4, <2>5, RowsWritten
<1>6. CASE ReviewApprove(k)
  <2> DEFINE t == clerk[k].on
  <2>1. t \in Request /\ request[t].status # "none"
    BY <1>2, <1>6 DEF ReviewApprove, Doing, Instructed, WithRequest
  <2>2. /\ request' = [request EXCEPT ![t].status = "approved"] /\ UNCHANGED report
        /\ SettleByPolicy(request[t].contract, request[t].reason, request[t].by, request[t].fee)
        /\ EndContract(request[t].contract, request[t].reason)
    BY <1>6 DEF ReviewApprove
  <2>3. Settled(request[t].contract) /\ EndedBy(k, request[t].contract)
    <3>1. request'[t].status = "approved" /\ clerk[k].pc \in WithRequest
      BY <1>3, <1>6, <2>1, <2>2 DEF ReviewApprove, Doing, WithRequest
    <3> QED
      BY <1>2, <1>4, <2>1, <2>2, <3>1, SettlePolicy DEF EndedBy, OpenStatus
  <2> HIDE DEF t
  <2>4. RequestsKept
    BY <2>1, <2>2, RowsWritten DEF RequestStatus
  <2> QED
    BY <1>1, <1>4, <2>1, <2>2, <2>3, <2>4, RowsWritten
<1>7. ASSUME NEW t \in Request, request[t].status # "none", EndsOrContinues(k, t),
             EndedBy(k, request[t].contract)
      PROVE  \/ ContractUntouched
             \/ \E c \in Contract, s \in Reason : EndContract(c, s) /\ Settled(c) /\ EndedBy(k, c)
  BY <1>2, <1>4, <1>7, SettlePolicy DEF EndsOrContinues
<1>8. CASE ResolveRequest(k)
  <2> DEFINE t == clerk[k].on
  <2>1. t \in Request /\ request[t].status # "none"
    BY <1>2, <1>8 DEF ResolveRequest, Doing, Instructed, WithRequest
  <2>2. request' = [request EXCEPT ![t].status = "resolved"] /\ EndsOrContinues(k, t)
    BY <1>8 DEF ResolveRequest
  <2>3. UNCHANGED report \/ \E p \in Report : report' = [report EXCEPT ![p].status = "resolved"]
    BY <1>8 DEF ResolveRequest, Linked
  <2>30. EndedBy(k, request[t].contract)
    <3>1. request'[t].status = "resolved" /\ clerk[k].pc \in WithRequest
      BY <1>3, <1>8, <2>1, <2>2 DEF ResolveRequest, Doing, WithRequest
    <3> QED
      BY <3>1 DEF EndedBy, OpenStatus
  <2> HIDE DEF t
  <2>4. RequestsKept
    BY <2>1, <2>2, RowsWritten DEF RequestStatus
  <2>5. ReportsKept
    BY <2>3, RowsWritten
  <2> QED
    BY <1>1, <1>7, <2>1, <2>2, <2>30, <2>4, <2>5
<1>9. ASSUME NEW named \in BOOLEAN, NEW back \in Nat, NEW f \in Nat, NEW g \in Nat,
             AdminResolve(k, named, back, f, g)
      PROVE  /\ RequestsKept /\ ReportsKept
             /\ \/ ContractUntouched
                \/ \E c \in Contract, s \in Reason :
                      EndContract(c, s) /\ Settled(c) /\ EndedBy(k, c)
  <2> DEFINE t == clerk[k].on
  <2>1. t \in Request /\ request[t].status # "none"
    BY <1>2, <1>9 DEF AdminResolve, Doing, Instructed, WithRequest
  <2>2. /\ request' = [request EXCEPT ![t].status = "resolved"]
        /\ report' = [p \in Report |-> IF p \in Linked(t)
                        THEN [report[p] EXCEPT !.status = "resolved"] ELSE report[p]]
    BY <1>9 DEF AdminResolve
  <2>3. \/ EndsOrContinues(k, t)
        \/ /\ SettleByAdmin(request[t].contract, request[t].by, back, f, g)
           /\ EndContract(request[t].contract, request[t].reason)
    BY <1>9 DEF AdminResolve
  <2>30. EndedBy(k, request[t].contract)
    <3>1. request'[t].status = "resolved" /\ clerk[k].pc \in WithRequest
      BY <1>3, <1>9, <2>1, <2>2 DEF AdminResolve, Doing, WithRequest
    <3> QED
      BY <3>1 DEF EndedBy, OpenStatus
  <2> HIDE DEF t
  <2>4. RequestsKept
    BY <2>1, <2>2, RowsWritten DEF RequestStatus
  <2>5. ReportsKept
    <3>1. \A p \in Report : report'[p] \in ReportRow /\ report'[p].on = report[p].on
      BY <1>3, <2>2 DEF ReportRow
    <3> QED
      BY <1>2, <2>2, <3>1 DEF ReportsKept, RequestsKnown
  <2>6. \/ ContractUntouched
        \/ \E c \in Contract, s \in Reason : EndContract(c, s) /\ Settled(c) /\ EndedBy(k, c)
    <3>1. CASE EndsOrContinues(k, t)
      BY <1>7, <2>1, <2>30, <3>1
    <3>2. CASE /\ SettleByAdmin(request[t].contract, request[t].by, back, f, g)
               /\ EndContract(request[t].contract, request[t].reason)
      BY <1>2, <1>4, <2>1, <2>30, <3>2, SettleAdmin
    <3> QED
      BY <2>3, <3>1, <3>2
  <2> QED
    BY <2>4, <2>5, <2>6
<1>10. Returns \subseteq Nat /\ Fees \subseteq Nat
  BY TerminationAssumption DEF TerminationAssumption
<1>11. CASE AdminResolve(k, FALSE, 0, 0, 0)
  BY <1>1, <1>9, <1>11
<1>12. CASE \E back \in Returns, f, g \in Fees : AdminResolve(k, TRUE, back, f, g)
  BY <1>1, <1>9, <1>10, <1>12
<1> QED
  BY <1>1, <1>5, <1>6, <1>8, <1>11, <1>12 DEF Ends

-----------------------------------------------------------------------------
(* Contracts keep their invariant when requests, crons and administrators  *)
(* end them.                                                               *)

LEMMA LifeStepDoes ==
    ASSUME LifeTypeOK, LifeStep
    PROVE  /\ LifeNext /\ UNCHANGED <<request, report, money, clerk>> /\ ComesIntoForce
           /\ \A c \in Contract : deposit'[c] = "paid" <=> deposit[c] = "paid"
<1> USE DEF contractVars, signingVars, renewalVars, timeVars, OnlyContract, Checked
<1>1. LifeNext /\ UNCHANGED <<request, report, money, clerk>> /\ ComesIntoForce
  BY DEF LifeStep, LifeNext, DraftingOfExisting, LeaseSteps, Drafting, Environment
<1>2. UNCHANGED deposit \/ \E a \in Slot, c \in Contract : TenantSign(a, c)
  <2>1. CASE DraftingOfExisting
    BY <2>1 DEF DraftingOfExisting, UpdateDraftStart, CreateUpdateDraft, EditStart, UpdateContract,
       SendStart, SendToTenant
  <2>2. CASE Signing
    BY <2>2 DEF Signing, TenantSignStart, OwnerSignStart, OwnerSign, ActivateStart,
       ActivateContract, CancelStart, CancelContract, UpdateExpireFind, UpdateExpireWrite
  <2>3. CASE SmartCA
    BY <2>3 DEF SmartCA, SignStart, SignContract, SignFails, VnptAnswers, PollRead, PollSuccess,
       PollRefused, ProcessStart, ProcessSigned, ProcessFails
  <2>4. CASE Lifecycle
    BY <2>4 DEF Lifecycle, NearFind, NearWrite, RenewFind, RenewRefused, RenewBase, RenewCreate,
       ExtendAppendix, ExtendContract
  <2>5. CASE Renewals
    BY <2>5 DEF Renewals, RequestRenewalStart, CreateAdjustmentStart, CreateRenewalRequest,
       CreateAdjustmentAppendix, ReviewRenewalStart, ApproveRenewalRequest, RejectRenewalRequest,
       CancelRenewalRequest, ReviewAdjustmentStart, ApproveAppendix, RejectAppendix
  <2>6. CASE LeaseSteps
    BY <2>6 DEF LeaseSteps, LeaseAdvances, UpdateLapses
  <2> QED
    BY <2>1, <2>2, <2>3, <2>4, <2>5, <2>6 DEF LifeStep
<1>3. \A c \in Contract : deposit'[c] = "paid" <=> deposit[c] = "paid"
  BY <1>2 DEF TenantSign, LifeTypeOK
<1> QED
  BY <1>1, <1>3

LEMMA EndKeeps ==
    ASSUME LifeInv, NEW c \in Contract, NEW s \in Reason, EndContract(c, s)
    PROVE  LifeInv'
<1> USE DEF contractVars, signingVars, renewalVars, timeVars
<1>1. /\ UNCHANGED <<parent, renewedFrom, deposit, lateEdit, signed, sign, session, inbox,
                     renewal, adjustment, appendices, renewCount, term, lapsed, job, crashes>>
      /\ inactive' = inactive \cup {c}
      /\ \E e \in {"expired", "terminated"} : status' = [status EXCEPT ![c] = e]
  BY DEF EndContract, SetStatus
<1>2. LifeTypeOK'
  BY <1>1 DEF LifeInv, LifeTypeOK, Status
<1>3. \A d \in Contract : \/ status'[d] = status[d]
                          \/ status'[d] \in {"expired", "terminated"}
  BY <1>1 DEF LifeInv, LifeTypeOK
<1>4. RowsExist'
  BY <1>1, <1>3 DEF LifeInv, RowsExist
<1>5. SignedInTurn'
  BY <1>1, <1>3 DEF LifeInv, SignedInTurn, Backed, TenantSigned, AfterTenant, InForce
<1>6. CompleteUpdates'
  BY <1>1, <1>3 DEF LifeInv, CompleteUpdates, SupersededBySigned
<1>7. OneWorkerPerSignature' /\ ExtensionsOwed'
  BY <1>1 DEF LifeInv, OneWorkerPerSignature, Working, ExtensionsOwed, Owing, Successors
<1> QED
  BY <1>2, <1>4, <1>5, <1>6, <1>7 DEF LifeInv

\* Of the contracts a step leaves everything alone, or it is a step of theirs,
\* or it ends one.
LEMMA LifeMoves ==
    ASSUME LifeTypeOK, EndTypes, Next
    PROVE  \/ LifeNext \/ UNCHANGED lifeVars
           \/ \E c \in Contract, s \in Reason : EndContract(c, s)
<1>1. CASE LifeStep
  BY <1>1, LifeStepDoes
<1>2. CASE DepositArrives
  BY <1>2 DEF DepositArrives, LifeNext, Drafting, Environment
<1>3. CASE CrashAll
  BY <1>3 DEF CrashAll, LifeNext
<1>4. CASE \E c \in Contract : RentUnpaid(c)
  BY <1>4 DEF RentUnpaid
<1>5. ASSUME NEW k \in Clerk, GiveUp(k) \/ Starts(k)
      PROVE  UNCHANGED lifeVars
  BY <1>5, StartsDo DEF GiveUp, NothingWritten, ContractUntouched
<1>6. ASSUME NEW k \in Clerk, Paperwork(k) \/ Ends(k)
      PROVE  UNCHANGED lifeVars \/ \E c \in Contract, s \in Reason : EndContract(c, s)
  BY <1>6, PaperworkDoes, EndsDo DEF ContractUntouched
<1> QED
  BY <1>1, <1>2, <1>3, <1>4, <1>5, <1>6, EndSteps

LEMMA LifeGoesOn == LifeInv /\ EndTypes /\ [Next]_vars => LifeInv'
<1> SUFFICES ASSUME LifeInv, EndTypes, [Next]_vars PROVE LifeInv'
  OBVIOUS
<1>1. CASE UNCHANGED vars
  BY <1>1, LifeStutters DEF vars
<1>2. CASE Next
  BY <1>2, LifeMoves, LifeContinues, LifeStutters, EndKeeps DEF LifeInv
<1> QED
  BY <1>1, <1>2

LEMMA EndTypesStep == LifeInv /\ EndTypes /\ [Next]_vars => EndTypes'
<1> SUFFICES ASSUME LifeInv, EndTypes, [Next]_vars PROVE EndTypes'
  OBVIOUS
<1>1. LifeTypeOK'
  BY LifeGoesOn DEF LifeInv
<1>2. /\ clerk \in [Clerk -> ClerkJob] /\ \A k \in Clerk : Instructed(clerk[k])
  BY DEF EndTypes
<1>3. \A k \in Clerk : \A i \in ClerkJob :
         Receives(k, i) => /\ clerk' \in [Clerk -> ClerkJob]
                           /\ \A j \in Clerk : clerk'[j] = IF j = k THEN i ELSE clerk[j]
  BY <1>2, ClerksMove
<1>4. \A k \in Clerk : Release(k) => Receives(k, ClerkIdle)
  BY DEF Release, Receives
<1>5. MoneyTypes /\ causes \in [Contract -> Nat]
  BY TerminationAssumption DEF EndTypes, TypeOK, Escrow, MoneyTypes, TerminationAssumption
<1>6. ASSUME RequestsKept, ReportsKept, MoneyTypes',
             causes' \in [Contract -> Nat], clerk' \in [Clerk -> ClerkJob],
             \A k \in Clerk : \/ clerk'[k] = clerk[k] \/ clerk'[k] = ClerkIdle
                              \/ UNCHANGED request /\ Instructed(clerk'[k])
      PROVE  EndTypes'
  <2>1. ASSUME NEW k \in Clerk PROVE Instructed(clerk[k])'
    <3>1. CASE clerk'[k] = clerk[k]
      <4>1. Instructed(clerk[k])
        BY <1>2
      <4> QED
        BY <1>6, <3>1, <4>1 DEF Instructed, RequestsKept, WithRequest
    <3>2. CASE clerk'[k] = ClerkIdle
      BY <3>2 DEF Instructed, ClerkIdle, WithContract, WithRequest, Moving
    <3>3. CASE UNCHANGED request /\ Instructed(clerk'[k])
      BY <3>3 DEF Instructed
    <3> QED
      BY <1>6, <3>1, <3>2, <3>3
  <2>2. RequestsKnown'
    BY <1>6 DEF RequestsKept, ReportsKept, RequestsKnown, ReportRow
  <2>3. \A k \in Clerk : clerk'[k].pc \in AllHandlers \cup {"idle"}
    BY <1>6 DEF ClerkJob
  <2>4. TypeOK'
    BY <1>1, <1>6, <2>3 DEF TypeOK, RequestsKept, ReportsKept, RequestRow, ReportRow,
       Escrow, MoneyTypes
  <2> QED
    BY <1>6, <2>1, <2>2, <2>4 DEF EndTypes
<1>60. UNCHANGED money => MoneyTypes'
  BY <1>5 DEF money, MoneyTypes
<1>7. CASE UNCHANGED <<request, report, money, clerk>> /\ causes' \in [Contract -> Nat]
  BY <1>2, <1>6, <1>60, <1>7, RowsWritten
<1>8. CASE DepositArrives
  <2>1. PICK c \in Contract : books' = [books EXCEPT !.held = @ + Received(c)]
    BY <1>8 DEF DepositArrives
  <2>2. Received(c) \in Nat
    BY TerminationAssumption DEF Received, TerminationAssumption
  <2>3. books' \in Books
    BY <1>5, <2>1, <2>2 DEF Books, MoneyTypes
  <2>4. MoneyTypes'
    BY <1>5, <1>8, <2>3 DEF DepositArrives, MoneyTypes
  <2> QED
    BY <1>2, <1>5, <1>6, <1>8, <2>4, RowsWritten DEF DepositArrives
<1>9. CASE CrashAll
  BY <1>2, <1>5, <1>6, <1>60, <1>9, RowsWritten, IdleInstructed DEF CrashAll
<1>10. CASE \E c \in Contract : RentUnpaid(c)
  <2>1. debt' \in [Contract -> Nat]
    BY <1>5, <1>10 DEF RentUnpaid, MoneyTypes
  <2>2. MoneyTypes'
    BY <1>5, <1>10, <2>1 DEF RentUnpaid, MoneyTypes
  <2> QED
    BY <1>2, <1>5, <1>6, <1>10, <2>2, RowsWritten DEF RentUnpaid
<1>11. ASSUME NEW k \in Clerk, GiveUp(k) PROVE EndTypes'
  <2>1. Receives(k, ClerkIdle) /\ UNCHANGED <<request, report, money, causes>>
    BY <1>4, <1>11 DEF GiveUp, NothingWritten, ContractUntouched
  <2> QED
    BY <1>2, <1>3, <1>5, <1>6, <1>60, <2>1, RowsWritten, IdleInstructed
<1>12. ASSUME NEW k \in Clerk, Starts(k) PROVE EndTypes'
  <2>1. UNCHANGED <<request, report, money, causes>>
    BY <1>12, StartsDo DEF NothingWritten, ContractUntouched
  <2>2. PICK j \in ClerkJob : Receives(k, j) /\ Instructed(j)
    BY <1>12, StartsDo
  <2> QED
    BY <1>2, <1>3, <1>5, <1>6, <1>60, <2>1, <2>2, RowsWritten
<1>13. ASSUME NEW k \in Clerk, Paperwork(k) PROVE EndTypes'
  <2>1. /\ Receives(k, ClerkIdle) /\ RequestsKept /\ ReportsKept
        /\ UNCHANGED money /\ causes' \in [Contract -> Nat]
    BY <1>4, <1>13, PaperworkDoes
  <2> QED
    BY <1>2, <1>3, <1>6, <1>60, <2>1, IdleInstructed
<1>14. ASSUME NEW k \in Clerk, Ends(k) PROVE EndTypes'
  <2>1. Receives(k, ClerkIdle) /\ RequestsKept /\ ReportsKept
    BY <1>4, <1>14, EndsDo
  <2>2. UNCHANGED causes /\ (UNCHANGED money \/ \E c \in Contract : Settled(c))
    BY <1>14, EndsDo DEF ContractUntouched, EndContract
  <2>3. (\E c \in Contract : Settled(c)) => MoneyTypes'
    BY <1>5 DEF Settled, MoneyTypes
  <2> QED
    BY <1>2, <1>3, <1>5, <1>6, <1>60, <2>1, <2>2, <2>3, IdleInstructed
<1>15. CASE LifeStep
  <2>1. UNCHANGED <<request, report, money, clerk>> /\ ComesIntoForce
    BY <1>15, LifeStepDoes DEF LifeInv
  <2>2. causes' \in [Contract -> Nat]
    BY <1>5, <2>1 DEF ComesIntoForce
  <2> QED
    BY <1>7, <2>1, <2>2
<1>16. CASE UNCHANGED vars
  BY <1>5, <1>7, <1>16 DEF vars, endVars
<1> QED
  BY <1>8, <1>9, <1>10, <1>11, <1>12, <1>13, <1>14, <1>15, <1>16, EndSteps

LEMMA EndStarts == Init => LifeInv /\ EndTypes
<1> SUFFICES ASSUME Init PROVE LifeInv /\ EndTypes
  OBVIOUS
<1>1. LifeInv
  BY LifeStarts DEF Init
<1>2. request \in [Request -> RequestRow] /\ \A t \in Request : request[t] = NoRequest
  BY DEF Init, NoRequest, RequestRow, RequestStatus, Reason, Party
<1>3. report \in [Report -> ReportRow] /\ \A p \in Report : report[p] = NoReport
  BY DEF Init, NoReport, ReportRow
<1>4. /\ clerk \in [Clerk -> ClerkJob] /\ \A k \in Clerk : clerk[k] = ClerkIdle
      /\ \A k \in Clerk : Instructed(clerk[k])
  BY IdleInstructed DEF Init
<1>5. RequestsKnown
  BY <1>2, <1>3 DEF RequestsKnown, NoRequest, NoReport
<1>6. TypeOK
  <2>1. books \in Books
    BY DEF Init, Books
  <2>2. \A k \in Clerk : clerk[k].pc \in AllHandlers \cup {"idle"}
    BY <1>4 DEF ClerkIdle
  <2> QED
    BY <1>1, <1>2, <1>3, <2>1, <2>2 DEF Init, TypeOK, LifeInv, RequestRow, ReportRow
<1> QED
  BY <1>1, <1>4, <1>5, <1>6 DEF EndTypes

LEMMA EndInvariant == Spec => [](LifeInv /\ EndTypes)
BY EndStarts, LifeGoesOn, EndTypesStep, PTL DEF Spec

\* Every variable keeps its type, and no settlement, whatever fee or
\* compensation it is given, takes a wallet below zero.
THEOREM BooksNeverNegative == Spec => []TypeOK
BY EndInvariant, PTL DEF EndTypes

\* Requests, crons and administrators that end contracts beside all other
\* handlers break none of the promises of ContractLifecycle.
THEOREM EndingsKeepPromises ==
    Spec => [](/\ TenantSignedFirst /\ SupersededBySigned
               /\ OneWorkerPerSignature /\ ExtensionsOnRecord)
BY EndInvariant, LifeInvPromises, PTL

-----------------------------------------------------------------------------
(* What settlements make of the money.                                     *)

\* A deposit that was paid out had been paid, and its row says so.
PaidOutWasPaid ==
    \A c \in Contract :
        /\ escrow[c] # "none" <=> paidOut[c] > 0
        /\ paidOut[c] > 0 => deposit[c] = "paid"

HasPaid == {c \in Contract : deposit[c] = "paid"}
Lying == {c \in HasPaid : paidOut[c] = 0}
PaidIn == Amount * Cardinality(HasPaid)
Unsettled == Amount * Cardinality(Lying)
Repeated == Amount * repeats

\* What is held is never more than the deposits that were not paid out, and
\* less only by deposits that were paid out again; what the parties have in
\* hand is what left the deposits, with each repeated payout and what was
\* returned above a deposit, less what fees lost.
BooksInv ==
    /\ books.held <= Unsettled /\ Unsettled <= books.held + Repeated
    /\ ~ fined =>
        /\ InHand(books) + Unsettled <= 2 + excess + PaidIn + Repeated
        /\ ~ charged => InHand(books) + Unsettled = 2 + excess + PaidIn + Repeated

MoneyInv == PaidOutWasPaid /\ BooksInv

LEMMA DepositsFinite ==
    /\ IsFiniteSet(HasPaid) /\ Cardinality(HasPaid) \in Nat
    /\ IsFiniteSet(Lying) /\ Cardinality(Lying) \in Nat
    /\ \A c \in Contract \ HasPaid : Cardinality(HasPaid \cup {c}) = Cardinality(HasPaid) + 1
    /\ \A c \in Contract \ Lying : Cardinality(Lying \cup {c}) = Cardinality(Lying) + 1
    /\ \A c \in Lying : Cardinality(Lying \ {c}) = Cardinality(Lying) - 1 /\ Cardinality(Lying) > 0
<1>1. IsFiniteSet(HasPaid) /\ IsFiniteSet(Lying)
  BY ContractAssumption, FS_Subset DEF ContractAssumption, HasPaid, Lying
<1>2. Cardinality(HasPaid) \in Nat /\ Cardinality(Lying) \in Nat
  BY <1>1, FS_CardinalityType
<1>3. \A c \in Contract \ HasPaid : Cardinality(HasPaid \cup {c}) = Cardinality(HasPaid) + 1
  BY <1>1, FS_AddElement
<1>4. \A c \in Contract \ Lying : Cardinality(Lying \cup {c}) = Cardinality(Lying) + 1
  BY <1>1, FS_AddElement
<1>5. \A c \in Lying : Cardinality(Lying \ {c}) = Cardinality(Lying) - 1
  BY <1>1, FS_RemoveElement
<1>6. ASSUME NEW c \in Lying PROVE Cardinality(Lying) > 0
  <2>1. Lying # {}
    OBVIOUS
  <2> QED
    BY <1>1, <1>2, <2>1, FS_EmptySet
<1> QED
  BY <1>1, <1>2, <1>3, <1>4, <1>5, <1>6

LEMMA Multiples ==
    ASSUME NEW m \in Nat, NEW n \in Nat
    PROVE  /\ m * n \in Nat /\ m * (n + 1) = m * n + m
           /\ n > 0 => m * (n - 1) = m * n - m /\ m <= m * n
<1>1. m * n \in Nat /\ m * (n + 1) = m * n + m
  OBVIOUS
<1>2. ASSUME n > 0 PROVE m * (n - 1) = m * n - m /\ m <= m * n
  <2>1. m * (n - 1) = m * n - m
    BY <1>2
  <2>2. n - 1 \in Nat
    BY <1>2
  <2>3. m * (n - 1) \in Nat
    BY <2>2
  <2> QED
    BY <1>1, <2>1, <2>3
<1> QED
  BY <1>1, <1>2

LEMMA MoneyNumbers ==
    ASSUME TypeOK
    PROVE  /\ Amount \in Nat \ {0} /\ repeats \in Nat /\ excess \in Nat
           /\ PaidIn \in Nat /\ Unsettled \in Nat /\ Repeated \in Nat
           /\ books.held \in Nat /\ InHand(books) \in Nat
<1>1. Amount \in Nat \ {0} /\ repeats \in Nat /\ excess \in Nat
  BY TerminationAssumption DEF TypeOK, TerminationAssumption
<1>2. PaidIn \in Nat /\ Unsettled \in Nat /\ Repeated \in Nat
  BY <1>1, DepositsFinite, Multiples DEF PaidIn, Unsettled, Repeated
<1>3. books.held \in Nat /\ InHand(books) \in Nat
  BY DEF TypeOK, Books, InHand
<1> QED
  BY <1>1, <1>2, <1>3

\* Steps that touch no deposit and no wallet.
LEMMA MoneyStays ==
    ASSUME MoneyInv, UNCHANGED <<escrow, books, paidOut, repeats, excess, charged, fined>>,
           \A c \in Contract : deposit'[c] = "paid" <=> deposit[c] = "paid"
    PROVE  MoneyInv'
<1>1. PaidOutWasPaid'
  BY DEF MoneyInv, PaidOutWasPaid
<1>2. HasPaid' = HasPaid
  BY DEF HasPaid
<1>3. Lying' = Lying
  BY <1>2 DEF Lying
<1>4. BooksInv'
  BY <1>2, <1>3 DEF MoneyInv, BooksInv, PaidIn, Unsettled, Repeated
<1> QED
  BY <1>1, <1>4 DEF MoneyInv

\* A deposit is paid: the pending balance and what was paid grow by it.
LEMMA MoneyArrives ==
    ASSUME LifeInv, EndTypes, MoneyInv, DepositArrives
    PROVE  MoneyInv'
<1>1. PICK c \in Contract : /\ (\E f \in BOOLEAN : CreateContract(c, f)) \/ DepositPaid(c)
                            /\ books' = [books EXCEPT !.held = @ + Received(c)]
  BY DEF DepositArrives
<1>2. UNCHANGED <<escrow, paidOut, repeats, excess, charged, fined>>
  BY DEF DepositArrives
<1>3. /\ deposit[c] # "paid"
      /\ \A d \in Contract \ {c} : deposit'[d] = deposit[d]
  BY <1>1 DEF CreateContract, DepositPaid, LifeInv, LifeTypeOK, RowsExist
<1>4. paidOut[c] = 0 /\ escrow[c] = "none"
  BY <1>3 DEF MoneyInv, PaidOutWasPaid, EndTypes, TypeOK
<1>5. PaidOutWasPaid'
  BY <1>2, <1>3, <1>4 DEF MoneyInv, PaidOutWasPaid
<1>6. CASE deposit'[c] # "paid"
  <2>1. Received(c) = 0 /\ books \in Books
    BY <1>6 DEF Received, EndTypes, TypeOK
  <2>2. books' = books
    BY <1>1, <2>1 DEF Books
  <2> QED
    BY <1>2, <1>3, <1>6, <2>2, MoneyStays
<1>7. CASE deposit'[c] = "paid"
  <2>1. Received(c) = Amount /\ books \in Books /\ Amount \in Nat
    BY <1>3, <1>7, TerminationAssumption DEF Received, EndTypes, TypeOK, TerminationAssumption
  <2>2. books'.held = books.held + Amount /\ InHand(books') = InHand(books)
    BY <1>1, <2>1 DEF Books, InHand
  <2>3. HasPaid' = HasPaid \cup {c} /\ c \notin HasPaid
    BY <1>3, <1>7 DEF HasPaid
  <2>4. Lying' = Lying \cup {c} /\ c \notin Lying
    BY <1>2, <1>4, <2>3 DEF Lying
  <2>5. PaidIn' = PaidIn + Amount /\ Unsettled' = Unsettled + Amount /\ Repeated' = Repeated
    <3>1. /\ Cardinality(HasPaid') = Cardinality(HasPaid) + 1
          /\ Cardinality(Lying') = Cardinality(Lying) + 1
      BY <2>3, <2>4, DepositsFinite
    <3>2. /\ Cardinality(HasPaid) \in Nat /\ Cardinality(Lying) \in Nat
      BY DepositsFinite
    <3>3. \A i \in Nat : Amount * (i + 1) = Amount * i + Amount
      BY <2>1, Multiples
    <3> QED
      BY <1>2, <3>1, <3>2, <3>3 DEF PaidIn, Unsettled, Repeated
  <2>6. BooksInv'
    BY <1>2, <2>2, <2>5, MoneyNumbers DEF MoneyInv, BooksInv, EndTypes
  <2> QED
    BY <1>5, <2>6 DEF MoneyInv
<1> QED
  BY <1>6, <1>7

\* A settlement takes the deposit from what is held, and what the parties get
\* is a deposit that was not paid out, or a repeated payout.
LEMMA MoneySettled ==
    ASSUME EndTypes, MoneyInv, NEW c \in Contract, NEW s \in Reason,
           EndContract(c, s), Settled(c)
    PROVE  MoneyInv'
<1>1. UNCHANGED deposit
  BY DEF EndContract
<1>2. /\ books \in Books /\ Amount \in Nat \ {0} /\ paidOut \in [Contract -> Nat]
      /\ paidOut' \in [Contract -> Nat] /\ repeats \in Nat /\ books' \in Books
      /\ excess \in Nat /\ excess' \in Nat
  BY TerminationAssumption DEF EndTypes, TypeOK, TerminationAssumption, Settled
<1>3. HasPaid' = HasPaid /\ PaidIn' = PaidIn
  BY <1>1 DEF HasPaid, PaidIn
<1>4. CASE ~ HasDeposit(c)
  <2>1. escrow' = escrow /\ paidOut' = paidOut
    <3>1. \A d \in Contract : escrow'[d] = escrow[d] /\ paidOut'[d] = paidOut[d]
      BY <1>4 DEF Settled
    <3> QED
      BY <3>1 DEF Settled, EndTypes, TypeOK
  <2>2. PaidOutWasPaid'
    BY <1>1, <2>1 DEF MoneyInv, PaidOutWasPaid
  <2>3. Unsettled' = Unsettled /\ Repeated' = Repeated
    BY <1>3, <1>4, <2>1 DEF Lying, Unsettled, Repeated, Settled
  <2>4. /\ (charged => charged') /\ (fined => fined') /\ books'.held = books.held
        /\ ~ fined' => InHand(books') = InHand(books) /\ excess' = excess
    BY <1>4 DEF Settled
  <2>5. BooksInv'
    BY <1>3, <2>3, <2>4 DEF MoneyInv, BooksInv
  <2> QED
    BY <2>2, <2>5 DEF MoneyInv
<1>5. CASE HasDeposit(c)
  <2>1. deposit[c] = "paid"
    BY <1>5 DEF HasDeposit, MoneyInv, PaidOutWasPaid
  <2>2. /\ paidOut'[c] = paidOut[c] + 1 /\ escrow'[c] # "none"
        /\ \A d \in Contract \ {c} : escrow'[d] = escrow[d] /\ paidOut'[d] = paidOut[d]
        /\ repeats' = IF escrow[c] = "none" THEN repeats ELSE repeats + 1
        /\ books'.held = Released(books, Amount)
        /\ (charged => charged') /\ (fined => fined')
    BY <1>5 DEF Settled
  <2>3. PaidOutWasPaid'
    BY <1>1, <1>2, <2>1, <2>2 DEF MoneyInv, PaidOutWasPaid
  <2>4. ~ fined' => /\ InHand(books') + excess <= InHand(books) + Amount + excess'
                    /\ ~ charged' => InHand(books') + excess = InHand(books) + Amount + excess'
    BY <1>5 DEF Settled
  <2>5. InHand(books') \in Nat
    BY <1>2 DEF InHand, Books
  <2>6. \/ /\ Unsettled' = Unsettled - Amount /\ Amount <= Unsettled /\ Repeated' = Repeated
        \/ /\ Unsettled' = Unsettled /\ Repeated' = Repeated + Amount
    <3>1. Cardinality(Lying) \in Nat
      BY DepositsFinite
    <3>2. CASE escrow[c] = "none"
      <4>1. paidOut[c] = 0
        BY <1>2, <3>2 DEF MoneyInv, PaidOutWasPaid
      <4>2. c \in Lying
        BY <2>1, <4>1 DEF Lying, HasPaid
      <4>3. Lying' = Lying \ {c}
        <5>1. \A d \in Contract \ {c} : d \in Lying' <=> d \in Lying
          BY <1>3, <2>2 DEF Lying
        <5>2. c \notin Lying' /\ Lying' \subseteq Contract /\ Lying \subseteq Contract
          BY <1>2, <2>2 DEF Lying, HasPaid
        <5> QED
          BY <5>1, <5>2
      <4>4. Cardinality(Lying) > 0 /\ Cardinality(Lying') = Cardinality(Lying) - 1
        BY <4>2, <4>3, DepositsFinite
      <4>5. repeats' = repeats
        BY <2>2, <3>2
      <4> QED
        BY <1>2, <3>1, <4>4, <4>5, Multiples DEF Unsettled, Repeated
    <3>3. CASE escrow[c] # "none"
      <4>1. paidOut[c] > 0
        BY <3>3 DEF MoneyInv, PaidOutWasPaid
      <4>2. Lying' = Lying
        <5>1. \A d \in Contract : d \in Lying' <=> d \in Lying
          BY <1>2, <1>3, <2>2, <4>1 DEF Lying
        <5>2. Lying' \subseteq Contract /\ Lying \subseteq Contract
          BY DEF Lying, HasPaid
        <5> QED
          BY <5>1, <5>2
      <4>3. repeats' = repeats + 1
        BY <2>2, <3>3
      <4> QED
        BY <1>2, <4>2, <4>3, Multiples DEF Unsettled, Repeated
    <3> QED
      BY <3>2, <3>3
  <2>7. /\ books'.held \in Nat /\ books'.held <= books.held /\ books.held <= books'.held + Amount
        /\ books'.held = 0 \/ books'.held + Amount = books.held
    BY <1>2, <2>2 DEF Released, Least, Books
  <2>8. books'.held <= Unsettled' /\ Unsettled' <= books'.held + Repeated'
    BY <1>2, <2>6, <2>7, MoneyNumbers DEF MoneyInv, BooksInv, EndTypes
  <2>9. ~ fined' =>
           /\ InHand(books') + Unsettled' <= 2 + excess' + PaidIn' + Repeated'
           /\ ~ charged' => InHand(books') + Unsettled' = 2 + excess' + PaidIn' + Repeated'
    BY <1>2, <1>3, <2>2, <2>4, <2>5, <2>6, MoneyNumbers DEF MoneyInv, BooksInv, EndTypes
  <2> QED
    BY <2>3, <2>8, <2>9 DEF MoneyInv, BooksInv
<1> QED
  BY <1>4, <1>5

LEMMA MoneyStep == LifeInv /\ EndTypes /\ MoneyInv /\ [Next]_vars => MoneyInv'
<1> SUFFICES ASSUME LifeInv, EndTypes, MoneyInv, [Next]_vars PROVE MoneyInv'
  OBVIOUS
<1>1. CASE LifeStep
  BY <1>1, MoneyStays, LifeStepDoes DEF LifeInv, money
<1>2. CASE DepositArrives
  BY <1>2, MoneyArrives
<1>3. CASE CrashAll
  BY <1>3, MoneyStays DEF CrashAll, Crash, contractVars, money
<1>4. CASE \E c \in Contract : RentUnpaid(c)
  BY <1>4, MoneyStays DEF RentUnpaid, lifeVars, contractVars
<1>5. ASSUME NEW k \in Clerk, GiveUp(k) \/ Starts(k) PROVE MoneyInv'
  BY <1>5, StartsDo, MoneyStays DEF GiveUp, NothingWritten, ContractUntouched, lifeVars,
     contractVars, money
<1>6. ASSUME NEW k \in Clerk, Paperwork(k) PROVE MoneyInv'
  BY <1>6, PaperworkDoes, MoneyStays DEF lifeVars, contractVars, money
<1>7. ASSUME NEW k \in Clerk, Ends(k) PROVE MoneyInv'
  BY <1>7, EndsDo, MoneyStays, MoneySettled DEF ContractUntouched, lifeVars, contractVars,
     money
<1>8. CASE UNCHANGED vars
  BY <1>8, MoneyStays DEF vars, lifeVars, contractVars, endVars, money
<1> QED
  BY <1>1, <1>2, <1>3, <1>4, <1>5, <1>6, <1>7, <1>8, EndSteps

LEMMA MoneyStarts == Init => MoneyInv
<1> SUFFICES ASSUME Init PROVE MoneyInv
  OBVIOUS
<1>1. PaidOutWasPaid
  BY DEF Init, PaidOutWasPaid
<1>2. HasPaid = {} /\ Lying = {}
  BY DEF Init, LifeInit, HasPaid, Lying
<1>3. Cardinality(HasPaid) = 0 /\ Cardinality(Lying) = 0
  BY <1>2, FS_EmptySet
<1>4. /\ books.held = 0 /\ InHand(books) = 2 /\ Amount \in Nat
      /\ repeats = 0 /\ excess = 0
  BY TerminationAssumption DEF Init, InHand, TerminationAssumption
<1>5. PaidIn = 0 /\ Unsettled = 0 /\ Repeated = 0
  BY <1>3, <1>4 DEF PaidIn, Unsettled, Repeated
<1> QED
  BY <1>1, <1>4, <1>5 DEF MoneyInv, BooksInv

LEMMA MoneyPromises == EndTypes /\ MoneyInv => BooksBalance
<1> SUFFICES ASSUME EndTypes, MoneyInv PROVE BooksBalance
  OBVIOUS
<1>1. Total(books) = InHand(books) + books.held
  BY DEF EndTypes, TypeOK, Total, InHand, Books
<1>2. PaidDeposits = PaidIn
  BY DEF PaidDeposits, PaidIn, HasPaid
<1> QED
  BY <1>1, <1>2, MoneyNumbers DEF MoneyInv, BooksInv, BooksBalance, EndTypes, Repeated

\* Whoever ends a contract, for whatever reason and whatever he returns, the
\* settlements leave in the wallets what was there: without fines they make no
\* more than one deposit for each repeated payout and what was returned above
\* the deposits, and without fees they lose nothing.
THEOREM SettlementsBalance == Spec => []BooksBalance
BY EndInvariant, MoneyStarts, MoneyStep, MoneyPromises, PTL DEF Spec

-----------------------------------------------------------------------------
(* Requests and disputes, handled one after another.                       *)

\* One handler of terminations at a time, beside all others: the claims about
\* requests are made of this, several at a time break them.
OneClerk == \A j, k \in Clerk : j = k

\* Requests are numbered as they are created, and an open request is the
\* latest of its contract, unless a report reopened it.
InOrder ==
    \A t, u \in Request : t < u /\ request[u].status # "none" => request[t].status # "none"
Pending(t) == request[t].status \in OpenStatus /\ ~ request[t].reopened
LatestOpen ==
    \A t, u \in Request :
        /\ Pending(t) /\ request[u].status # "none"
        /\ request[u].contract = request[t].contract
        => u <= t

\* What a handler checked is so when it writes.
NothingOpen(c) == \A t \in RequestsOf(c) : request[t].status \notin OpenStatus
UpToDate(j) ==
    /\ j.pc \in WithRequest => request[j.on].status \in OpenStatus
    /\ j.pc \in Moving /\ j.next = "admin_processing" => request[j.on].status \in AtAdmin
    /\ j.pc = "autoTerminate" => NothingOpen(j.contract)
ClerksUpToDate == \A k \in Clerk : UpToDate(clerk[k])

ClerkInv == InOrder /\ LatestOpen /\ ClerksUpToDate /\ DisputeHasReport

LEMMA ClerksStayUpToDate ==
    ASSUME OneClerk, EndTypes, ClerksUpToDate, [Next]_vars
    PROVE  ClerksUpToDate'
<1>1. clerk \in [Clerk -> ClerkJob]
  BY DEF EndTypes
<1>2. ASSUME UNCHANGED <<request, clerk>> PROVE ClerksUpToDate'
  BY <1>2 DEF ClerksUpToDate, UpToDate, NothingOpen, RequestsOf
<1>3. ASSUME \A k \in Clerk : clerk'[k] = ClerkIdle PROVE ClerksUpToDate'
  BY <1>3 DEF ClerksUpToDate, UpToDate, ClerkIdle, WithRequest, Moving
<1>4. ASSUME NEW k \in Clerk, Release(k) PROVE ClerksUpToDate'
  BY <1>1, <1>3, <1>4 DEF OneClerk, Release
<1>5. ASSUME NEW k \in Clerk, Starts(k) PROVE ClerksUpToDate'
  <2>1. UNCHANGED request
    BY <1>5, StartsDo DEF NothingWritten
  <2>2. \A p, c, t, n, e : Take(k, p, c, t, n, e) =>
           /\ clerk'[k].pc = p /\ clerk'[k].contract = c
           /\ clerk'[k].on = t /\ clerk'[k].next = n
    BY <1>1 DEF Take
  <2>3. UpToDate(clerk'[k])
    <3>1. CASE \E c \in Contract : CreateRequestStart(k, c)
      BY <2>2, <3>1 DEF CreateRequestStart, UpToDate, WithRequest, Moving
    <3>2. CASE \E c \in Contract : \E s \in CronReasons : AutoTerminateStart(k, c, s)
      BY <2>2, <3>2 DEF AutoTerminateStart, UpToDate, WithRequest, Moving, NothingOpen
    <3>3. ASSUME NEW c \in Contract, NEW t \in {0} \cup Request, NEW b \in BOOLEAN,
                 CreateReportStart(k, c, t, b)
          PROVE  UpToDate(clerk'[k])
      <4>1. clerk'[k].pc = "report"
        BY <1>1, <3>3 DEF CreateReportStart, Take
      <4> QED
        BY <4>1 DEF UpToDate, WithRequest, Moving
    <3>4. ASSUME NEW t \in Request, NEW p \in WithRequest,
                 NEW n \in RequestStatus, NEW e \in BOOLEAN,
                 Take(k, p, request[t].contract, t, n, e), request[t].status \in OpenStatus,
                 n = "admin_processing" => request[t].status \in AtAdmin
          PROVE  UpToDate(clerk'[k])
      <4>1. clerk'[k].pc = p /\ clerk'[k].on = t /\ clerk'[k].next = n
        BY <1>1, <3>4 DEF Take
      <4>2. p # "autoTerminate"
        BY DEF WithRequest
      <4> QED
        BY <3>4, <4>1, <4>2 DEF UpToDate
    <3>5. ASSUME NEW t \in Request, ReviewStart(k, t) PROVE UpToDate(clerk'[k])
      BY <3>4, <3>5 DEF ReviewStart, WithRequest, OpenStatus, RequestStatus
    <3>6. ASSUME NEW t \in Request, NEW n \in OpenStatus \cup {"resolved"}, NEW b \in BOOLEAN,
                 UpdateStart(k, t, n, b)
          PROVE  UpToDate(clerk'[k])
      <4>1. /\ request[t].status \in OpenStatus
            /\ n = "admin_processing" => request[t].status \in AtAdmin
        BY <3>6 DEF UpdateStart, PartyMoves, AdminMoves, OpenStatus, AtAdmin
      <4> QED
        BY <3>4, <3>6, <4>1 DEF UpdateStart, WithRequest, OpenStatus, RequestStatus
    <3>7. ASSUME NEW t \in Request, NEW b \in BOOLEAN, AdminResolveStart(k, t, b)
          PROVE  UpToDate(clerk'[k])
      BY <3>4, <3>7 DEF AdminResolveStart, WithRequest, OpenStatus, AtAdmin, RequestStatus
    <3>8. ASSUME NEW p \in Report, ResolveReportStart(k, p) PROVE UpToDate(clerk'[k])
      BY <2>2, <3>8 DEF ResolveReportStart, UpToDate, WithRequest, Moving
    <3> QED
      BY <1>5, <3>1, <3>2, <3>3, <3>5, <3>6, <3>7, <3>8 DEF Starts
  <2> QED
    BY <2>1, <2>3 DEF OneClerk, ClerksUpToDate, UpToDate, NothingOpen, RequestsOf
<1>6. CASE LifeStep \/ UNCHANGED vars
  BY <1>2, <1>6 DEF LifeStep, vars, endVars
<1>7. CASE DepositArrives \/ \E c \in Contract : RentUnpaid(c)
  BY <1>2, <1>7 DEF DepositArrives, RentUnpaid
<1>8. CASE CrashAll
  BY <1>3, <1>8 DEF CrashAll
<1>9. ASSUME NEW k \in Clerk, GiveUp(k) PROVE ClerksUpToDate'
  BY <1>4, <1>9 DEF GiveUp
<1>10. ASSUME NEW k \in Clerk, Paperwork(k) \/ Ends(k) PROVE ClerksUpToDate'
  BY <1>4, <1>10, PaperworkDoes, EndsDo
<1> QED
  BY <1>5, <1>6, <1>7, <1>8, <1>9, <1>10, EndSteps

\* The next request is made when no request of the contract is pending; a
\* request moves on, and becomes pending by no move.
Ending == {"requestTermination", "autoTerminate"}
NewRequest(k, t) ==
    /\ NextRequest(t)
    /\ \E r \in RequestRow :
        /\ request' = [request EXCEPT ![t] = r]
        /\ r.status \in {"pending", "approved"} /\ r.contract \in Contract /\ ~ r.reopened
        /\ \A u \in RequestsOf(r.contract) : ~ Pending(u)
        /\ clerk[k].pc \in Ending /\ clerk[k].contract = r.contract
        /\ clerk[k].pc = "autoTerminate" => r.status = "approved"
Moved(k, t, s) ==
    /\ \A u \in Request \ {t} : request'[u] = request[u]
    /\ request[t].status # "none" /\ request'[t].contract = request[t].contract
    /\ request'[t].status = s
    /\ Pending(t)' => Pending(t)
    /\ clerk[k].pc = "report" \/ request'[t].reopened = request[t].reopened
    /\ clerk[k].pc = "report" \/ (s \in OpenStatus => request[t].status \in OpenStatus)

LEMMA RequestsMove ==
    ASSUME EndTypes, InOrder, LatestOpen, ClerksUpToDate,
           NEW k \in Clerk, Paperwork(k) \/ Ends(k)
    PROVE  \/ UNCHANGED request /\ clerk[k].pc \notin Ending
           \/ \E t \in Request : NewRequest(k, t)
           \/ \E t \in Request, s \in RequestStatus \ {"none"} :
                 Moved(k, t, s) /\ clerk[k].pc \notin Ending
<1>1. request \in [Request -> RequestRow] /\ report \in [Report -> ReportRow]
      /\ RequestsKnown /\ Instructed(clerk[k]) /\ UpToDate(clerk[k])
  BY DEF EndTypes, TypeOK, RequestRow, ReportRow, ClerksUpToDate
<1>2. ASSUME NEW t \in Request, NEW s \in RequestStatus \ {"none"}, request[t].status # "none",
             request' = [request EXCEPT ![t].status = s],
             s \in OpenStatus => request[t].status \in OpenStatus
      PROVE  Moved(k, t, s)
  BY <1>1, <1>2 DEF Moved, Pending, RequestRow
<1>3. ASSUME NEW t \in Request, NEW s \in Reasons, NEW by \in Party, NEW f \in Fees,
             CreateTerminationRequest(k, t, s, by, f)
      PROVE  NewRequest(k, t)
  <2> DEFINE c == clerk[k].contract
             r == [contract |-> c, status |-> "pending", reason |-> s,
                   by |-> by, fee |-> f, reopened |-> FALSE]
  <2>1. c \in Contract
    BY <1>1, <1>3 DEF CreateTerminationRequest, Doing, Instructed, WithContract
  <2>2. r \in RequestRow /\ r.status = "pending" /\ r.contract = c
    BY <2>1, TerminationAssumption DEF RequestRow, RequestStatus, TerminationAssumption
  <2>3. NextRequest(t) /\ request' = [request EXCEPT ![t] = r] /\ LatestIsOver(c)
    BY <1>3 DEF CreateTerminationRequest
  <2>30. clerk[k].pc = "requestTermination" /\ clerk[k].contract = c /\ ~ r.reopened
    BY <1>3 DEF CreateTerminationRequest, Doing
  <2> HIDE DEF r, c
  <2>4. \A u \in RequestsOf(c) : ~ Pending(u)
    BY <1>1, <2>1, <2>3, ContractAssumption DEF LatestIsOver, LatestOpen, RequestsOf, Pending,
       RequestsKnown, ContractAssumption
  <2> QED
    BY <2>1, <2>2, <2>3, <2>30, <2>4 DEF NewRequest, Ending
<1>4. ASSUME NEW t \in Request, AutoTerminateContract(k, t) PROVE NewRequest(k, t)
  <2> DEFINE c == clerk[k].contract
             r == [contract |-> c, status |-> "approved", reason |-> clerk[k].next,
                   by |-> "OWNER", fee |-> 0, reopened |-> FALSE]
  <2>1. c \in Contract /\ clerk[k].next \in Reason
    BY <1>1, <1>4 DEF AutoTerminateContract, Doing, Instructed, WithContract, CronReasons, Reason
  <2>2. r \in RequestRow /\ r.status = "approved" /\ r.contract = c
    BY <2>1 DEF RequestRow, RequestStatus, Party
  <2>3. NextRequest(t) /\ request' = [request EXCEPT ![t] = r] /\ NothingOpen(c)
    BY <1>1, <1>4 DEF AutoTerminateContract, Doing, UpToDate
  <2>30. clerk[k].pc = "autoTerminate" /\ clerk[k].contract = c /\ ~ r.reopened
    BY <1>4 DEF AutoTerminateContract, Doing
  <2> HIDE DEF r, c
  <2> QED
    BY <2>1, <2>2, <2>3, <2>30 DEF NewRequest, NothingOpen, Pending, Ending
<1>5. CASE \/ ReviewReject(k) \/ ReviewApprove(k) \/ Negotiate(k) \/ ResolveRequest(k)
           \/ \E p \in Report : Escalate(k, p)
           \/ \E b \in BOOLEAN : \E back, f, g : AdminResolve(k, b, back, f, g)
  <2> DEFINE t == clerk[k].on
  <2>1. /\ clerk[k].pc \in WithRequest
        /\ \E s \in RequestStatus \ {"none"} : request' = [request EXCEPT ![t].status = s]
    BY <1>5 DEF ReviewReject, ReviewApprove, Negotiate, ResolveRequest, Escalate, AdminResolve,
       Doing, WithRequest, RequestStatus
  <2>2. t \in Request /\ request[t].status # "none" /\ request[t].status \in OpenStatus
    BY <1>1, <2>1 DEF Instructed, UpToDate
  <2> HIDE DEF t
  <2>3. clerk[k].pc \notin Ending
    BY <2>1 DEF WithRequest, Ending
  <2> QED
    BY <1>2, <2>1, <2>2, <2>3
<1>6. ASSUME NEW p \in Report, CreateReport(k, p)
      PROVE  UNCHANGED request \/ \E t \in Request : Moved(k, t, "admin_review")
  <2> DEFINE t == clerk[k].on
  <2>1. t \in {0} \cup Request /\ (t # 0 => request[t].status # "none")
    BY <1>1, <1>6 DEF CreateReport, Doing, Instructed
  <2>2. request' = IF t = 0 THEN request
                   ELSE [request EXCEPT ![t].status = "admin_review", ![t].reopened = TRUE]
    BY <1>6 DEF CreateReport
  <2> HIDE DEF t
  <2>3. CASE t # 0
    <3>1. t \in Request
      BY <2>1, <2>3
    <3>2. /\ \A u \in Request \ {t} : request'[u] = request[u]
          /\ request'[t].contract = request[t].contract
          /\ request'[t].status = "admin_review" /\ request'[t].reopened = TRUE
      BY <1>1, <2>2, <2>3, <3>1 DEF RequestRow
    <3> QED
      BY <1>6, <2>1, <2>3, <3>1, <3>2 DEF Moved, Pending, CreateReport, Doing
  <2> QED
    BY <2>2, <2>3
<1>7. CASE ResolveReport(k)
  <2> DEFINE p == clerk[k].on
             t == report[p].on
  <2>1. p \in Report
    BY <1>1, <1>7 DEF ResolveReport, Doing, Instructed
  <2>2. t \in {0} \cup Request /\ (t # 0 => request[t].status # "none")
    BY <1>1, <2>1 DEF ReportRow, RequestsKnown
  <2>3. request' = IF t = 0 THEN request ELSE [request EXCEPT ![t].status = "resolved"]
    BY <1>7 DEF ResolveReport
  <2> HIDE DEF p, t
  <2> QED
    BY <1>2, <1>7, <2>2, <2>3 DEF RequestStatus, OpenStatus, ResolveReport, Doing, Ending
<1>8. \A s \in {"admin_review"} : s \in RequestStatus \ {"none"}
  BY DEF RequestStatus
<1> QED
  <2>1. (\E p \in Report : CreateReport(k, p)) => clerk[k].pc \notin Ending
    BY DEF CreateReport, Doing, Ending
  <2> QED
    BY <1>3, <1>4, <1>5, <1>6, <1>7, <1>8, <2>1 DEF Paperwork, Ends

LEMMA RequestsStay ==
    ASSUME EndTypes, InOrder, LatestOpen,
           \/ UNCHANGED request
           \/ \E k \in Clerk, t \in Request : NewRequest(k, t)
           \/ \E k \in Clerk, t \in Request, s \in RequestStatus \ {"none"} : Moved(k, t, s)
    PROVE  InOrder' /\ LatestOpen'
<1>1. CASE UNCHANGED request
  BY <1>1 DEF InOrder, LatestOpen, Pending
<1>2. ASSUME NEW k \in Clerk, NEW t \in Request, NEW s \in RequestStatus \ {"none"}, Moved(k, t, s)
      PROVE  InOrder' /\ LatestOpen'
  <2>1. \A u \in Request :
           /\ request'[u].status # "none" <=> request[u].status # "none"
           /\ request'[u].contract = request[u].contract
           /\ Pending(u)' => Pending(u)
    BY <1>2 DEF Moved, Pending
  <2> QED
    BY <2>1 DEF InOrder, LatestOpen
<1>3. ASSUME NEW k \in Clerk, NEW t \in Request, NewRequest(k, t) PROVE InOrder' /\ LatestOpen'
  <2>1. PICK r \in RequestRow :
           /\ request' = [request EXCEPT ![t] = r]
           /\ r.status \in {"pending", "approved"} /\ r.contract \in Contract
           /\ \A u \in RequestsOf(r.contract) : ~ Pending(u)
    BY <1>3 DEF NewRequest
  <2>2. /\ request'[t] = r
        /\ \A u \in Request \ {t} : request'[u] = request[u]
    BY <2>1 DEF EndTypes, TypeOK
  <2>3. /\ request[t].status = "none"
        /\ \A u \in Request : u < t => request[u].status # "none"
        /\ \A u \in Request : t < u => request[u].status = "none"
    BY <1>3 DEF NewRequest, NextRequest, InOrder
  <2>4. InOrder'
    BY <2>1, <2>2, <2>3 DEF InOrder
  <2>5. ASSUME NEW u \in Request, NEW v \in Request, Pending(u)', request'[v].status # "none",
               request'[v].contract = request'[u].contract
        PROVE  v <= u
    <3>1. u \in Nat /\ v \in Nat /\ t \in Nat
      BY RequestNumbers
    <3>2. CASE u = t
      BY <2>2, <2>3, <2>5, <3>1, <3>2
    <3>3. CASE u # t /\ v = t
      <4>1. u \in RequestsOf(r.contract) /\ Pending(u)
        BY <2>2, <2>5, <3>3 DEF RequestsOf, Pending
      <4> QED
        BY <2>1, <4>1
    <3>4. CASE u # t /\ v # t
      <4>1. Pending(u) /\ request[v].status # "none" /\ request[v].contract = request[u].contract
        BY <2>2, <2>5, <3>4 DEF Pending
      <4> QED
        BY <4>1 DEF LatestOpen
    <3> QED
      BY <3>2, <3>3, <3>4
  <2> QED
    BY <2>4, <2>5 DEF LatestOpen
<1> QED
  BY <1>1, <1>2, <1>3

\* Reports and the requests they are about, but for one request.
LEMMA DisputesStay ==
    ASSUME DisputeHasReport, NEW t,
           \A u \in Request \ {t} : request'[u].status \in AtAdmin => request[u].status \in AtAdmin,
           \A q \in Report : report[q].on \in Request \ {t} /\ report[q].status = "admin" =>
                report'[q].on = report[q].on /\ report'[q].status = "admin",
           t \in Request /\ request'[t].status \in AtAdmin =>
                \E p \in Report : report'[p].on = t /\ report'[p].status = "admin"
    PROVE  DisputeHasReport'
<1>1. ASSUME NEW u \in Request, request'[u].status \in AtAdmin
      PROVE  \E p \in Report : report'[p].on = u /\ report'[p].status = "admin"
  <2>1. CASE u = t
    BY <1>1, <2>1
  <2>2. CASE u # t
    <3>1. PICK p \in Report : report[p].on = u /\ report[p].status = "admin"
      BY <1>1, <2>2 DEF DisputeHasReport, Linked
    <3> QED
      BY <2>2, <3>1
  <2> QED
    BY <2>1, <2>2
<1> QED
  BY <1>1 DEF DisputeHasReport, Linked

LEMMA DisputesStep ==
    ASSUME EndTypes, ClerksUpToDate, DisputeHasReport, NEW k \in Clerk, Paperwork(k) \/ Ends(k)
    PROVE  DisputeHasReport'
<1>1. request \in [Request -> RequestRow] /\ report \in [Report -> ReportRow]
      /\ RequestsKnown /\ Instructed(clerk[k]) /\ UpToDate(clerk[k])
  BY DEF EndTypes, TypeOK, RequestRow, ReportRow, ClerksUpToDate
<1> DEFINE o == clerk[k].on
<1>2. ASSUME NEW t \in Request, NEW s \in RequestStatus, request' = [request EXCEPT ![t].status = s]
      PROVE  /\ request'[t].status = s
             /\ \A u \in Request \ {t} : request'[u] = request[u]
  BY <1>1, <1>2 DEF RequestRow
<1>4. ASSUME \E t \in Request : \/ AutoTerminateContract(k, t)
                                \/ \E s \in Reasons, by \in Party, f \in Fees :
                                        CreateTerminationRequest(k, t, s, by, f)
      PROVE  DisputeHasReport'
  <2>1. PICK t \in Request : \/ AutoTerminateContract(k, t)
                             \/ \E s \in Reasons, by \in Party, f \in Fees :
                                        CreateTerminationRequest(k, t, s, by, f)
    BY <1>4
  <2>2. /\ UNCHANGED report
        /\ \A u \in Request : \/ request'[u] = request[u]
                              \/ request'[u].status \in {"pending", "approved"}
    BY <1>1, <2>1 DEF AutoTerminateContract, CreateTerminationRequest
  <2>3. \A u \in Request : request'[u].status \in AtAdmin => request[u].status \in AtAdmin
    BY <2>2 DEF AtAdmin
  <2> QED
    BY <2>2, <2>3 DEF DisputeHasReport, Linked
<1>5. CASE ReviewReject(k) \/ ReviewApprove(k) \/ Negotiate(k)
  <2>1. o \in Request
    BY <1>1, <1>5 DEF ReviewReject, ReviewApprove, Negotiate, Doing, Instructed, WithRequest
  <2>2. \E s \in RequestStatus :
           /\ request' = [request EXCEPT ![o].status = s]
           /\ s \in AtAdmin => request[o].status \in AtAdmin
    BY <1>1, <1>5 DEF ReviewReject, ReviewApprove, Negotiate, Doing, UpToDate, AtAdmin, Moving,
       RequestStatus
  <2>3. UNCHANGED report
    BY <1>5 DEF ReviewReject, ReviewApprove, Negotiate
  <2> HIDE DEF o
  <2>4. \A u \in Request : request'[u].status \in AtAdmin => request[u].status \in AtAdmin
    BY <1>2, <2>1, <2>2
  <2> QED
    BY <2>3, <2>4 DEF DisputeHasReport, Linked
<1>6. ASSUME NEW p \in Report, Escalate(k, p) PROVE DisputeHasReport'
  <2>1. o \in Request
    BY <1>1, <1>6 DEF Escalate, Doing, Instructed, WithRequest
  <2>2. request' = [request EXCEPT ![o].status = "admin_review"] /\ SentToAdmin(o, p)
    BY <1>6 DEF Escalate
  <2> HIDE DEF o
  <2>3. \A u \in Request \ {o} : request'[u] = request[u]
    BY <1>1, <2>1, <2>2
  <2>4. /\ \A q \in Report \ {p} : report'[q] = report[q]
        /\ report'[p].on = o /\ report'[p].status = "admin"
        /\ report[p].status = "none" \/ report[p].on = o
    BY <1>1, <2>2 DEF SentToAdmin, NextReport, Linked, ReportRow
  <2> QED
    BY <2>3, <2>4, DisputesStay
<1>7. CASE ResolveRequest(k) \/ \E b \in BOOLEAN : \E back, f, g : AdminResolve(k, b, back, f, g)
  <2>1. o \in Request
    BY <1>1, <1>7 DEF ResolveRequest, AdminResolve, Doing, Instructed, WithRequest
  <2>2. request' = [request EXCEPT ![o].status = "resolved"]
    BY <1>7 DEF ResolveRequest, AdminResolve
  <2>3. \/ UNCHANGED report
        \/ \E p \in Linked(o) : report' = [report EXCEPT ![p].status = "resolved"]
        \/ report' = [p \in Report |-> IF p \in Linked(o)
                        THEN [report[p] EXCEPT !.status = "resolved"] ELSE report[p]]
    BY <1>7 DEF ResolveRequest, AdminResolve
  <2> HIDE DEF o
  <2>4. \A q \in Report : report[q].on # o => report'[q] = report[q]
    BY <1>1, <2>3 DEF Linked
  <2>5. request'[o].status = "resolved" /\ \A u \in Request \ {o} : request'[u] = request[u]
    BY <1>2, <2>1, <2>2 DEF RequestStatus
  <2> QED
    BY <2>4, <2>5, DisputesStay DEF AtAdmin
<1>8. ASSUME NEW p \in Report, CreateReport(k, p) PROVE DisputeHasReport'
  <2>1. o \in {0} \cup Request
    BY <1>1, <1>8 DEF CreateReport, Doing, Instructed
  <2>2. /\ request' = IF o = 0 THEN request
                      ELSE [request EXCEPT ![o].status = "admin_review", ![o].reopened = TRUE]
        /\ report' = [report EXCEPT
                ![p] = [contract |-> clerk[k].contract, on |-> o, status |-> "admin"]]
        /\ report[p].status = "none"
    BY <1>8 DEF CreateReport, NextReport
  <2> HIDE DEF o
  <2>3. \A u \in Request \ {o} : request'[u] = request[u]
    BY <1>1, <2>1, <2>2
  <2>4. /\ \A q \in Report \ {p} : report'[q] = report[q]
        /\ report'[p] = [contract |-> clerk[k].contract, on |-> o, status |-> "admin"]
    BY <1>1, <2>2
  <2>5. \A q \in Report : report[q].on \in Request \ {o} /\ report[q].status = "admin" =>
           report'[q].on = report[q].on /\ report'[q].status = "admin"
    BY <2>2, <2>4
  <2> QED
    BY <2>3, <2>4, <2>5, DisputesStay
<1>9. CASE ResolveReport(k)
  <2> DEFINE t == report[o].on
  <2>1. o \in Report
    BY <1>1, <1>9 DEF ResolveReport, Doing, Instructed
  <2>2. /\ request' = IF t = 0 THEN request ELSE [request EXCEPT ![t].status = "resolved"]
        /\ report' = [report EXCEPT ![o].status = "resolved"]
    BY <1>9 DEF ResolveReport
  <2>3. t \in {0} \cup Request /\ 0 \notin Request
    BY <1>1, <2>1, RequestNumbers DEF ReportRow
  <2>4. \A q \in Report : report[q].on # t => report'[q] = report[q]
    BY <1>1, <2>1, <2>2
  <2> HIDE DEF o, t
  <2>5. /\ \A u \in Request \ {t} : request'[u] = request[u]
        /\ t \in Request => request'[t].status = "resolved"
    BY <1>2, <2>2, <2>3 DEF RequestStatus
  <2> QED
    BY <2>4, <2>5, DisputesStay DEF AtAdmin
<1> QED
  BY <1>4, <1>5, <1>6, <1>7, <1>8, <1>9 DEF Paperwork, Ends

LEMMA ClerkStep == OneClerk /\ EndTypes /\ ClerkInv /\ [Next]_vars => ClerkInv'
<1> SUFFICES ASSUME OneClerk, EndTypes, ClerkInv, [Next]_vars PROVE ClerkInv'
  OBVIOUS
<1>1. ClerksUpToDate'
  BY ClerksStayUpToDate DEF ClerkInv
<1>2. ASSUME UNCHANGED <<request, report>> PROVE ClerkInv'
  BY <1>1, <1>2, RequestsStay DEF ClerkInv, DisputeHasReport, Linked
<1>3. CASE LifeStep \/ DepositArrives \/ CrashAll \/ UNCHANGED vars
           \/ \E c \in Contract : RentUnpaid(c)
  BY <1>2, <1>3 DEF LifeStep, DepositArrives, CrashAll, RentUnpaid, vars, endVars
<1>4. ASSUME NEW k \in Clerk, GiveUp(k) \/ Starts(k) PROVE ClerkInv'
  BY <1>2, <1>4, StartsDo DEF GiveUp, NothingWritten
<1>5. ASSUME NEW k \in Clerk, Paperwork(k) \/ Ends(k) PROVE ClerkInv'
  BY <1>1, <1>5, RequestsMove, RequestsStay, DisputesStep DEF ClerkInv
<1> QED
  BY <1>3, <1>4, <1>5, EndSteps

LEMMA ClerkStarts == Init => ClerkInv
<1> SUFFICES ASSUME Init PROVE ClerkInv
  OBVIOUS
<1>1. \A t \in Request : request[t].status = "none"
  BY DEF Init, NoRequest
<1>2. InOrder /\ LatestOpen /\ DisputeHasReport
  BY <1>1 DEF InOrder, LatestOpen, Pending, OpenStatus, DisputeHasReport, AtAdmin
<1>3. ClerksUpToDate
  BY DEF Init, ClerksUpToDate, UpToDate, ClerkIdle, WithRequest, Moving
<1> QED
  BY <1>2, <1>3 DEF ClerkInv

LEMMA ClerkInvPromises == ClerkInv /\ EndTypes => OneOpenRequest /\ DisputeHasReport
<1> SUFFICES ASSUME ClerkInv, EndTypes PROVE OneOpenRequest
  BY DEF ClerkInv
<1>1. \A t \in Request : request[t].status \in OpenStatus => request[t].status # "none"
  BY DEF OpenStatus
<1>2. \A t, u \in Request : t \in Nat /\ u \in Nat /\ (t <= u /\ u <= t => t = u)
  BY RequestNumbers
<1> QED
  BY <1>1, <1>2 DEF ClerkInv, LatestOpen, Pending, OneOpenRequest

\* With one handler of terminations at a time, and whatever else goes on, a
\* contract has one request to end it that no report reopened.
THEOREM OneRequestOpen == OneClerk => (Spec => []OneOpenRequest)
<1> SUFFICES ASSUME OneClerk PROVE Spec => []OneOpenRequest
  OBVIOUS
<1>1. EndTypes /\ ClerkInv /\ [Next]_vars => ClerkInv'
  BY ClerkStep
<1> QED
  BY <1>1, EndInvariant, ClerkStarts, ClerkInvPromises, PTL DEF Spec

\* In the same way no dispute is left at the administrator without a report.
THEOREM DisputesAreReported == OneClerk => (Spec => []DisputeHasReport)
<1> SUFFICES ASSUME OneClerk PROVE Spec => []DisputeHasReport
  OBVIOUS
<1>1. EndTypes /\ ClerkInv /\ [Next]_vars => ClerkInv'
  BY ClerkStep
<1> QED
  BY <1>1, EndInvariant, ClerkStarts, ClerkInvPromises, PTL DEF Spec
-----------------------------------------------------------------------------
(* Payouts and their causes, with terminations handled one after another.  *)

\* A payout may be due to a contract that is in force, whose termination is
\* asked for or decided; and one to each request that a report sent back.
Standing(c) ==
    \/ status[c] = "active"
    \/ \E t \in RequestsOf(c) : Pending(t)
    \/ \E k \in Clerk : clerk[k].pc \in Ending /\ clerk[k].contract = c
Reopened(c) == {t \in RequestsOf(c) : request[t].status \in OpenStatus /\ request[t].reopened}
Caused(c) == paidOut[c] + (IF Standing(c) THEN 1 ELSE 0) + Cardinality(Reopened(c)) <= causes[c]
CausedInv == \A c \in Contract : Caused(c)

\* Steps that pay nothing out, and make no payout due without a cause.
Kept(c) ==
    /\ paidOut'[c] = paidOut[c] /\ causes'[c] >= causes[c]
    /\ Standing(c)' => Standing(c) \/ causes'[c] > causes[c]
    /\ Reopened(c)' \subseteq Reopened(c)

LEMMA Counted ==
    ASSUME NEW S, S \subseteq Request, NEW T, T \subseteq S
    PROVE  /\ Cardinality(S) \in Nat /\ Cardinality(T) \in Nat
           /\ Cardinality(T) <= Cardinality(S)
           /\ \A t : t \in S /\ t \notin T => Cardinality(T) + 1 <= Cardinality(S)
           /\ \A t : T = S \ {t} => Cardinality(S) <= Cardinality(T) + 1
<1>1. IsFiniteSet(Request)
  BY TerminationAssumption, FS_Interval DEF Request, TerminationAssumption
<1>2. IsFiniteSet(S)
  BY <1>1, FS_Subset
<1>3. /\ Cardinality(S) \in Nat /\ Cardinality(T) \in Nat
      /\ Cardinality(T) <= Cardinality(S)
  BY <1>2, FS_Subset, FS_CardinalityType
<1>4. ASSUME NEW t \in S PROVE Cardinality(S \ {t}) = Cardinality(S) - 1
  BY <1>2, FS_RemoveElement
<1>5. ASSUME NEW t, t \in S, t \notin T PROVE Cardinality(T) + 1 <= Cardinality(S)
  <2>1. T \subseteq S \ {t} /\ IsFiniteSet(S \ {t})
    BY <1>2, <1>5, FS_Subset
  <2>2. Cardinality(T) <= Cardinality(S \ {t})
    BY <2>1, FS_Subset
  <2> QED
    BY <1>3, <1>4, <1>5, <2>2
<1>6. ASSUME NEW t, T = S \ {t} PROVE Cardinality(S) <= Cardinality(T) + 1
  <2>1. CASE t \in S
    BY <1>3, <1>4, <1>6, <2>1
  <2>2. CASE t \notin S
    <3>1. T = S
      BY <1>6, <2>2
    <3> QED
      BY <1>3, <3>1
  <2> QED
    BY <2>1, <2>2
<1> QED
  BY <1>3, <1>5, <1>6

LEMMA ReopenedRequests == \A c : Reopened(c) \subseteq Request /\ Reopened(c)' \subseteq Request
BY DEF Reopened, RequestsOf

LEMMA CauseKept ==
    ASSUME NEW c \in Contract, Caused(c), Kept(c), paidOut[c] \in Nat, causes[c] \in Nat,
           causes'[c] \in Nat
    PROVE  Caused(c)'
<1> DEFINE m == Cardinality(Reopened(c))
           n == Cardinality(Reopened(c)')
           due == IF Standing(c) THEN 1 ELSE 0
           next == IF Standing(c)' THEN 1 ELSE 0
<1>1. m \in Nat /\ n \in Nat /\ n <= m
  BY Counted, ReopenedRequests DEF Kept
<1>2. paidOut[c] + due + m <= causes[c]
  BY DEF Caused
<1>3. /\ paidOut'[c] = paidOut[c] /\ causes'[c] >= causes[c]
      /\ next = 0 \/ due = 1 \/ causes'[c] > causes[c]
      /\ next \in {0, 1} /\ due \in {0, 1}
  BY DEF Kept
<1>4. Caused(c)' <=> paidOut'[c] + next + n <= causes'[c]
  BY DEF Caused
<1> HIDE DEF m, n, due, next
<1> QED
  BY <1>1, <1>2, <1>3, <1>4

\* Handlers other than that of a report send no request back, and a request
\* becomes pending only by a handler that was started for it.
LEMMA DisputesFollow ==
    ASSUME EndTypes, InOrder, LatestOpen, ClerksUpToDate, NEW k \in Clerk,
           Paperwork(k) \/ Ends(k), clerk[k].pc # "report", NEW d \in Contract
    PROVE  /\ (\E t \in RequestsOf(d) : Pending(t))' => Standing(d)
           /\ Reopened(d)' \subseteq Reopened(d)
<1>1. CASE UNCHANGED request
  BY <1>1 DEF Standing, Reopened, RequestsOf, Pending
<1>2. ASSUME NEW t \in Request, NewRequest(k, t)
      PROVE  /\ (\E u \in RequestsOf(d) : Pending(u))' => Standing(d)
             /\ Reopened(d)' \subseteq Reopened(d)
  <2>1. PICK r \in RequestRow :
           /\ request' = [request EXCEPT ![t] = r] /\ ~ r.reopened
           /\ clerk[k].pc \in Ending /\ clerk[k].contract = r.contract
    BY <1>2 DEF NewRequest
  <2>2. request'[t] = r /\ \A u \in Request \ {t} : request'[u] = request[u]
    BY <2>1 DEF EndTypes, TypeOK
  <2>3. r.contract = d => Standing(d)
    BY <2>1 DEF Standing
  <2>4. \A u \in Request \ {t} : u \in RequestsOf(d)' /\ Pending(u)' => Standing(d)
    BY <2>2 DEF Standing, RequestsOf, Pending
  <2>5. t \in RequestsOf(d)' => r.contract = d
    BY <2>2 DEF RequestsOf
  <2>6. RequestsOf(d)' \subseteq Request
    BY DEF RequestsOf
  <2>7. Reopened(d)' \subseteq Reopened(d)
    BY <2>1, <2>2 DEF Reopened, RequestsOf
  <2> QED
    BY <2>3, <2>4, <2>5, <2>6, <2>7
<1>3. ASSUME NEW t \in Request, NEW s \in RequestStatus \ {"none"}, Moved(k, t, s)
      PROVE  /\ (\E u \in RequestsOf(d) : Pending(u))' => Standing(d)
             /\ Reopened(d)' \subseteq Reopened(d)
  <2>1. \A u \in Request : /\ request'[u].contract = request[u].contract
                           /\ Pending(u)' => Pending(u)
                           /\ request'[u].status \in OpenStatus /\ request'[u].reopened
                                => request[u].status \in OpenStatus /\ request[u].reopened
    BY <1>3 DEF Moved, Pending
  <2> QED
    BY <2>1 DEF Standing, Reopened, RequestsOf
<1> QED
  BY <1>1, <1>2, <1>3, RequestsMove

\* A handler that writes leaves its slot, the only one.
LEMMA SlotsEmpty ==
    ASSUME OneClerk, EndTypes, NEW k \in Clerk, Release(k), NEW c \in Contract
    PROVE  Standing(c)' <=> \/ status'[c] = "active"
                            \/ (\E t \in RequestsOf(c) : Pending(t))'
<1>1. \A j \in Clerk : clerk'[j].pc = "idle"
  BY DEF OneClerk, EndTypes, Release, ClerkIdle
<1> QED
  BY <1>1 DEF Standing, Ending

LEMMA PaperworkKeeps ==
    ASSUME OneClerk, EndTypes, InOrder, LatestOpen, ClerksUpToDate, NEW k \in Clerk,
           Paperwork(k), clerk[k].pc # "report", NEW c \in Contract
    PROVE  Kept(c)
<1>1. Release(k) /\ UNCHANGED <<lifeVars, money>>
  BY PaperworkDoes
<1>2. UNCHANGED causes /\ causes[c] \in Nat
  BY DEF Paperwork, CreateTerminationRequest, ReviewReject, Negotiate, Escalate, CreateReport,
     ResolveReport, ContractUntouched, Doing, EndTypes, TypeOK
<1>3. UNCHANGED <<status, paidOut>>
  BY <1>1 DEF lifeVars, contractVars, money
<1>4. Standing(c)' => Standing(c)
  BY <1>1, <1>3, SlotsEmpty, DisputesFollow DEF Standing
<1> QED
  BY <1>2, <1>3, <1>4, DisputesFollow DEF Kept

\* A report that sends a request back is the cause of what that request pays.
LEMMA ReportIsCause ==
    ASSUME OneClerk, EndTypes, CausedInv, NEW k \in Clerk, NEW p \in Report, CreateReport(k, p),
           NEW c \in Contract
    PROVE  Caused(c)'
<1> DEFINE t == clerk[k].on
<1>1. /\ Release(k) /\ UNCHANGED <<status, paidOut>>
      /\ t \in {0} \cup Request /\ (t # 0 => request[t].status # "none")
      /\ request \in [Request -> RequestRow] /\ RequestsKnown
      /\ paidOut[c] \in Nat /\ causes \in [Contract -> Nat]
  BY DEF CreateReport, lifeVars, contractVars, money, EndTypes, Instructed, Doing, TypeOK,
     RequestRow
<1>2. /\ t = 0 => UNCHANGED <<request, causes>>
      /\ t # 0 => /\ request' = [request EXCEPT ![t].status = "admin_review", ![t].reopened = TRUE]
                  /\ causes' = [causes EXCEPT ![request[t].contract] = @ + 1]
  BY DEF CreateReport
<1> HIDE DEF t
<1>3. CASE t = 0
  <2>1. Standing(c)' => Standing(c)
    BY <1>1, <1>2, <1>3, SlotsEmpty DEF Standing, RequestsOf, Pending
  <2>2. Kept(c)
    BY <1>1, <1>2, <1>3, <2>1 DEF Kept, Reopened, RequestsOf
  <2> QED
    BY <1>1, <1>2, <1>3, <2>2, CauseKept DEF CausedInv
<1>4. CASE t # 0
  <2>1. /\ t \in Request /\ request[t].contract \in Contract
        /\ request'[t].contract = request[t].contract /\ request'[t].reopened = TRUE
        /\ \A u \in Request \ {t} : request'[u] = request[u]
    BY <1>1, <1>2, <1>4 DEF RequestRow, RequestsKnown
  <2>2. \A u \in Request : u = t => ~ Pending(u)'
    BY <2>1 DEF Pending
  <2>3. RequestsOf(c)' = RequestsOf(c) /\ (\A u \in Request : Pending(u)' => Pending(u))
    BY <2>1, <2>2 DEF RequestsOf, Pending
  <2>4. Standing(c)' => Standing(c)
    BY <1>1, <2>3, SlotsEmpty DEF Standing, RequestsOf
  <2>5. CASE request[t].contract # c
    <3>1. Reopened(c)' \subseteq Reopened(c) /\ causes'[c] = causes[c]
      BY <1>1, <1>2, <1>4, <2>1, <2>3, <2>5 DEF Reopened, RequestsOf
    <3>2. Kept(c)
      BY <1>1, <2>4, <3>1 DEF Kept
    <3> QED
      BY <1>1, <3>1, <3>2, CauseKept DEF CausedInv
  <2>6. CASE request[t].contract = c
    <3> DEFINE S == Reopened(c)'
               T == S \ {t}
    <3>1. T \subseteq Reopened(c)
      BY <2>1, <2>3 DEF Reopened, RequestsOf
    <3>2. causes'[c] = causes[c] + 1 /\ causes[c] \in Nat
      BY <1>1, <1>2, <1>4, <2>6
    <3>3. S \subseteq Request /\ T \subseteq S /\ Reopened(c) \subseteq Request
      BY ReopenedRequests
    <3> DEFINE m == Cardinality(Reopened(c))
               n == Cardinality(S)
               i == Cardinality(T)
    <3>4. n \in Nat /\ i \in Nat /\ n <= i + 1
      BY <3>3, Counted
    <3>5. m \in Nat /\ i <= m
      BY <3>1, <3>3, Counted
    <3>6. paidOut[c] + (IF Standing(c) THEN 1 ELSE 0) + m <= causes[c]
      BY DEF CausedInv, Caused
    <3>7. Caused(c)' <=> paidOut'[c] + (IF Standing(c)' THEN 1 ELSE 0) + n <= causes'[c]
      BY DEF Caused
    <3> HIDE DEF m, n, i, S, T
    <3> QED
      BY <1>1, <2>4, <3>2, <3>4, <3>5, <3>6, <3>7
  <2> QED
    BY <2>5, <2>6
<1> QED
  BY <1>3, <1>4

\* A contract is ended once in force, or once for a request sent back.
LEMMA EndHasCause ==
    ASSUME OneClerk, EndTypes, InOrder, LatestOpen, ClerksUpToDate, CausedInv, NEW k \in Clerk,
           Ends(k), NEW e \in Contract, NEW s \in Reason, EndContract(e, s), Settled(e),
           EndedBy(k, e), NEW c \in Contract
    PROVE  Caused(c)'
<1>1. /\ Release(k) /\ UNCHANGED causes
      /\ status' = [status EXCEPT ![e] = IF s = "lease_end" THEN "expired" ELSE "terminated"]
  BY EndsDo DEF EndContract, SetStatus
<1>2. /\ paidOut[c] \in Nat /\ causes[c] \in Nat /\ status \in [Contract -> Status]
      /\ request \in [Request -> RequestRow] /\ UpToDate(clerk[k]) /\ Instructed(clerk[k])
  BY DEF EndTypes, TypeOK, LifeTypeOK, ClerksUpToDate, RequestRow
<1>3. clerk[k].pc # "report"
  BY DEF EndedBy, WithRequest
<1>4. /\ (\E t \in RequestsOf(c) : Pending(t))' => Standing(c)
      /\ Reopened(c)' \subseteq Reopened(c)
  BY <1>3, DisputesFollow
<1>5. Standing(c)' => Standing(c)
  <2>1. status'[c] = "active" => status[c] = "active"
    BY <1>1, <1>2
  <2> QED
    BY <1>1, <1>4, <2>1, SlotsEmpty DEF Standing
<1>6. CASE c # e
  <2>1. paidOut'[c] = paidOut[c]
    BY <1>6 DEF Settled
  <2>2. Kept(c)
    BY <1>1, <1>2, <1>4, <1>5, <2>1 DEF Kept
  <2> QED
    BY <1>1, <1>2, <2>2, CauseKept DEF CausedInv
<1>7. CASE c = e
  <2>1. paidOut'[c] \in Nat /\ paidOut'[c] <= paidOut[c] + 1
    BY <1>2, <1>7 DEF Settled
  <2>2. status'[c] # "active"
    BY <1>1, <1>2, <1>7
  <2> DEFINE m == Cardinality(Reopened(c))
             n == Cardinality(Reopened(c)')
             due == IF Standing(c) THEN 1 ELSE 0
             next == IF Standing(c)' THEN 1 ELSE 0
  <2>3. m \in Nat /\ n \in Nat /\ n <= m
    BY <1>4, Counted, ReopenedRequests
  <2>4. (due = 1 /\ next = 0) \/ (next <= due /\ n + 1 <= m)
    <3>1. CASE clerk[k].pc = "autoTerminate" /\ clerk[k].contract = c
      <4>1. Standing(c)
        BY <3>1 DEF Standing, Ending
      <4>2. PICK t \in Request : NewRequest(k, t)
        BY <3>1, RequestsMove DEF Ending
      <4>3. PICK r \in RequestRow :
               request' = [request EXCEPT ![t] = r] /\ r.status = "approved"
        BY <3>1, <4>2 DEF NewRequest
      <4>4. \A u \in RequestsOf(c) : request[u].status \notin OpenStatus
        BY <1>2, <3>1 DEF UpToDate, NothingOpen
      <4>5. \A u \in Request : ~ (u \in RequestsOf(c)' /\ Pending(u)')
        BY <1>2, <4>3, <4>4 DEF RequestsOf, Pending, OpenStatus
      <4>6. ~ Standing(c)'
        BY <1>1, <2>2, <4>5, SlotsEmpty DEF RequestsOf
      <4> QED
        BY <4>1, <4>6
    <3>2. CASE /\ clerk[k].pc \in WithRequest /\ request[clerk[k].on].contract = c
               /\ request'[clerk[k].on].status \notin OpenStatus
      <4> DEFINE t == clerk[k].on
      <4>1. /\ t \in Request /\ request[t].status \in OpenStatus /\ request[t].contract = c
            /\ request'[t].status \notin OpenStatus /\ clerk[k].pc \notin Ending
        BY <1>2, <3>2 DEF Instructed, UpToDate, WithRequest, Ending
      <4> HIDE DEF t
      <4>2. \A u \in Request : /\ request'[u].contract = request[u].contract
                               /\ Pending(u)' => Pending(u)
        <5>1. UNCHANGED request \/ \E u \in Request, v \in RequestStatus \ {"none"} : Moved(k, u, v)
          BY <4>1, RequestsMove DEF NewRequest
        <5> QED
          BY <5>1 DEF Moved, Pending
      <4>3. CASE Pending(t)
        <5>1. Standing(c)
          BY <4>1, <4>3 DEF Standing, RequestsOf
        <5>2. \A u \in Request : Pending(u) /\ request[u].contract = c => u = t
          <6>1. ASSUME NEW u \in Request, Pending(u), request[u].contract = c PROVE u = t
            <7>1. u <= t /\ t <= u
              BY <4>1, <4>3, <6>1 DEF LatestOpen, Pending, OpenStatus
            <7> QED
              BY <4>1, <7>1, RequestNumbers
          <6> QED
            BY <6>1
        <5>3. ~ Standing(c)'
          BY <1>1, <2>2, <4>1, <4>2, <5>2, SlotsEmpty DEF RequestsOf, Pending
        <5> QED
          BY <5>1, <5>3
      <4>4. CASE ~ Pending(t)
        <5>1. t \in Reopened(c) /\ t \notin Reopened(c)'
          BY <1>2, <4>1, <4>4 DEF Pending, Reopened, RequestsOf, RequestRow
        <5>2. n + 1 <= m
          BY <1>4, <5>1, Counted, ReopenedRequests
        <5> QED
          BY <1>5, <5>2
      <4> QED
        BY <4>3, <4>4
    <3> QED
      BY <1>7, <3>1, <3>2 DEF EndedBy
  <2>5. paidOut[c] + due + m <= causes[c]
    BY DEF CausedInv, Caused
  <2>6. Caused(c)' <=> paidOut'[c] + next + n <= causes'[c]
    BY DEF Caused
  <2>7. due \in {0, 1} /\ next \in {0, 1} /\ causes'[c] = causes[c]
    BY <1>1
  <2> HIDE DEF m, n, due, next
  <2> QED
    BY <1>2, <2>1, <2>3, <2>4, <2>5, <2>6, <2>7
<1> QED
  BY <1>6, <1>7

\* Handlers start to end a contract only while it is in force.
LEMMA StartsKeep ==
    ASSUME EndTypes, NEW k \in Clerk, Starts(k), NEW c \in Contract
    PROVE  Kept(c)
<1>1. NothingWritten /\ clerk[k] = ClerkIdle /\ clerk \in [Clerk -> ClerkJob] /\ causes[c] \in Nat
  BY StartsDo DEF EndTypes, TypeOK
<1>2. UNCHANGED <<status, request, paidOut, causes>>
  BY <1>1 DEF NothingWritten, ContractUntouched, lifeVars, contractVars, money
<1>3. \A p, d, t, n, f : Take(k, p, d, t, n, f) =>
         /\ clerk'[k].pc = p /\ clerk'[k].contract = d
         /\ \A j \in Clerk \ {k} : clerk'[j] = clerk[j]
  BY <1>1 DEF Take
<1>4. /\ \A j \in Clerk \ {k} : clerk'[j] = clerk[j]
      /\ clerk'[k].pc \in Ending => status[clerk'[k].contract] = "active"
  <2>1. CASE \E d \in Contract : CreateRequestStart(k, d)
    BY <1>3, <2>1 DEF CreateRequestStart
  <2>2. CASE \E d \in Contract : \E s \in CronReasons : AutoTerminateStart(k, d, s)
    BY <1>3, <2>2 DEF AutoTerminateStart
  <2>3. CASE \E d \in Contract : \E t \in {0} \cup Request, b \in BOOLEAN :
                CreateReportStart(k, d, t, b)
    BY <1>3, <2>3 DEF CreateReportStart, Ending
  <2>4. CASE \E t \in Request : ReviewStart(k, t)
    BY <1>3, <2>4 DEF ReviewStart, Ending
  <2>40. CASE \E t \in Request : \E b \in BOOLEAN : AdminResolveStart(k, t, b)
    BY <1>3, <2>40 DEF AdminResolveStart, Ending
  <2>5. CASE \E t \in Request : \E n \in OpenStatus \cup {"resolved"}, b \in BOOLEAN :
                UpdateStart(k, t, n, b)
    BY <1>3, <2>5 DEF UpdateStart, Ending
  <2>6. CASE \E p \in Report : ResolveReportStart(k, p)
    BY <1>3, <2>6 DEF ResolveReportStart, Ending
  <2> QED
    BY <2>1, <2>2, <2>3, <2>4, <2>40, <2>5, <2>6 DEF Starts
<1>5. Standing(c)' => Standing(c)
  <2>1. ASSUME NEW j \in Clerk, clerk'[j].pc \in Ending, clerk'[j].contract = c
        PROVE  Standing(c)
    BY <1>4, <2>1 DEF Standing
  <2> QED
    BY <1>2, <2>1 DEF Standing, RequestsOf, Pending
<1> QED
  BY <1>1, <1>2, <1>5 DEF Kept, Reopened, RequestsOf

LEMMA CausedStep ==
    OneClerk /\ LifeInv /\ EndTypes /\ ClerkInv /\ CausedInv /\ [Next]_vars => CausedInv'
<1> SUFFICES ASSUME OneClerk, LifeInv, EndTypes, ClerkInv, CausedInv, [Next]_vars,
                    NEW c \in Contract
             PROVE  Caused(c)'
  BY DEF CausedInv
<1>1. paidOut[c] \in Nat /\ causes[c] \in Nat /\ causes'[c] \in Nat /\ Caused(c)
  <2>1. EndTypes'
    BY EndTypesStep
  <2> QED
    BY <2>1 DEF EndTypes, TypeOK, CausedInv
<1>2. ASSUME UNCHANGED <<request, paidOut, causes>>,
             \A j \in Clerk : clerk'[j] = clerk[j] \/ clerk'[j] = ClerkIdle,
             status'[c] = "active" => status[c] = "active"
      PROVE  Caused(c)'
  <2>1. Standing(c)' => Standing(c)
    BY <1>2 DEF Standing, RequestsOf, Pending, Ending, ClerkIdle
  <2>2. Kept(c)
    BY <1>1, <1>2, <2>1 DEF Kept, Reopened, RequestsOf
  <2> QED
    BY <1>1, <2>2, CauseKept
<1>3. CASE LifeStep
  <2>1. UNCHANGED <<request, paidOut, clerk>> /\ ComesIntoForce
    BY <1>3, LifeStepDoes DEF LifeInv, money
  <2>2. causes'[c] >= causes[c] /\ (Standing(c)' => Standing(c) \/ causes'[c] > causes[c])
    BY <1>1, <2>1 DEF ComesIntoForce, Standing, RequestsOf, Pending
  <2>3. Kept(c)
    BY <2>1, <2>2 DEF Kept, Reopened, RequestsOf
  <2> QED
    BY <1>1, <2>3, CauseKept
<1>4. CASE DepositArrives
  <2>1. status'[c] = "active" => status[c] = "active"
    BY <1>4 DEF DepositArrives, CreateContract, DepositPaid, SetStatus, LifeInv, LifeTypeOK
  <2> QED
    BY <1>2, <1>4, <2>1 DEF DepositArrives
<1>5. CASE CrashAll
  BY <1>2, <1>5 DEF CrashAll, Crash, contractVars, money
<1>6. CASE (\E d \in Contract : RentUnpaid(d)) \/ UNCHANGED vars
  BY <1>2, <1>6 DEF RentUnpaid, vars, lifeVars, contractVars, endVars, money
<1>7. ASSUME NEW k \in Clerk, GiveUp(k) PROVE Caused(c)'
  <2>1. \A j \in Clerk : clerk'[j] = clerk[j] \/ clerk'[j] = ClerkIdle
    BY <1>7 DEF GiveUp, Release, EndTypes
  <2> QED
    BY <1>2, <1>7, <2>1 DEF GiveUp, NothingWritten, ContractUntouched, lifeVars, contractVars, money
<1>8. ASSUME NEW k \in Clerk, Starts(k) PROVE Caused(c)'
  BY <1>1, <1>8, StartsKeep, CauseKept
<1>9. ASSUME NEW k \in Clerk, Paperwork(k) PROVE Caused(c)'
  <2>1. CASE clerk[k].pc # "report"
    BY <1>1, <1>9, <2>1, PaperworkKeeps, CauseKept DEF ClerkInv
  <2>2. CASE clerk[k].pc = "report"
    <3>1. PICK p \in Report : CreateReport(k, p)
      BY <1>9, <2>2 DEF Paperwork, CreateTerminationRequest, ReviewReject, Negotiate, Escalate,
         ResolveReport, Doing
    <3> QED
      BY <3>1, ReportIsCause
  <2> QED
    BY <2>1, <2>2
<1>10. ASSUME NEW k \in Clerk, Ends(k) PROVE Caused(c)'
  <2>1. CASE \E e \in Contract, s \in Reason : EndContract(e, s) /\ Settled(e) /\ EndedBy(k, e)
    BY <1>10, <2>1, EndHasCause DEF ClerkInv
  <2>2. CASE ContractUntouched
    <3>1. UNCHANGED <<status, paidOut, causes>> /\ Release(k)
      BY <1>10, <2>2, EndsDo DEF ContractUntouched, lifeVars, contractVars, money
    <3>2. clerk[k].pc # "report"
      BY <1>10 DEF Ends, AutoTerminateContract, ReviewApprove, ResolveRequest, AdminResolve, Doing
    <3>3. Standing(c)' => Standing(c)
      BY <1>10, <3>1, <3>2, SlotsEmpty, DisputesFollow DEF Standing, ClerkInv
    <3>4. Kept(c)
      BY <1>1, <1>10, <3>1, <3>2, <3>3, DisputesFollow DEF Kept, ClerkInv
    <3> QED
      BY <1>1, <3>4, CauseKept
  <2> QED
    BY <1>10, <2>1, <2>2, EndsDo
<1> QED
  BY <1>3, <1>4, <1>5, <1>6, <1>7, <1>8, <1>9, <1>10, EndSteps

LEMMA CausedStarts == Init => CausedInv
<1> SUFFICES ASSUME Init, NEW c \in Contract PROVE Caused(c)
  BY DEF CausedInv
<1>1. RequestsOf(c) = {}
  BY ContractAssumption DEF Init, NoRequest, RequestsOf, ContractAssumption
<1>2. ~ Standing(c)
  BY <1>1 DEF Init, LifeInit, Standing, Ending, ClerkIdle
<1>3. Cardinality(Reopened(c)) = 0
  BY <1>1, FS_EmptySet DEF Reopened
<1> QED
  BY <1>2, <1>3 DEF Init, Caused

LEMMA CausedInvPromises == EndTypes /\ CausedInv => PayoutsCaused
<1> SUFFICES ASSUME EndTypes, CausedInv, NEW c \in Contract PROVE paidOut[c] <= causes[c]
  BY DEF PayoutsCaused
<1>1. Cardinality(Reopened(c)) \in Nat
  BY Counted, ReopenedRequests
<1> QED
  BY <1>1 DEF CausedInv, Caused, EndTypes, TypeOK

\* With one handler of terminations at a time no deposit is paid out but for
\* a cause of its own: the contract came into force, or a report sent a request
\* of it back. Reviews, administrators and crons pay none of them twice.
THEOREM PayoutsHaveCause == OneClerk => (Spec => []PayoutsCaused)
<1> SUFFICES ASSUME OneClerk PROVE Spec => []PayoutsCaused
  OBVIOUS
<1>1. EndTypes /\ ClerkInv /\ [Next]_vars => ClerkInv'
  BY ClerkStep
<1>2. LifeInv /\ EndTypes /\ ClerkInv /\ CausedInv /\ [Next]_vars => CausedInv'
  BY CausedStep
<1> QED
  BY <1>1, <1>2, EndInvariant, ClerkStarts, CausedStarts, CausedInvPromises, PTL DEF Spec
=============================================================================
