---------------------------- MODULE WalletProofs ----------------------------
(***************************************************************************)
(* WalletInv is an invariant of Wallet for every set of users, items and   *)
(* slots, and with it TypeOK, NeverNegative, TopupBacked, RentBacked,      *)
(* RefundedIffRejected and PendingHasTimer.  With a single slot a top-up   *)
(* is credited once (TopupInv), and without rents a balance is the sum of  *)
(* its rows (LedgerInv).                                                   *)
(*                                                                         *)
(* Most steps leave the withdrawals and their timers alone: for these one  *)
(* lemma carries over what the jobs know.  The four steps of a withdrawal  *)
(* are treated one by one.                                                 *)
(***************************************************************************)
EXTENDS Wallet, TLAPS, FiniteSetTheorems, WellFoundedInduction

RowsStand == UNCHANGED <<rowVars, moneyVars, worldVars, timers, crashes>>

\* What no step takes back: money captured, a confirmation.
Grows == captured \subseteq captured' /\ confirmed \subseteq confirmed'
WithdrawalsStand == UNCHANGED <<withdrawal, timers, crashes>>

\* What is true of the rows alone.
RowsInv ==
    /\ RowsTyped /\ NeverNegative /\ TopupBacked /\ RentBacked
    /\ RefundedIffRejected
    /\ \A w \in timers : withdrawal[w] = "pending"
\* What is true of the jobs and of the rows they work on.
JobsInv ==
    /\ job \in [Slot -> Job]
    /\ PendingHasTimer /\ OneJobPerWithdrawal
    /\ \A a \in Slot : JobKnows(job[a])

LEMMA InvSplits == WalletInv <=> RowsInv /\ JobsInv
BY DEF WalletInv, RowsInv, JobsInv, TypeOK

LEMMA InvSplitsPrimed == RowsInv' /\ JobsInv' => WalletInv'
BY DEF WalletInv, RowsInv, JobsInv, TypeOK

\* Balances are natural numbers, and so are amounts.
LEMMA Numbers ==
    ASSUME WalletInv
    PROVE  /\ \A u \in User : balance[u] \in Nat
           /\ \A i \in Item : amountOf[i] \in Nat \ {0}
           /\ Topup \subseteq Item /\ Withdrawal \subseteq Item /\ Fee \subseteq Item
           /\ Rent \subseteq Item
           /\ \A i \in Topup \cup Withdrawal \cup Fee : walletOf[i] \in User
           /\ \A p \in Rent : payerOf[p] \in User /\ ownerOf[p] \in User
BY UserAssumption, ItemAssumption DEF WalletInv, TypeOK, RowsTyped, NeverNegative, Item

LEMMA RunningJob ==
    ASSUME WalletInv, NEW a \in Slot
    PROVE  job[a] \in Job /\ JobKnows(job[a])
BY DEF WalletInv, TypeOK

-----------------------------------------------------------------------------
(* The two kinds of job, and the idle one.                                 *)

LEMMA ItemJobOK ==
    ASSUME NEW l \in Pc \ Renting, NEW i \in Item \cup {NoItem}, NEW n \in Nat
    PROVE  /\ ItemJob(l, i, n) \in Job
           /\ ItemJob(l, i, n).pc = l /\ ItemJob(l, i, n).item = i
           /\ ItemJob(l, i, n).bal = n
BY DEF ItemJob, Job

LEMMA RentJobOK ==
    ASSUME NEW l \in Renting, NEW p \in Rent, NEW b \in Nat, NEW o \in Nat, NEW d \in BOOLEAN,
           d \/ p \in captured, l \in {"rentRead", "rentDebit"} => d,
           l # "rentRead" /\ d => b >= amountOf[p]
    PROVE  /\ RentJob(l, p, b, o, d) \in Job /\ JobKnows(RentJob(l, p, b, o, d))
           /\ RentJob(l, p, b, o, d).pc = l
BY DEF RentJob, Job, Pc, JobKnows, Item, Crediting, Polling, Renting

LEMMA IdleJobOK == IdleJob \in Job /\ IdleJob.pc = "idle" /\ JobKnows(IdleJob)
BY DEF IdleJob, ItemJob, Job, Pc, Item, JobKnows, Crediting, Polling, Renting

-----------------------------------------------------------------------------
(* One step that leaves the withdrawals alone.                             *)

LEMMA KnowledgeStays ==
    ASSUME Grows, WithdrawalsStand, NEW j \in Job, JobKnows(j)
    PROVE  JobKnows(j)'
BY DEF Grows, WithdrawalsStand, JobKnows

LEMMA JobsStep ==
    ASSUME WalletInv, Grows, WithdrawalsStand, NEW a \in Slot, NEW j \in Job, JobKnows(j)',
           job' = [job EXCEPT ![a] = j],
           job[a].pc # "process", j.pc \notin {"withdraw", "process"}
    PROVE  JobsInv'
<1>1. job \in [Slot -> Job] /\ job' \in [Slot -> Job] /\ job'[a] = j
      /\ \A b \in Slot \ {a} : job'[b] = job[b]
  BY DEF WalletInv, TypeOK
<1>2. ASSUME NEW b \in Slot PROVE JobKnows(job[b])'
  <2>1. CASE b = a
    BY <1>1, <2>1 DEF JobKnows
  <2>2. CASE b # a
    <3>1. job'[b] = job[b] /\ job[b] \in Job /\ JobKnows(job[b])
      BY <1>1, <2>2 DEF WalletInv
    <3> QED
      BY <3>1, KnowledgeStays
  <2> QED
    BY <2>1, <2>2
<1>3. OneJobPerWithdrawal'
  BY <1>1 DEF WalletInv, OneJobPerWithdrawal
<1>4. PendingHasTimer'
  <2> SUFFICES ASSUME crashes' = 0, NEW w \in Withdrawal, withdrawal'[w] = "pending",
                      w \notin timers'
               PROVE  Processing(w)'
    BY DEF PendingHasTimer
  <2>1. PICK b \in Slot : job[b].pc = "process" /\ job[b].item = w
    BY DEF WalletInv, PendingHasTimer, Processing, At, WithdrawalsStand
  <2>2. job'[b] = job[b]
    BY <1>1, <2>1
  <2> QED
    BY <2>1, <2>2 DEF Processing, At
<1> QED
  BY <1>1, <1>2, <1>3, <1>4 DEF JobsInv

\* A step that moves one job and leaves every row alone.
LEMMA RowsStandStep ==
    ASSUME WalletInv, RowsStand
    PROVE  RowsInv' /\ Grows /\ WithdrawalsStand
<1>1. RowsInv
  BY InvSplits
<1> QED
  BY <1>1 DEF RowsStand, RowsInv, Grows, WithdrawalsStand, rowVars, moneyVars, worldVars,
     RowsTyped, NeverNegative, TopupBacked, RentBacked, RefundedIffRejected

LEMMA JobOnlyStep ==
    ASSUME WalletInv, RowsStand, NEW a \in Slot, NEW j \in Job, JobKnows(j),
           job' = [job EXCEPT ![a] = j],
           job[a].pc # "process", j.pc \notin {"withdraw", "process"}
    PROVE  WalletInv'
<1>1. RowsInv' /\ Grows /\ WithdrawalsStand
  BY RowsStandStep
<1>2. JobKnows(j)'
  BY <1>1, KnowledgeStays
<1> QED
  BY <1>1, <1>2, JobsStep, InvSplitsPrimed

\* A job ends, and has written rows other than those of withdrawals.
LEMMA FinishStep ==
    ASSUME WalletInv, Grows, WithdrawalsStand, RowsInv', NEW a \in Slot, Finish(a),
           job[a].pc # "process"
    PROVE  WalletInv'
<1>1. PICK k \in Job : k = IdleJob /\ JobKnows(k) /\ k.pc = "idle"
  BY IdleJobOK
<1>2. JobKnows(k)' /\ job' = [job EXCEPT ![a] = k]
  BY <1>1, KnowledgeStays DEF Finish
<1> QED
  BY <1>1, <1>2, JobsStep, InvSplitsPrimed

LEMMA FinishOnlyStep ==
    ASSUME WalletInv, RowsStand, NEW a \in Slot, Finish(a), job[a].pc # "process"
    PROVE  WalletInv'
BY RowsStandStep, FinishStep

\* No job moves, and no row of a withdrawal changes.
LEMMA WorldStep ==
    ASSUME WalletInv, Grows, WithdrawalsStand, RowsInv', job' = job
    PROVE  WalletInv'
<1>1. \A a \in Slot : JobKnows(job[a])'
  <2> SUFFICES ASSUME NEW a \in Slot PROVE JobKnows(job[a])'
    OBVIOUS
  <2>1. PICK j \in Job : j = job[a] /\ JobKnows(j)
    BY RunningJob
  <2>2. JobKnows(j)'
    BY <2>1, KnowledgeStays
  <2> QED
    BY <2>1, <2>2 DEF JobKnows
<1>2. JobsInv'
  BY <1>1 DEF WalletInv, TypeOK, JobsInv, OneJobPerWithdrawal, PendingHasTimer, Processing, At,
     WithdrawalsStand
<1> QED
  BY <1>2, InvSplitsPrimed

-----------------------------------------------------------------------------
(* Top-ups and fees.                                                       *)

\* What a job on a top-up or a fee has to know, with or without a write.
LEMMA ItemJobKnows ==
    ASSUME WalletInv, NEW l \in Pc \ (Renting \cup {"withdraw", "process"}),
           NEW i \in Item \cup {NoItem}, NEW n \in Nat,
           l \in Crediting => i \in Topup \cap (captured \cup confirmed),
           l \in Polling => i \in Topup,
           l = "fee" => i \in Fee /\ n >= amountOf[i]
    PROVE  /\ ItemJob(l, i, n) \in Job /\ JobKnows(ItemJob(l, i, n))
           /\ ItemJob(l, i, n).pc = l
<1>1. /\ ItemJob(l, i, n) \in Job
      /\ ItemJob(l, i, n).pc = l /\ ItemJob(l, i, n).item = i /\ ItemJob(l, i, n).bal = n
  BY ItemJobOK
<1> QED
  BY <1>1 DEF JobKnows, Renting

LEMMA ItemStep ==
    ASSUME WalletInv, RowsStand, NEW a \in Slot, job[a].pc # "process",
           NEW l \in Pc \ (Renting \cup {"withdraw", "process"}),
           NEW i \in Item \cup {NoItem}, NEW n \in Nat,
           l \in Crediting => i \in Topup \cap (captured \cup confirmed),
           l \in Polling => i \in Topup,
           l = "fee" => i \in Fee /\ n >= amountOf[i],
           Become(a, ItemJob(l, i, n))
    PROVE  WalletInv'
BY ItemJobKnows, JobOnlyStep DEF Become

LEMMA InitiateStep ==
    ASSUME WalletInv, NEW t \in Topup, InitiateTopup(t)
    PROVE  WalletInv'
<1>1. Grows /\ WithdrawalsStand /\ job' = job
  BY DEF InitiateTopup, Grows, WithdrawalsStand, worldVars
<1>2. RowsInv'
  BY InvSplits DEF InitiateTopup, RowsInv, RowsTyped, TopupStatus, NeverNegative, TopupBacked,
     RentBacked, RefundedIffRejected, moneyVars, worldVars
<1> QED
  BY <1>1, <1>2, WorldStep

LEMMA PaysStep ==
    ASSUME WalletInv, NEW i \in Item, UserPays(i)
    PROVE  WalletInv'
<1>1. Grows /\ WithdrawalsStand /\ job' = job
  BY DEF UserPays, Grows, WithdrawalsStand, rowVars
<1>2. i \in Topup \cup Rent
  BY ItemAssumption DEF UserPays
<1>3. RowsInv'
  BY <1>2, InvSplits DEF UserPays, RowsInv, RowsTyped, NeverNegative, TopupBacked,
     RentBacked, RefundedIffRejected, moneyVars, rowVars
<1> QED
  BY <1>1, <1>3, WorldStep

LEMMA WebhookCheckStep ==
    ASSUME WalletInv, NEW a \in Slot, NEW t \in Topup, WebhookCheck(a, t)
    PROVE  WalletInv'
BY ItemStep DEF WebhookCheck, RowsStand, Begin, Become, Pc, Renting, Crediting, Polling, Item

LEMMA ConfirmCheckStep ==
    ASSUME WalletInv, NEW a \in Slot, NEW t \in Topup, ConfirmCheck(a, t)
    PROVE  WalletInv'
<1>1. Grows /\ WithdrawalsStand /\ confirmed' = confirmed \cup {t} /\ job[a].pc = "idle"
  BY DEF ConfirmCheck, Grows, WithdrawalsStand, rowVars, Begin
<1>2. RowsInv'
  BY InvSplits DEF ConfirmCheck, RowsInv, RowsTyped, NeverNegative, TopupBacked,
     RentBacked, RefundedIffRejected, moneyVars, rowVars
<1>3. PICK j \in Job : /\ j = ItemJob("creditRead", t, 0)
                       /\ j.pc = "creditRead" /\ j.item = t
  BY ItemJobOK DEF Pc, Renting, Item
<1>4. JobKnows(j)'
  BY <1>1, <1>3 DEF JobKnows, Crediting, Polling, Renting
<1>5. job' = [job EXCEPT ![a] = j]
  BY <1>3 DEF ConfirmCheck, Begin
<1> QED
  BY <1>1, <1>2, <1>3, <1>4, <1>5, JobsStep, InvSplitsPrimed

LEMMA CreditReadStep ==
    ASSUME WalletInv, NEW a \in Slot, CreditRead(a)
    PROVE  WalletInv'
<1> DEFINE t == job[a].item
<1>1. t \in Topup \cap (captured \cup confirmed)
  BY RunningJob DEF CreditRead, At, JobKnows, Crediting
<1>2. balance[walletOf[t]] \in Nat
  BY <1>1, Numbers
<1>3. RowsStand /\ Become(a, ItemJob("credit", t, balance[walletOf[t]])) /\ job[a].pc # "process"
  BY DEF CreditRead, RowsStand, At
<1> HIDE DEF t
<1> QED
  BY <1>1, <1>2, <1>3, ItemStep DEF Pc, Renting, Crediting, Polling, Item

LEMMA CreditCommitStep ==
    ASSUME WalletInv, NEW a \in Slot, CreditCommit(a)
    PROVE  WalletInv'
<1> DEFINE t == job[a].item
<1>1. t \in Topup \cap (captured \cup confirmed) /\ job[a].bal \in Nat
  BY RunningJob DEF CreditCommit, At, JobKnows, Crediting, Job
<1>2. job[a].bal + amountOf[t] \in Nat /\ walletOf[t] \in User
  BY <1>1, Numbers
<1>3. Grows /\ WithdrawalsStand /\ job[a].pc # "process" /\ Finish(a)
  BY DEF CreditCommit, Grows, WithdrawalsStand, worldVars, At
<1>4. /\ balance' = [balance EXCEPT ![walletOf[t]] = job[a].bal + amountOf[t]]
      /\ topup' = [topup EXCEPT ![t] = "success"]
      /\ credits' = [credits EXCEPT ![t] = @ + 1]
      /\ UNCHANGED <<polls, withdrawal, refunds, charged, rent, rentLogs, debits,
                     captured, confirmed, timers, crashes>>
  BY DEF CreditCommit, worldVars
<1> HIDE DEF t
<1>5. RowsTyped'
  BY <1>1, <1>2, <1>4, InvSplits DEF RowsInv, RowsTyped, TopupStatus
<1>6. NeverNegative'
  BY <1>2, <1>4, InvSplits DEF RowsInv, RowsTyped, NeverNegative
<1>7. TopupBacked' /\ RentBacked'
  BY <1>1, <1>4, InvSplits, ItemAssumption DEF RowsInv, RowsTyped, TopupBacked, RentBacked
<1>8. RefundedIffRejected' /\ \A w \in timers' : withdrawal'[w] = "pending"
  BY <1>4, InvSplits DEF RowsInv, RefundedIffRejected
<1> QED
  BY <1>3, <1>5, <1>6, <1>7, <1>8, FinishStep DEF RowsInv

LEMMA ReconcileFindStep ==
    ASSUME WalletInv, NEW a \in Slot, NEW t \in Topup, ReconcileFind(a, t)
    PROVE  WalletInv'
BY ItemStep DEF ReconcileFind, RowsStand, Begin, Become, Pc, Renting, Crediting, Polling, Item

LEMMA ReconcilePollStep ==
    ASSUME WalletInv, NEW a \in Slot, ReconcilePoll(a)
    PROVE  WalletInv'
<1> DEFINE t == job[a].item
<1>1. t \in Topup
  BY RunningJob DEF ReconcilePoll, At, JobKnows, Polling
<1>2. Grows /\ WithdrawalsStand /\ job[a].pc # "process"
  BY DEF ReconcilePoll, Grows, WithdrawalsStand, worldVars, At
<1>3. RowsInv'
  BY <1>1, InvSplits, BoundAssumption DEF ReconcilePoll, RowsInv, RowsTyped, NeverNegative,
     TopupBacked, RentBacked, RefundedIffRejected, moneyVars, worldVars
<1>4. CASE t \notin ViaGateway
  BY <1>2, <1>3, <1>4, FinishStep DEF ReconcilePoll
<1>5. CASE t \in ViaGateway
  <2>1. PICK l \in {"query", "lastQuery"} : Become(a, ItemJob(l, t, 0))
    BY <1>5 DEF ReconcilePoll
  <2> HIDE DEF t
  <2>2. PICK j \in Job : j = ItemJob(l, t, 0) /\ j.pc = l /\ JobKnows(j)
    BY <1>1, ItemJobKnows DEF Pc, Renting, Crediting, Polling, Item
  <2>3. JobKnows(j)'
    BY <1>2, <2>2, KnowledgeStays
  <2> QED
    BY <1>2, <1>3, <2>1, <2>2, <2>3, JobsStep, InvSplitsPrimed DEF Become
<1> QED
  BY <1>4, <1>5

LEMMA QueryStep ==
    ASSUME WalletInv, NEW a \in Slot, QueryPaid(a) \/ QueryUnpaid(a) \/ QueryFails(a)
    PROVE  WalletInv'
<1> DEFINE t == job[a].item
<1>1. t \in Topup /\ RowsStand /\ job[a].pc # "process"
  BY RunningJob DEF QueryPaid, QueryUnpaid, QueryFails, At, JobKnows, Polling, RowsStand
<1>2. CASE QueryPaid(a)
  <2>1. t \in captured /\ Become(a, ItemJob("creditRead", t, 0))
    BY <1>2 DEF QueryPaid
  <2> HIDE DEF t
  <2> QED
    BY <1>1, <2>1, ItemStep DEF Pc, Renting, Crediting, Polling, Item
<1>3. CASE Finish(a)
  BY <1>1, <1>3, FinishOnlyStep
<1>4. CASE Become(a, ItemJob("fail", t, 0))
  <2> HIDE DEF t
  <2> QED
    BY <1>1, <1>4, ItemStep DEF Pc, Renting, Crediting, Polling, Item
<1> QED
  BY <1>2, <1>3, <1>4 DEF QueryUnpaid, QueryFails

LEMMA GiveUpStep ==
    ASSUME WalletInv, NEW a \in Slot, GiveUp(a)
    PROVE  WalletInv'
<1>1. Grows /\ WithdrawalsStand /\ job[a].pc # "process" /\ Finish(a)
  BY DEF GiveUp, Grows, WithdrawalsStand, worldVars, At
<1>2. RowsInv'
  BY InvSplits DEF GiveUp, RowsInv, RowsTyped, TopupStatus, NeverNegative, TopupBacked,
     RentBacked, RefundedIffRejected, moneyVars, worldVars
<1> QED
  BY <1>1, <1>2, FinishStep

LEMMA FeeReadStep ==
    ASSUME WalletInv, NEW a \in Slot, NEW f \in Fee, FeeRead(a, f)
    PROVE  WalletInv'
<1>1. balance[walletOf[f]] \in Nat
  BY Numbers
<1> QED
  BY <1>1, ItemStep DEF FeeRead, RowsStand, Begin, Become, Pc, Renting, Crediting, Polling, Item

LEMMA FeeCommitStep ==
    ASSUME WalletInv, NEW a \in Slot, FeeCommit(a)
    PROVE  WalletInv'
<1> DEFINE f == job[a].item
<1>1. f \in Fee /\ job[a].bal \in Nat /\ job[a].bal >= amountOf[f]
  BY RunningJob DEF FeeCommit, At, JobKnows, Job
<1>2. job[a].bal - amountOf[f] \in Nat /\ walletOf[f] \in User
  BY <1>1, Numbers
<1>3. Grows /\ WithdrawalsStand /\ job[a].pc # "process" /\ Finish(a)
  BY DEF FeeCommit, Grows, WithdrawalsStand, worldVars, At
<1>4. /\ balance' = [balance EXCEPT ![walletOf[f]] = job[a].bal - amountOf[f]]
      /\ charged' = charged \cup {f}
      /\ UNCHANGED <<topup, polls, withdrawal, refunds, rent, rentLogs, credits, debits,
                     captured, confirmed, timers, crashes>>
  BY DEF FeeCommit, worldVars
<1> HIDE DEF f
<1>5. RowsTyped' /\ NeverNegative'
  BY <1>1, <1>2, <1>4, InvSplits DEF RowsInv, RowsTyped, NeverNegative
<1>6. TopupBacked' /\ RentBacked' /\ RefundedIffRejected'
      /\ \A w \in timers' : withdrawal'[w] = "pending"
  BY <1>4, InvSplits DEF RowsInv, TopupBacked, RentBacked, RefundedIffRejected
<1> QED
  BY <1>3, <1>5, <1>6, FinishStep DEF RowsInv

-----------------------------------------------------------------------------
(* Rents.                                                                  *)

LEMMA RentStep ==
    ASSUME WalletInv, RowsStand, NEW a \in Slot, job[a].pc # "process",
           NEW l \in Renting, NEW p \in Rent, NEW b \in Nat, NEW o \in Nat, NEW d \in BOOLEAN,
           d \/ p \in captured, l \in {"rentRead", "rentDebit"} => d,
           l # "rentRead" /\ d => b >= amountOf[p],
           Become(a, RentJob(l, p, b, o, d))
    PROVE  WalletInv'
<1>1. PICK j \in Job : j = RentJob(l, p, b, o, d) /\ j.pc = l /\ JobKnows(j)
  BY RentJobOK
<1> QED
  BY <1>1, JobOnlyStep DEF Become, Renting

LEMMA RentArrives ==
    ASSUME WalletInv, NEW a \in Slot, NEW p \in Rent,
           RentCheck(a, p) \/ RentIpn(a, p) \/ RentVnpay(a, p)
    PROVE  WalletInv'
<1>1. RowsStand /\ job[a].pc # "process"
  BY DEF RentCheck, RentIpn, RentVnpay, Begin, RowsStand
<1>2. CASE RentCheck(a, p)
  BY <1>1, <1>2, RentStep DEF RentCheck, Begin, Become, Renting
<1>3. CASE RentIpn(a, p) \/ RentVnpay(a, p)
  BY <1>1, <1>3, RentStep DEF RentIpn, RentVnpay, Begin, Become, Renting
<1> QED
  BY <1>2, <1>3

\* What a job on a rent knows, spelled out.
LEMMA RentingJob ==
    ASSUME WalletInv, NEW a \in Slot, job[a].pc \in Renting
    PROVE  /\ job[a].item \in Rent /\ job[a].bal \in Nat /\ job[a].own \in Nat
           /\ job[a].debit \in BOOLEAN /\ (job[a].debit \/ job[a].item \in captured)
           /\ job[a].pc # "rentRead" /\ job[a].debit => job[a].bal >= amountOf[job[a].item]
           /\ job[a].pc # "process"
<1>1. job[a] \in Job /\ JobKnows(job[a])
  BY RunningJob
<1> QED
  BY <1>1 DEF JobKnows, Job, Renting

LEMMA RentGoesOn ==
    ASSUME WalletInv, NEW a \in Slot,
           RentRead(a) \/ RentDebit(a) \/ RentMark(a) \/ RentOwner(a)
    PROVE  WalletInv'
<1> DEFINE p == job[a].item
           o == balance[ownerOf[p]]
           n == balance[payerOf[p]]
<1>1. RowsStand /\ job[a].pc \in Renting
  BY DEF RentRead, RentDebit, RentMark, RentOwner, At, RowsStand, Renting
<1>2. /\ p \in Rent /\ job[a].bal \in Nat /\ job[a].debit \in BOOLEAN
      /\ (job[a].debit \/ p \in captured) /\ job[a].pc # "process"
      /\ job[a].pc # "rentRead" /\ job[a].debit => job[a].bal >= amountOf[p]
  BY <1>1, RentingJob
<1>3. o \in Nat /\ n \in Nat
  BY <1>2, Numbers
<1>4. \/ n >= amountOf[p] /\ Become(a, RentJob("rentDebit", p, n, 0, TRUE))
      \/ job[a].pc = "rentDebit" /\ Become(a, RentJob("rentMark", p, job[a].bal, 0, TRUE))
      \/ job[a].pc = "rentMark"
         /\ Become(a, RentJob("rentOwner", p, job[a].bal, 0, job[a].debit))
      \/ job[a].pc = "rentOwner"
         /\ Become(a, RentJob("rentSettle", p, job[a].bal, o, job[a].debit))
  BY DEF RentRead, RentDebit, RentMark, RentOwner, At
<1>5. job[a].pc = "rentDebit" => job[a].debit
  BY RunningJob DEF JobKnows
<1> HIDE DEF p, o, n
<1> QED
  BY <1>1, <1>2, <1>3, <1>4, <1>5, RentStep DEF Renting

LEMMA RentSettleStep ==
    ASSUME WalletInv, NEW a \in Slot, RentSettle(a)
    PROVE  WalletInv'
<1> DEFINE p == job[a].item
<1>1. /\ p \in Rent /\ job[a].bal \in Nat /\ job[a].own \in Nat
      /\ job[a].debit \in BOOLEAN /\ (job[a].debit \/ p \in captured)
      /\ job[a].debit => job[a].bal >= amountOf[p]
      /\ job[a].pc # "process"
  BY RentingJob DEF RentSettle, At, Renting
<1>2. /\ job[a].own + amountOf[p] \in Nat
      /\ job[a].debit => job[a].bal - amountOf[p] \in Nat
  BY <1>1, Numbers
<1>3. Grows /\ WithdrawalsStand /\ Finish(a)
  BY DEF RentSettle, Grows, WithdrawalsStand, worldVars
<1>4. /\ balance' = [u \in User |-> IF u = ownerOf[p] THEN job[a].own + amountOf[p]
                                    ELSE IF u = payerOf[p] /\ job[a].debit
                                    THEN job[a].bal - amountOf[p] ELSE balance[u]]
      /\ rent' = [rent EXCEPT ![p] = "paid"]
      /\ rentLogs' = [rentLogs EXCEPT ![p] = @ + IF job[a].debit THEN 2 ELSE 1]
      /\ credits' = [credits EXCEPT ![p] = @ + 1]
      /\ debits' = [debits EXCEPT ![p] = @ + IF job[a].debit THEN 1 ELSE 0]
      /\ UNCHANGED <<topup, polls, withdrawal, refunds, charged, captured, confirmed,
                     timers, crashes>>
  BY DEF RentSettle, worldVars
<1> HIDE DEF p
<1>5. RowsTyped'
  <2>1. balance' \in [User -> Int]
    BY <1>2, <1>4, InvSplits DEF RowsInv, RowsTyped
  <2>2. rent' \in [Rent -> {"pending", "paid"}] /\ rentLogs' \in [Rent -> Nat]
        /\ debits' \in [Rent -> Nat]
    BY <1>1, <1>4, InvSplits DEF RowsInv, RowsTyped
  <2>3. credits' \in [Topup \cup Rent -> Nat]
    BY <1>1, <1>4, InvSplits DEF RowsInv, RowsTyped
  <2> QED
    BY <1>4, <2>1, <2>2, <2>3, InvSplits DEF RowsInv, RowsTyped
<1>6. NeverNegative'
  BY <1>2, <1>4, InvSplits DEF RowsInv, NeverNegative
<1>7. TopupBacked'
  BY <1>1, <1>4, InvSplits, ItemAssumption DEF RowsInv, RowsTyped, TopupBacked
<1>8. RentBacked'
  <2> SUFFICES ASSUME NEW q \in Rent, credits'[q] > 0
               PROVE  debits'[q] > 0 \/ q \in captured'
    BY DEF RentBacked
  <2>1. CASE q = p
    BY <1>1, <1>4, <2>1, InvSplits DEF RowsInv, RowsTyped
  <2>2. CASE q # p
    BY <1>4, <2>2, InvSplits DEF RowsInv, RowsTyped, RentBacked
  <2> QED
    BY <2>1, <2>2
<1>9. RefundedIffRejected' /\ \A w \in timers' : withdrawal'[w] = "pending"
  BY <1>4, InvSplits DEF RowsInv, RefundedIffRejected
<1> QED
  BY <1>1, <1>3, <1>5, <1>6, <1>7, <1>8, <1>9, FinishStep DEF RowsInv

LEMMA RentEndsStep ==
    ASSUME WalletInv, NEW a \in Slot, RentRefused(a) \/ Abort(a)
    PROVE  WalletInv'
BY FinishOnlyStep DEF RentRefused, Abort, At, RowsStand

-----------------------------------------------------------------------------
(* Withdrawals.                                                            *)

LEMMA WithdrawReadStep ==
    ASSUME WalletInv, NEW a \in Slot, NEW w \in Withdrawal, WithdrawRead(a, w)
    PROVE  WalletInv'
<1>1. /\ RowsStand /\ job[a].pc = "idle" /\ withdrawal[w] = "none"
      /\ \A b \in Slot : job[b].item # w
      /\ balance[walletOf[w]] >= amountOf[w]
      /\ job' = [job EXCEPT ![a] = ItemJob("withdraw", w, balance[walletOf[w]])]
  BY DEF WithdrawRead, RowsStand, Begin
<1>2. PICK j \in Job : /\ j = ItemJob("withdraw", w, balance[walletOf[w]])
                       /\ j.pc = "withdraw" /\ j.item = w /\ j.bal = balance[walletOf[w]]
  BY Numbers, ItemJobOK DEF Pc, Renting
<1>3. JobKnows(j)
  BY <1>1, <1>2 DEF JobKnows, Crediting, Polling, Renting
<1>4. RowsInv' /\ Grows /\ WithdrawalsStand
  BY <1>1, RowsStandStep
<1>5. job \in [Slot -> Job] /\ job' \in [Slot -> Job] /\ job'[a] = j
      /\ \A b \in Slot \ {a} : job'[b] = job[b]
  BY <1>1, <1>2 DEF WalletInv, TypeOK
<1>6. ASSUME NEW b \in Slot PROVE JobKnows(job[b])'
  <2>1. PICK k \in Job : k = job'[b] /\ JobKnows(k)
    BY <1>3, <1>5, RunningJob
  <2>2. JobKnows(k)'
    BY <1>4, <2>1, KnowledgeStays
  <2> QED
    BY <2>1, <2>2 DEF JobKnows
<1>7. OneJobPerWithdrawal'
  BY <1>1, <1>2, <1>5 DEF WalletInv, OneJobPerWithdrawal
<1>8. PendingHasTimer'
  BY <1>1, <1>2, <1>4, <1>5 DEF WalletInv, PendingHasTimer, Processing, At, WithdrawalsStand
<1> QED
  BY <1>4, <1>5, <1>6, <1>7, <1>8, InvSplitsPrimed DEF JobsInv

\* A job that has a withdrawal to itself writes its status and ends.
LEMMA WithdrawalWritten ==
    ASSUME WalletInv, NEW a \in Slot, NEW w \in Withdrawal, NEW s \in WithdrawalStatus,
           job[a].pc \in {"withdraw", "process"}, job[a].item = w, Finish(a),
           withdrawal' = [withdrawal EXCEPT ![w] = s],
           timers' \ {w} = timers \ {w}, s = "pending" => w \in timers',
           UNCHANGED <<captured, confirmed, crashes>>
    PROVE  JobsInv'
<1>1. job \in [Slot -> Job] /\ job' \in [Slot -> Job] /\ job'[a] = IdleJob
      /\ \A b \in Slot \ {a} : job'[b] = job[b]
  BY IdleJobOK DEF Finish, WalletInv, TypeOK
<1>2. withdrawal \in [Withdrawal -> WithdrawalStatus]
  BY DEF WalletInv, TypeOK, RowsTyped
<1>3. ASSUME NEW b \in Slot \ {a}, job[b].pc \in {"withdraw", "process"}
      PROVE  job[b].item # w
  <2>1. JobKnows(job[a]) /\ JobKnows(job[b])
    BY RunningJob
  <2> QED
    BY <1>3, <2>1 DEF JobKnows, WalletInv, OneJobPerWithdrawal
<1>4. ASSUME NEW b \in Slot PROVE JobKnows(job[b])'
  <2>1. CASE b = a
    <3>1. job'[b].pc = "idle"
      BY <1>1, <2>1, IdleJobOK
    <3> QED
      BY <3>1 DEF JobKnows, Crediting, Polling, Renting
  <2>2. CASE b # a
    <3>1. JobKnows(job[b]) /\ job'[b] = job[b]
      BY <1>1, <2>2, RunningJob
    <3> QED
      BY <1>2, <1>3, <2>2, <3>1 DEF JobKnows
  <2> QED
    BY <2>1, <2>2
<1>5. OneJobPerWithdrawal'
  BY <1>1, IdleJobOK DEF WalletInv, OneJobPerWithdrawal
<1>6. PendingHasTimer'
  <2> SUFFICES ASSUME crashes' = 0, NEW v \in Withdrawal, withdrawal'[v] = "pending",
                      v \notin timers'
               PROVE  Processing(v)'
    BY DEF PendingHasTimer
  <2>1. v # w /\ withdrawal[v] = "pending" /\ v \notin timers
    BY <1>2
  <2>2. PICK b \in Slot : job[b].pc = "process" /\ job[b].item = v
    BY <2>1 DEF WalletInv, PendingHasTimer, Processing, At
  <2>3. job'[b] = job[b]
    BY <1>1, <2>1, <2>2
  <2> QED
    BY <2>2, <2>3 DEF Processing, At
<1> QED
  BY <1>1, <1>4, <1>5, <1>6 DEF JobsInv

LEMMA WithdrawCommitStep ==
    ASSUME WalletInv, NEW a \in Slot, WithdrawCommit(a)
    PROVE  WalletInv'
<1>1. PICK w \in Withdrawal : /\ w = job[a].item /\ withdrawal[w] = "none"
                              /\ job[a].bal \in Nat /\ job[a].bal >= amountOf[w]
  BY RunningJob DEF WithdrawCommit, At, JobKnows, Job
<1>2. job[a].bal - amountOf[w] \in Nat /\ walletOf[w] \in User
  BY <1>1, Numbers
<1>3. /\ balance' = [balance EXCEPT ![walletOf[w]] = job[a].bal - amountOf[w]]
      /\ withdrawal' = [withdrawal EXCEPT ![w] = "pending"]
      /\ timers' = timers \cup {w}
      /\ Finish(a) /\ job[a].pc = "withdraw"
      /\ UNCHANGED <<topup, polls, refunds, charged, rent, rentLogs, credits, debits,
                     captured, confirmed, crashes>>
  BY <1>1 DEF WithdrawCommit, worldVars, At
<1>4. RowsTyped' /\ NeverNegative'
  BY <1>2, <1>3, InvSplits DEF RowsInv, RowsTyped, NeverNegative, WithdrawalStatus
<1>5. TopupBacked' /\ RentBacked'
  BY <1>3, InvSplits DEF RowsInv, TopupBacked, RentBacked
<1>6. RefundedIffRejected' /\ \A v \in timers' : withdrawal'[v] = "pending"
  BY <1>1, <1>3, InvSplits DEF RowsInv, RowsTyped, RefundedIffRejected
<1>7. JobsInv'
  BY <1>1, <1>3, WithdrawalWritten DEF WithdrawalStatus
<1> QED
  BY <1>4, <1>5, <1>6, <1>7, InvSplitsPrimed DEF RowsInv

LEMMA ProcessStartStep ==
    ASSUME WalletInv, NEW a \in Slot, NEW w \in Withdrawal, ProcessStart(a, w)
    PROVE  WalletInv'
<1>1. /\ w \in timers /\ withdrawal[w] = "pending" /\ timers' = timers \ {w}
      /\ job[a].pc = "idle" /\ job' = [job EXCEPT ![a] = ItemJob("process", w, 0)]
      /\ UNCHANGED <<balance, topup, polls, withdrawal, refunds, charged, rent, rentLogs,
                     credits, debits, captured, confirmed, crashes>>
  BY DEF ProcessStart, Begin, rowVars, moneyVars, worldVars
<1>2. PICK j \in Job : j = ItemJob("process", w, 0) /\ j.pc = "process" /\ j.item = w
  BY ItemJobOK DEF Pc, Renting, Item
<1>3. job \in [Slot -> Job] /\ job' \in [Slot -> Job] /\ job'[a] = j
      /\ \A b \in Slot \ {a} : job'[b] = job[b]
  BY <1>1, <1>2 DEF WalletInv, TypeOK
<1>4. RowsInv'
  BY <1>1, InvSplits DEF RowsInv, RowsTyped, NeverNegative, TopupBacked, RentBacked,
     RefundedIffRejected
<1>5. ASSUME NEW b \in Slot PROVE JobKnows(job[b])'
  <2>1. CASE b = a
    BY <1>1, <1>2, <1>3, <2>1 DEF JobKnows, Crediting, Polling, Renting
  <2>2. CASE b # a
    <3>1. JobKnows(job[b]) /\ job'[b] = job[b]
      BY <1>3, <2>2, RunningJob
    <3> QED
      BY <1>1, <3>1 DEF JobKnows
  <2> QED
    BY <2>1, <2>2
<1>6. OneJobPerWithdrawal'
  <2>1. \A b \in Slot \ {a} : job[b].pc = "process" => job[b].item # w
    BY <1>1, RunningJob DEF JobKnows
  <2> QED
    BY <1>2, <1>3, <2>1 DEF WalletInv, OneJobPerWithdrawal
<1>7. PendingHasTimer'
  BY <1>1, <1>2, <1>3 DEF WalletInv, PendingHasTimer, Processing, At
<1> QED
  BY <1>3, <1>4, <1>5, <1>6, <1>7, InvSplitsPrimed DEF JobsInv

LEMMA ProcessEndsStep ==
    ASSUME WalletInv, NEW a \in Slot, ProcessSuccess(a) \/ ProcessRejected(a)
    PROVE  WalletInv'
<1>1. PICK w \in Withdrawal : /\ w = job[a].item /\ withdrawal[w] = "pending"
                              /\ w \notin timers /\ job[a].pc = "process"
  BY RunningJob DEF ProcessSuccess, ProcessRejected, At, JobKnows
<1>2. /\ walletOf[w] \in User /\ amountOf[w] \in Nat /\ balance[walletOf[w]] \in Nat
      /\ refunds[w] = 0
  BY <1>1, Numbers DEF WalletInv, RefundedIffRejected
<1>3. /\ Finish(a)
      /\ UNCHANGED <<topup, polls, charged, rent, rentLogs, credits, debits,
                     captured, confirmed, timers, crashes>>
  BY DEF ProcessSuccess, ProcessRejected, moneyVars, worldVars
<1>4. CASE ProcessSuccess(a)
  <2>1. withdrawal' = [withdrawal EXCEPT ![w] = "success"] /\ UNCHANGED <<refunds, balance>>
    BY <1>1, <1>4 DEF ProcessSuccess, moneyVars
  <2>2. RowsInv'
    BY <1>1, <1>2, <1>3, <2>1, InvSplits DEF RowsInv, RowsTyped, WithdrawalStatus, NeverNegative,
       TopupBacked, RentBacked, RefundedIffRejected
  <2>3. JobsInv'
    BY <1>1, <1>3, <2>1, WithdrawalWritten DEF WithdrawalStatus
  <2> QED
    BY <2>2, <2>3, InvSplitsPrimed
<1>5. CASE ProcessRejected(a)
  <2>1. /\ withdrawal' = [withdrawal EXCEPT ![w] = "rejected"]
        /\ refunds' = [refunds EXCEPT ![w] = @ + 1]
        /\ balance' = [balance EXCEPT ![walletOf[w]] = @ + amountOf[w]]
    BY <1>1, <1>5 DEF ProcessRejected
  <2>2. RowsTyped' /\ NeverNegative'
    BY <1>2, <1>3, <2>1, InvSplits DEF RowsInv, RowsTyped, WithdrawalStatus, NeverNegative
  <2>3. RefundedIffRejected' /\ \A v \in timers' : withdrawal'[v] = "pending"
    BY <1>1, <1>2, <1>3, <2>1, InvSplits DEF RowsInv, RowsTyped, RefundedIffRejected
  <2>4. TopupBacked' /\ RentBacked'
    BY <1>3, InvSplits DEF RowsInv, TopupBacked, RentBacked
  <2>5. JobsInv'
    BY <1>1, <1>3, <2>1, WithdrawalWritten DEF WithdrawalStatus
  <2> QED
    BY <2>2, <2>3, <2>4, <2>5, InvSplitsPrimed DEF RowsInv
<1> QED
  BY <1>4, <1>5

\* The process stops: from then on a withdrawal may be without a timer.
LEMMA CrashStep ==
    ASSUME WalletInv, Crash
    PROVE  WalletInv'
<1>1. /\ crashes < MaxCrash /\ crashes' = crashes + 1 /\ timers' = {}
      /\ job' = [a \in Slot |-> IdleJob]
      /\ UNCHANGED <<balance, topup, polls, withdrawal, refunds, charged, rent, rentLogs,
                     credits, debits, captured, confirmed>>
  BY DEF Crash, rowVars, moneyVars, worldVars
<1>2. RowsInv' /\ crashes' # 0
  BY <1>1, InvSplits, BoundAssumption DEF RowsInv, RowsTyped, NeverNegative, TopupBacked,
     RentBacked, RefundedIffRejected
<1>3. \A a \in Slot : job'[a] = IdleJob /\ job'[a].pc = "idle"
  BY <1>1, IdleJobOK
<1>4. job' \in [Slot -> Job] /\ PendingHasTimer' /\ OneJobPerWithdrawal'
  BY <1>1, <1>2, <1>3, IdleJobOK DEF PendingHasTimer, OneJobPerWithdrawal
<1>5. \A a \in Slot : JobKnows(job[a])'
  BY <1>3 DEF JobKnows, Crediting, Polling, Renting
<1> QED
  BY <1>2, <1>4, <1>5, InvSplitsPrimed DEF JobsInv

-----------------------------------------------------------------------------
(* The theorems.                                                           *)

LEMMA InitEstablishes == Init => WalletInv
<1> SUFFICES ASSUME Init PROVE WalletInv
  OBVIOUS
<1>1. RowsInv
  BY BoundAssumption DEF Init, RowsInv, RowsTyped, TopupStatus, WithdrawalStatus, NeverNegative,
     TopupBacked, RentBacked, RefundedIffRejected
<1>2. \A a \in Slot : job[a] = IdleJob /\ job[a].pc = "idle" /\ JobKnows(job[a])
  BY IdleJobOK DEF Init
<1>3. job \in [Slot -> Job] /\ OneJobPerWithdrawal /\ PendingHasTimer
  BY <1>2, IdleJobOK DEF Init, OneJobPerWithdrawal, PendingHasTimer
<1> QED
  BY <1>1, <1>2, <1>3, InvSplits DEF JobsInv

LEMMA NextPreserves == WalletInv /\ [Next]_vars => WalletInv'
<1> SUFFICES ASSUME WalletInv, [Next]_vars PROVE WalletInv'
  OBVIOUS
<1>1. CASE UNCHANGED vars
  <2>1. RowsStand /\ job' = job
    BY <1>1 DEF vars, RowsStand, rowVars, moneyVars, worldVars
  <2> QED
    BY <2>1, RowsStandStep, WorldStep
<1>2. ASSUME NEW a \in Slot, Arrive(a) PROVE WalletInv'
  BY <1>2, WebhookCheckStep, ConfirmCheckStep, ReconcileFindStep, WithdrawReadStep,
     ProcessStartStep, FeeReadStep, RentArrives DEF Arrive
<1>3. ASSUME NEW a \in Slot, Continue(a) PROVE WalletInv'
  BY <1>3, CreditReadStep, CreditCommitStep, ReconcilePollStep, QueryStep, GiveUpStep,
     WithdrawCommitStep, ProcessEndsStep, FeeCommitStep, RentGoesOn, RentSettleStep,
     RentEndsStep DEF Continue
<1>4. CASE \E t \in Topup : InitiateTopup(t)
  BY <1>4, InitiateStep
<1>5. CASE \E i \in Item : UserPays(i)
  BY <1>5, PaysStep
<1> QED
  BY <1>1, <1>2, <1>3, <1>4, <1>5, CrashStep DEF Next

\* WalletInv holds in every reachable state, for any number of users, items
\* and handlers in flight.
THEOREM WalletInvariant == Spec => []WalletInv
BY InitEstablishes, NextPreserves, PTL DEF Spec

\* Every row and every job keeps the shape its handler gave it.
THEOREM WalletTypeCorrect == Spec => []TypeOK
<1>1. WalletInv => TypeOK
  BY DEF WalletInv
<1> QED
  BY <1>1, WalletInvariant, PTL

\* No interleaving of top-ups, withdrawals, fees and rents, and no crash,
\* leaves a wallet in debt.
THEOREM NoDebt == Spec => []NeverNegative
<1>1. WalletInv => NeverNegative
  BY DEF WalletInv
<1> QED
  BY <1>1, WalletInvariant, PTL

\* A wallet is credited for a top-up only when a gateway has captured it or
\* the call that confirms it was made.
THEOREM TopupsBacked == Spec => []TopupBacked
<1>1. WalletInv => TopupBacked
  BY DEF WalletInv
<1> QED
  BY <1>1, WalletInvariant, PTL

\* The owner is credited for a rent only when somebody paid it.
THEOREM RentsBacked == Spec => []RentBacked
<1>1. WalletInv => RentBacked
  BY DEF WalletInv
<1> QED
  BY <1>1, WalletInvariant, PTL

\* The money of a withdrawal comes back when it is rejected, once, and never
\* when the bank was paid.
THEOREM RefundsExact == Spec => []RefundedIffRejected
<1>1. WalletInv => RefundedIffRejected
  BY DEF WalletInv
<1> QED
  BY <1>1, WalletInvariant, PTL

\* While the process runs, a pending withdrawal has a timer or is processed.
THEOREM WithdrawalsTimed == Spec => []PendingHasTimer
<1>1. WalletInv => PendingHasTimer
  BY DEF WalletInv
<1> QED
  BY <1>1, WalletInvariant, PTL

-----------------------------------------------------------------------------
(* One handler at a time: a top-up is credited once.                       *)

Sole == \A a, b \in Slot : a = b

\* A job on its way to credit a top-up finds it not credited yet.
Uncredited(j) == j.pc \in Crediting \cup Polling => topup[j.item] # "success"

TopupInv ==
    /\ WalletInv
    /\ \A a \in Slot : Uncredited(job[a])
    /\ \A t \in Topup : credits[t] > 0 => topup[t] = "success"
    /\ TopupCreditedOnce

\* What one step may change of that.
TopupStep ==
    /\ \A t \in Topup : \/ /\ credits'[t] = credits[t]
                           /\ topup[t] = "success" => topup'[t] = "success"
                        \/ /\ credits'[t] = credits[t] + 1 /\ topup[t] # "success"
                           /\ topup'[t] = "success"
    /\ \A a \in Slot : Uncredited(job[a])'

LEMMA TopupKept ==
    ASSUME TopupInv, WalletInv', TopupStep
    PROVE  TopupInv'
<1>1. ASSUME NEW t \in Topup
      PROVE  credits'[t] <= 1 /\ (credits'[t] > 0 => topup'[t] = "success")
  <2>1. credits[t] \in Nat /\ credits[t] <= 1 /\ (credits[t] > 0 => topup[t] = "success")
    BY DEF TopupInv, TopupCreditedOnce, WalletInv, TypeOK, RowsTyped
  <2> QED
    BY <2>1 DEF TopupStep
<1> QED
  BY <1>1 DEF TopupInv, TopupStep, TopupCreditedOnce, Uncredited

\* The job of a slot becomes another one.
LEMMA JobBecomes ==
    ASSUME WalletInv, NEW a \in Slot, NEW j, job' = [job EXCEPT ![a] = j]
    PROVE  job'[a] = j
BY DEF WalletInv, TypeOK

LEMMA TopupHolds ==
    ASSUME TopupInv, Sole, UNCHANGED <<credits, topup>>, NEW a \in Slot, NEW j, Uncredited(j),
           job' = [job EXCEPT ![a] = j]
    PROVE  TopupStep
<1>1. job'[a] = j
  BY JobBecomes DEF TopupInv
<1>2. \A b \in Slot : Uncredited(job[b])'
  BY <1>1 DEF Sole, Uncredited
<1> QED
  BY <1>2 DEF TopupStep, Uncredited

LEMMA TopupArrive ==
    ASSUME TopupInv, Sole, NEW a \in Slot, Arrive(a)
    PROVE  TopupStep
<1> USE DEF rowVars, moneyVars, worldVars
<1>1. UNCHANGED <<credits, topup>>
  BY DEF Arrive, WebhookCheck, ConfirmCheck, ReconcileFind, WithdrawRead, ProcessStart,
     FeeRead, RentCheck, RentIpn, RentVnpay
<1>2. CASE \E t \in Topup : WebhookCheck(a, t) \/ ConfirmCheck(a, t) \/ ReconcileFind(a, t)
  <2>1. PICK t \in Topup, l \in Pc : topup[t] # "success" /\ Begin(a, ItemJob(l, t, 0))
    BY <1>2 DEF WebhookCheck, ConfirmCheck, ReconcileFind, Pc
  <2>2. Uncredited(ItemJob(l, t, 0))
    BY <2>1 DEF Uncredited, ItemJob
  <2> QED
    BY <1>1, <2>1, <2>2, TopupHolds DEF Begin
<1>3. CASE \/ \E w \in Withdrawal : WithdrawRead(a, w) \/ ProcessStart(a, w)
           \/ \E f \in Fee : FeeRead(a, f)
           \/ \E p \in Rent : RentCheck(a, p) \/ RentIpn(a, p) \/ RentVnpay(a, p)
  <2>1. PICK j : job' = [job EXCEPT ![a] = j] /\ j.pc \notin Crediting \cup Polling
    BY <1>3 DEF WithdrawRead, ProcessStart, FeeRead, RentCheck, RentIpn, RentVnpay, Begin,
       ItemJob, RentJob, Crediting, Polling
  <2> QED
    BY <1>1, <2>1, TopupHolds DEF Uncredited
<1> QED
  BY <1>2, <1>3 DEF Arrive

LEMMA TopupContinue ==
    ASSUME TopupInv, Sole, NEW a \in Slot, Continue(a)
    PROVE  TopupStep
<1> USE DEF rowVars, moneyVars, worldVars
<1>0. /\ WalletInv /\ JobKnows(job[a]) /\ Uncredited(job[a])
      /\ topup \in [Topup -> TopupStatus] /\ credits \in [Topup \cup Rent -> Nat]
  BY DEF TopupInv, WalletInv, TypeOK, RowsTyped
<1>1. CASE CreditRead(a) \/ ReconcilePoll(a) \/ QueryPaid(a) \/ QueryUnpaid(a) \/ QueryFails(a)
  <2>1. UNCHANGED <<credits, topup>> /\ topup[job[a].item] # "success"
    BY <1>0, <1>1 DEF CreditRead, ReconcilePoll, QueryPaid, QueryUnpaid, QueryFails, At,
       Uncredited, Crediting, Polling
  <2>2. Finish(a) \/ \E l \in Pc : \E n : Become(a, ItemJob(l, job[a].item, n))
    BY <1>1 DEF CreditRead, ReconcilePoll, QueryPaid, QueryUnpaid, QueryFails, Pc
  <2>3. \A l, n : Uncredited(ItemJob(l, job[a].item, n))
    BY <2>1 DEF Uncredited, ItemJob
  <2>4. Uncredited(IdleJob)
    BY IdleJobOK DEF Uncredited, Crediting, Polling
  <2> QED
    BY <2>1, <2>2, <2>3, <2>4, TopupHolds DEF Finish, Become
<1>2. CASE CreditCommit(a)
  <2>1. PICK t \in Topup : t = job[a].item /\ topup[t] # "success"
    BY <1>0, <1>2 DEF CreditCommit, At, JobKnows, Uncredited, Crediting
  <2>2. /\ topup' = [topup EXCEPT ![t] = "success"] /\ credits' = [credits EXCEPT ![t] = @ + 1]
        /\ Finish(a)
    BY <1>2, <2>1 DEF CreditCommit
  <2>3. job'[a].pc = "idle"
    BY <1>0, <2>2, JobBecomes, IdleJobOK DEF Finish
  <2>4. \A b \in Slot : Uncredited(job[b])'
    BY <2>3 DEF Sole, Uncredited, Crediting, Polling
  <2>5. \A s \in Topup : \/ credits'[s] = credits[s] /\ topup'[s] = topup[s]
                         \/ /\ credits'[s] = credits[s] + 1 /\ topup[s] # "success"
                            /\ topup'[s] = "success"
    BY <1>0, <2>1, <2>2
  <2> QED
    BY <2>4, <2>5 DEF TopupStep, Uncredited
<1>3. CASE GiveUp(a)
  <2>1. PICK t \in Topup : t = job[a].item /\ topup[t] # "success"
    BY <1>0, <1>3 DEF GiveUp, At, JobKnows, Uncredited, Polling
  <2>2. topup' = [topup EXCEPT ![t] = "failed"] /\ credits' = credits /\ Finish(a)
    BY <1>3, <2>1 DEF GiveUp
  <2>3. job'[a].pc = "idle"
    BY <1>0, <2>2, JobBecomes, IdleJobOK DEF Finish
  <2>4. \A b \in Slot : Uncredited(job[b])'
    BY <2>3 DEF Sole, Uncredited, Crediting, Polling
  <2>5. \A s \in Topup : topup[s] = "success" => topup'[s] = "success"
    BY <1>0, <2>1, <2>2
  <2> QED
    BY <2>2, <2>4, <2>5 DEF TopupStep, Uncredited
<1>4. CASE RentSettle(a)
  <2>1. PICK p \in Rent : p = job[a].item
    BY <1>0, <1>4 DEF RentSettle, At, JobKnows, Renting
  <2>2. topup' = topup /\ credits' = [credits EXCEPT ![p] = @ + 1] /\ Finish(a)
    BY <1>4, <2>1 DEF RentSettle
  <2>3. job'[a].pc = "idle"
    BY <1>0, <2>2, JobBecomes, IdleJobOK DEF Finish
  <2>4. \A b \in Slot : Uncredited(job[b])'
    BY <2>3 DEF Sole, Uncredited, Crediting, Polling
  <2>5. \A t \in Topup : credits'[t] = credits[t]
    BY <1>0, <2>1, <2>2, ItemAssumption
  <2> QED
    BY <2>2, <2>4, <2>5 DEF TopupStep, Uncredited
<1>5. CASE \/ WithdrawCommit(a) \/ ProcessSuccess(a) \/ ProcessRejected(a) \/ FeeCommit(a)
           \/ RentRead(a) \/ RentRefused(a) \/ RentDebit(a) \/ RentMark(a) \/ RentOwner(a)
           \/ Abort(a)
  <2>1. UNCHANGED <<credits, topup>>
    BY <1>5 DEF WithdrawCommit, ProcessSuccess, ProcessRejected, FeeCommit, RentRead,
       RentRefused, RentDebit, RentMark, RentOwner, Abort
  <2>2. PICK j : job' = [job EXCEPT ![a] = j] /\ j.pc \notin Crediting \cup Polling
    BY <1>5, IdleJobOK DEF WithdrawCommit, ProcessSuccess, ProcessRejected, FeeCommit, RentRead,
       RentRefused, RentDebit, RentMark, RentOwner, Abort, Finish, Become, RentJob, Crediting,
       Polling
  <2> QED
    BY <2>1, <2>2, TopupHolds DEF Uncredited
<1> QED
  BY <1>1, <1>2, <1>3, <1>4, <1>5 DEF Continue

LEMMA TopupNext == Sole /\ TopupInv /\ [Next]_vars => TopupInv'
<1> SUFFICES ASSUME Sole, TopupInv, [Next]_vars PROVE TopupInv'
  OBVIOUS
<1> USE DEF rowVars, moneyVars, worldVars
<1>1. WalletInv'
  BY NextPreserves DEF TopupInv
<1>2. CASE \E a \in Slot : Arrive(a) \/ Continue(a)
  BY <1>1, <1>2, TopupArrive, TopupContinue, TopupKept
<1>3. CASE UNCHANGED vars \/ (\E i \in Item : UserPays(i)) \/ (\E t \in Topup : InitiateTopup(t))
  <2>1. /\ UNCHANGED <<credits, job>>
        /\ \A t \in Topup : topup'[t] = "success" <=> topup[t] = "success"
    BY <1>3 DEF vars, UserPays, InitiateTopup, TopupInv, WalletInv, TypeOK, RowsTyped
  <2>2. \A a \in Slot : Uncredited(job[a])'
    BY <2>1 DEF TopupInv, WalletInv, JobKnows, Uncredited, Crediting, Polling
  <2>3. TopupStep
    BY <2>1, <2>2 DEF TopupStep, Uncredited
  <2> QED
    BY <1>1, <2>3, TopupKept
<1>4. CASE Crash
  <2>1. UNCHANGED <<credits, topup>> /\ \A a \in Slot : job'[a].pc = "idle"
    BY <1>4, IdleJobOK DEF Crash
  <2>2. TopupStep
    BY <2>1 DEF TopupStep, Uncredited, Crediting, Polling
  <2> QED
    BY <1>1, <2>2, TopupKept
<1> QED
  BY <1>2, <1>3, <1>4 DEF Next

LEMMA TopupInit == Init => TopupInv
<1> SUFFICES ASSUME Init PROVE TopupInv
  OBVIOUS
<1>1. WalletInv
  BY InitEstablishes
<1>2. \A a \in Slot : Uncredited(job[a])
  BY IdleJobOK DEF Init, Uncredited, Crediting, Polling
<1> QED
  BY <1>1, <1>2 DEF Init, TopupInv, TopupCreditedOnce

\* With one handler at a time a wallet is credited once for a top-up, however
\* often a gateway notifies it, the user confirms it and the cron looks it up.
THEOREM TopupsCreditedOnce == Sole => (Spec => []TopupCreditedOnce)
<1> SUFFICES ASSUME Sole PROVE Spec => []TopupCreditedOnce
  OBVIOUS
<1>1. TopupInv => TopupCreditedOnce
  BY DEF TopupInv
<1>2. TopupInv /\ [Next]_vars => TopupInv'
  BY TopupNext
<1> QED
  BY <1>1, <1>2, TopupInit, PTL DEF Spec

-----------------------------------------------------------------------------
(* Sums over a finite set.  What holds of a set whenever it holds of the   *)
(* set without any one of its elements holds of every finite set: the      *)
(* least size of a counterexample is the size of no counterexample.        *)

\* The least of a set of numbers.
LEMMA LeastNumber ==
    ASSUME NEW T \in SUBSET Nat, T # {}
    PROVE  \E n \in T : \A m \in T : n <= m
<1>1. PICK n \in T : \A m \in T : ~(<<m, n>> \in OpToRel(<, Nat))
  BY NatLessThanWellFounded, WFMin
<1>2. ASSUME NEW m \in T, m < n PROVE FALSE
  <2>1. <<m, n>> \in OpToRel(<, Nat)
    BY <1>2 DEF OpToRel
  <2> QED
    BY <1>1, <2>1
<1> QED
  BY <1>2

\* What is true of a finite set when it is true of the set less any element.
LEMMA BySize ==
    ASSUME NEW S, IsFiniteSet(S), NEW P \in SUBSET SUBSET S,
           \A T \in SUBSET S : (\A y \in T : T \ {y} \in P) => T \in P
    PROVE  P = SUBSET S
<1> DEFINE Sizes == {Cardinality(T) : T \in (SUBSET S) \ P}
<1>1. \A T \in SUBSET S : IsFiniteSet(T) /\ Cardinality(T) \in Nat
  BY FS_Subset, FS_CardinalityType
<1> SUFFICES ASSUME SUBSET S # P PROVE FALSE
  OBVIOUS
<1>2. Sizes \in SUBSET Nat /\ Sizes # {}
  <2>1. PICK T \in SUBSET S : T \notin P
    OBVIOUS
  <2>2. Cardinality(T) \in Sizes
    BY <2>1
  <2> QED
    BY <1>1, <2>2
<1>3. PICK n \in Sizes : \A m \in Sizes : n <= m
  BY <1>2, LeastNumber
<1>4. PICK T \in SUBSET S : T \notin P /\ n = Cardinality(T)
  BY <1>3
<1>5. PICK y \in T : T \ {y} \notin P
  <2>1. ~(\A y \in T : T \ {y} \in P)
    BY <1>4
  <2> QED
    BY <2>1
<1>6. Cardinality(T \ {y}) = n - 1
  BY <1>1, <1>4, FS_RemoveElement
<1>7. Cardinality(T \ {y}) \in Sizes /\ n \in Nat
  BY <1>2, <1>3, <1>5
<1> HIDE DEF Sizes
<1> QED
  BY <1>3, <1>6, <1>7

\* The community modules sum a function over a set by taking element after
\* element from it; F is the sum of g over every set of D.
Pick(s) == CHOOSE x \in s : TRUE
Sums(F, g, D) == \A s \in D : F[s] = IF s = {} THEN 0 ELSE g[Pick(s)] + F[s \ {Pick(s)}]
Whole(g, S) == \A x \in S : g[x] \in Int

LEMMA PickIn ==
    ASSUME NEW s, s # {} PROVE Pick(s) \in s
BY DEF Pick

LEMMA SumExists ==
    ASSUME NEW S, IsFiniteSet(S), NEW g, Whole(g, S)
    PROVE  \E F \in [SUBSET S -> Int] : Sums(F, g, SUBSET S)
<1> DEFINE UpTo(n) == {s \in SUBSET S : Cardinality(s) <= n}
           Bad == {n \in Nat : ~\E F \in [UpTo(n) -> Int] : Sums(F, g, UpTo(n))}
<1>1. \A T \in SUBSET S : IsFiniteSet(T) /\ Cardinality(T) \in Nat
  BY FS_Subset, FS_CardinalityType
<1>2. ASSUME Bad # {} PROVE FALSE
  <2>1. PICK m \in Bad : \A n \in Bad : m <= n
    BY <1>2, LeastNumber
  <2>2. CASE m = 0
    <3>1. UpTo(m) = {{}}
      BY <1>1, <2>2, FS_EmptySet
    <3> DEFINE F == [s \in {{}} |-> 0]
    <3>2. F \in [UpTo(m) -> Int] /\ Sums(F, g, UpTo(m))
      BY <3>1 DEF Sums
    <3> QED
      BY <2>1, <3>2
  <2>3. CASE m # 0
    <3>1. m - 1 \in Nat /\ m - 1 \notin Bad
      <4>1. m \in Nat
        BY <2>1
      <4> HIDE DEF Bad
      <4> QED
        BY <2>1, <2>3, <4>1
    <3>2. PICK F \in [UpTo(m - 1) -> Int] : Sums(F, g, UpTo(m - 1))
      BY <3>1
    <3> DEFINE G == [s \in UpTo(m) |-> IF s \in UpTo(m - 1) THEN F[s]
                                       ELSE g[Pick(s)] + F[s \ {Pick(s)}]]
    <3>3. ASSUME NEW s \in UpTo(m), s # {}
          PROVE  Pick(s) \in S /\ s \ {Pick(s)} \in UpTo(m - 1)
      <4>1. Pick(s) \in s /\ s \in SUBSET S /\ Cardinality(s) \in Nat /\ Cardinality(s) <= m
        BY <1>1, <3>3, PickIn
      <4>2. Cardinality(s \ {Pick(s)}) = Cardinality(s) - 1
        BY <1>1, <4>1, FS_RemoveElement
      <4> QED
        BY <2>1, <4>1, <4>2
    <3>4. {} \in UpTo(m - 1) /\ UpTo(m - 1) \subseteq UpTo(m)
      BY <1>1, <2>1, <3>1, FS_EmptySet
    <3>5. G \in [UpTo(m) -> Int]
      <4>1. ASSUME NEW s \in UpTo(m) PROVE G[s] \in Int
        <5>1. CASE s \in UpTo(m - 1)
          BY <3>2, <5>1
        <5>2. CASE s \notin UpTo(m - 1)
          <6>1. Pick(s) \in S /\ s \ {Pick(s)} \in UpTo(m - 1)
            BY <3>3, <3>4, <5>2
          <6>2. g[Pick(s)] \in Int /\ F[s \ {Pick(s)}] \in Int
            BY <3>2, <6>1 DEF Whole
          <6> QED
            BY <5>2, <6>2
        <5> QED
          BY <5>1, <5>2
      <4> QED
        BY <4>1
    <3>6. Sums(G, g, UpTo(m))
      <4>1. ASSUME NEW s \in UpTo(m)
            PROVE  G[s] = IF s = {} THEN 0 ELSE g[Pick(s)] + G[s \ {Pick(s)}]
        BY <3>2, <3>3, <3>4 DEF Sums
      <4> QED
        BY <4>1 DEF Sums
    <3> QED
      BY <2>1, <3>5, <3>6
  <2> QED
    BY <2>2, <2>3
<1>3. PICK F \in [UpTo(Cardinality(S)) -> Int] : Sums(F, g, UpTo(Cardinality(S)))
  BY <1>1, <1>2
<1>4. UpTo(Cardinality(S)) = SUBSET S
  BY FS_Subset
<1> QED
  BY <1>3, <1>4

LEMMA SumIs ==
    ASSUME NEW S, IsFiniteSet(S), NEW g, Whole(g, S)
    PROVE  \E F \in [SUBSET S -> Int] : Sums(F, g, SUBSET S) /\ SumFunctionOnSet(g, S) = F[S]
<1> DEFINE Iterates(F) == F = [s \in SUBSET S |-> IF s = {} THEN 0
                                                  ELSE g[Pick(s)] + F[s \ {Pick(s)}]]
           H == CHOOSE F : Iterates(F)
<1>1. PICK F \in [SUBSET S -> Int] : Sums(F, g, SUBSET S)
  BY SumExists
<1>2. Iterates(F)
  BY <1>1 DEF Sums
<1>3. Iterates(H)
  BY <1>2
<1>4. SumFunctionOnSet(g, S) = H[S]
  BY DEF SumFunctionOnSet, FoldFunctionOnSet, MapThenFoldSet, Pick
<1> HIDE DEF H
<1>5. Sums(H, g, SUBSET S)
  BY <1>3 DEF Sums
<1>6. \A s \in SUBSET S : H[s] = F[s]
  <2> DEFINE P == {s \in SUBSET S : H[s] = F[s]}
  <2>1. \A T \in SUBSET S : (\A y \in T : T \ {y} \in P) => T \in P
    BY <1>1, <1>5, PickIn DEF Sums
  <2>2. P \in SUBSET SUBSET S
    OBVIOUS
  <2> HIDE DEF P
  <2>3. P = SUBSET S
    BY <2>1, <2>2, BySize
  <2> QED
    BY <2>3 DEF P
<1> QED
  BY <1>1, <1>4, <1>6

\* Sums over one set of functions that agree on it are equal.
LEMMA SumSame ==
    ASSUME NEW S, IsFiniteSet(S), NEW g, NEW h, Whole(g, S), \A x \in S : h[x] = g[x]
    PROVE  SumFunctionOnSet(h, S) = SumFunctionOnSet(g, S)
<1>1. Whole(h, S)
  BY DEF Whole
<1>2. PICK F : Sums(F, g, SUBSET S) /\ SumFunctionOnSet(g, S) = F[S]
  BY SumIs
<1>3. PICK H : Sums(H, h, SUBSET S) /\ SumFunctionOnSet(h, S) = H[S]
  BY <1>1, SumIs
<1> DEFINE P == {s \in SUBSET S : H[s] = F[s]}
<1>4. \A T \in SUBSET S : (\A y \in T : T \ {y} \in P) => T \in P
  BY <1>2, <1>3, PickIn DEF Sums
<1>5. P \in SUBSET SUBSET S
  OBVIOUS
<1> HIDE DEF P
<1>6. P = SUBSET S
  BY <1>4, <1>5, BySize
<1> QED
  BY <1>2, <1>3, <1>6 DEF P

\* The elements can be taken in any order.
LEMMA AnyOrder ==
    ASSUME NEW S, IsFiniteSet(S), NEW g, Whole(g, S),
           NEW F \in [SUBSET S -> Int], Sums(F, g, SUBSET S)
    PROVE  \A T \in SUBSET S : \A y \in T : F[T] = g[y] + F[T \ {y}]
<1> DEFINE P == {T \in SUBSET S : \A y \in T : F[T] = g[y] + F[T \ {y}]}
<1>1. ASSUME NEW T \in SUBSET S, \A y \in T : T \ {y} \in P, NEW y \in T
      PROVE  F[T] = g[y] + F[T \ {y}]
  <2> DEFINE c == Pick(T)
  <2>1. c \in T /\ F[T] = g[c] + F[T \ {c}]
    BY PickIn DEF Sums
  <2> HIDE DEF c
  <2>2. CASE y = c
    BY <2>1, <2>2
  <2>3. CASE y # c
    <3> DEFINE R == (T \ {c}) \ {y}
    <3>1. F[T \ {c}] = g[y] + F[(T \ {c}) \ {y}]
      BY <1>1, <2>1, <2>3
    <3>2. F[T \ {y}] = g[c] + F[(T \ {y}) \ {c}]
      BY <1>1, <2>1, <2>3
    <3>3. (T \ {y}) \ {c} = R
      OBVIOUS
    <3>4. R \in SUBSET S /\ F[R] \in Int /\ g[c] \in Int /\ g[y] \in Int
      BY <2>1 DEF Whole
    <3>5. F[T \ {c}] = g[y] + F[R] /\ F[T \ {y}] = g[c] + F[R]
      BY <3>1, <3>2, <3>3
    <3> HIDE DEF R
    <3> QED
      BY <2>1, <3>4, <3>5
  <2> QED
    BY <2>2, <2>3
<1>2. \A T \in SUBSET S : (\A y \in T : T \ {y} \in P) => T \in P
  BY <1>1
<1>3. P \in SUBSET SUBSET S
  OBVIOUS
<1> HIDE DEF P
<1>4. P = SUBSET S
  BY <1>2, <1>3, BySize
<1> QED
  BY <1>4 DEF P

\* The sum over nothing is zero; every sum is a number.
LEMMA SumType ==
    ASSUME NEW S, IsFiniteSet(S), NEW g, Whole(g, S)
    PROVE  SumFunctionOnSet(g, S) \in Int /\ (S = {} => SumFunctionOnSet(g, S) = 0)
<1>1. PICK F \in [SUBSET S -> Int] : Sums(F, g, SUBSET S) /\ SumFunctionOnSet(g, S) = F[S]
  BY SumIs
<1> QED
  BY <1>1 DEF Sums

\* One element more adds its value to the sum.
LEMMA SumTakes ==
    ASSUME NEW S, IsFiniteSet(S), NEW g, Whole(g, S), NEW y \in S
    PROVE  SumFunctionOnSet(g, S) = SumFunctionOnSet(g, S \ {y}) + g[y]
<1>1. PICK F \in [SUBSET S -> Int] : Sums(F, g, SUBSET S) /\ SumFunctionOnSet(g, S) = F[S]
  BY SumIs
<1>2. F[S] = g[y] + F[S \ {y}]
  BY <1>1, AnyOrder
<1> DEFINE R == S \ {y}
<1>3. IsFiniteSet(R) /\ Whole(g, R) /\ R \in SUBSET S
  BY FS_Subset DEF Whole
<1> HIDE DEF R
<1>4. PICK G : Sums(G, g, SUBSET R) /\ SumFunctionOnSet(g, R) = G[R]
  BY <1>3, SumIs
<1> DEFINE P == {s \in SUBSET R : G[s] = F[s]}
<1>5. \A T \in SUBSET R : (\A x \in T : T \ {x} \in P) => T \in P
  BY <1>1, <1>3, <1>4, PickIn DEF Sums
<1>6. P \in SUBSET SUBSET R
  OBVIOUS
<1> HIDE DEF P
<1>7. P = SUBSET R
  BY <1>3, <1>5, <1>6, BySize
<1>8. G[R] = F[R] /\ F[R] \in Int /\ g[y] \in Int
  BY <1>3, <1>7 DEF P, Whole
<1> QED
  BY <1>1, <1>2, <1>4, <1>8 DEF R

-----------------------------------------------------------------------------
(* One handler at a time, and no rents: a balance is what its rows say.    *)

LEMMA ItemsFinite ==
    ASSUME NEW S \in SUBSET (Topup \cup Withdrawal \cup Fee), NEW u
    PROVE  IsFiniteSet(Of(u, S)) /\ Whole(amountOf, Of(u, S))
<1>1. Of(u, S) \in SUBSET Item /\ IsFiniteSet(Item) /\ amountOf \in [Item -> Nat \ {0}]
  BY ItemAssumption DEF Of, Item
<1> QED
  BY <1>1, FS_Subset DEF Whole

\* What one row adds to a user's sum.
Share(u, i) == IF walletOf[i] = u THEN amountOf[i] ELSE 0

LEMMA RowAdded ==
    ASSUME NEW S \in SUBSET (Topup \cup Withdrawal \cup Fee), NEW u,
           NEW i \in (Topup \cup Withdrawal \cup Fee) \ S
    PROVE  /\ SumFunctionOnSet(amountOf, Of(u, S \cup {i}))
              = SumFunctionOnSet(amountOf, Of(u, S)) + Share(u, i)
           /\ SumFunctionOnSet(amountOf, Of(u, S)) \in Int
<1>1. SumFunctionOnSet(amountOf, Of(u, S)) \in Int
  BY ItemsFinite, SumType
<1>2. CASE walletOf[i] = u
  <2> DEFINE T == Of(u, S \cup {i})
  <2>1. i \in T /\ T \ {i} = Of(u, S)
    BY <1>2 DEF Of
  <2>2. IsFiniteSet(T) /\ Whole(amountOf, T)
    BY ItemsFinite
  <2> HIDE DEF T
  <2>3. SumFunctionOnSet(amountOf, T) = SumFunctionOnSet(amountOf, T \ {i}) + amountOf[i]
    BY <2>1, <2>2, SumTakes
  <2> QED
    BY <1>1, <1>2, <2>1, <2>3 DEF Share, T
<1>3. CASE walletOf[i] # u
  <2>1. Of(u, S \cup {i}) = Of(u, S)
    BY <1>3 DEF Of
  <2> QED
    BY <1>1, <1>3, <2>1 DEF Share
<1> QED
  BY <1>2, <1>3

\* One refund more.
LEMMA RefundAdded ==
    ASSUME NEW g, NEW h, NEW w \in Withdrawal, NEW u,
           \A x \in Withdrawal : g[x] \in Int,
           \A x \in Withdrawal : h[x] = IF x = w THEN g[x] + amountOf[x] ELSE g[x]
    PROVE  /\ SumFunctionOnSet(h, Of(u, Withdrawal))
              = SumFunctionOnSet(g, Of(u, Withdrawal)) + Share(u, w)
           /\ SumFunctionOnSet(g, Of(u, Withdrawal)) \in Int
<1> DEFINE T == Of(u, Withdrawal)
<1>1. IsFiniteSet(T) /\ T \subseteq Withdrawal /\ amountOf[w] \in Int
  <2>1. Withdrawal \in SUBSET (Topup \cup Withdrawal \cup Fee)
    OBVIOUS
  <2>2. IsFiniteSet(T)
    BY <2>1, ItemsFinite
  <2>3. T \subseteq Withdrawal
    BY DEF Of
  <2>4. amountOf[w] \in Int
    BY ItemAssumption DEF Item
  <2> QED
    BY <2>2, <2>3, <2>4
<1>2. Whole(g, T) /\ Whole(h, T)
  <2>1. \A x \in T : g[x] \in Int /\ h[x] = IF x = w THEN g[x] + amountOf[w] ELSE g[x]
    BY <1>1
  <2> HIDE DEF T
  <2>2. \A x \in T : h[x] \in Int
    BY <1>1, <2>1
  <2> QED
    BY <2>1, <2>2 DEF Whole
<1>3. w \in T <=> walletOf[w] = u
  BY DEF Of
<1> HIDE DEF T
<1>4. SumFunctionOnSet(g, T) \in Int
  BY <1>1, <1>2, SumType
<1>5. CASE walletOf[w] = u
  <2> DEFINE R == T \ {w}
  <2>1. /\ SumFunctionOnSet(g, T) = SumFunctionOnSet(g, R) + g[w]
        /\ SumFunctionOnSet(h, T) = SumFunctionOnSet(h, R) + h[w]
    BY <1>1, <1>2, <1>3, <1>5, SumTakes
  <2>2. IsFiniteSet(R) /\ Whole(g, R) /\ (\A x \in R : h[x] = g[x])
    BY <1>1, <1>2, FS_Subset DEF Whole
  <2> HIDE DEF R
  <2>3. SumFunctionOnSet(h, R) = SumFunctionOnSet(g, R) /\ SumFunctionOnSet(g, R) \in Int
    BY <2>2, SumSame, SumType
  <2>4. h[w] = g[w] + amountOf[w] /\ g[w] \in Int
    OBVIOUS
  <2> QED
    BY <1>1, <1>4, <1>5, <2>1, <2>3, <2>4 DEF Share, T
<1>6. CASE walletOf[w] # u
  <2>1. \A x \in T : h[x] = g[x]
    BY <1>1, <1>3, <1>6
  <2>2. SumFunctionOnSet(h, T) = SumFunctionOnSet(g, T)
    BY <1>1, <1>2, <2>1, SumSame
  <2> QED
    BY <1>4, <1>6, <2>2 DEF Share, T
<1> QED
  BY <1>5, <1>6

\* What the rows say, the rents apart.
Booked(u, won, held, back, paid) ==
    SumFunctionOnSet(amountOf, Of(u, won)) - SumFunctionOnSet(amountOf, Of(u, held))
    + SumFunctionOnSet(back, Of(u, Withdrawal)) - SumFunctionOnSet(amountOf, Of(u, paid))
Books(u) == Booked(u, Won, Withheld, GivenBack, charged)

LEMMA SetsBooked ==
    ASSUME NEW won \in SUBSET Topup, NEW held \in SUBSET Withdrawal, NEW paid \in SUBSET Fee,
           NEW back, \A w \in Withdrawal : back[w] \in Int, NEW u
    PROVE  /\ SumFunctionOnSet(amountOf, Of(u, won)) \in Int
           /\ SumFunctionOnSet(amountOf, Of(u, held)) \in Int
           /\ SumFunctionOnSet(back, Of(u, Withdrawal)) \in Int
           /\ SumFunctionOnSet(amountOf, Of(u, paid)) \in Int
           /\ Booked(u, won, held, back, paid) \in Int
<1>1. /\ SumFunctionOnSet(amountOf, Of(u, won)) \in Int
      /\ SumFunctionOnSet(amountOf, Of(u, held)) \in Int
      /\ SumFunctionOnSet(amountOf, Of(u, paid)) \in Int
  <2>1. ASSUME NEW S \in SUBSET (Topup \cup Withdrawal \cup Fee)
        PROVE  SumFunctionOnSet(amountOf, Of(u, S)) \in Int
    BY ItemsFinite, SumType
  <2> QED
    BY <2>1
<1>2. SumFunctionOnSet(back, Of(u, Withdrawal)) \in Int
  <2>1. Whole(back, Of(u, Withdrawal))
    BY DEF Whole, Of
  <2>2. Withdrawal \in SUBSET (Topup \cup Withdrawal \cup Fee)
    OBVIOUS
  <2>3. IsFiniteSet(Of(u, Withdrawal))
    BY <2>2, ItemsFinite
  <2> QED
    BY <2>1, <2>3, SumType
<1> QED
  BY <1>1, <1>2 DEF Booked

LEMMA NoRentsBooked ==
    ASSUME Rent = {}, NEW g, NEW u, NEW f
    PROVE  SumFunctionOnSet(g, {p \in Rent : f[p] = u}) = 0
<1> DEFINE T == {p \in Rent : f[p] = u}
<1>1. T = {} /\ IsFiniteSet(T) /\ Whole(g, T)
  BY FS_EmptySet DEF Whole
<1> HIDE DEF T
<1>2. SumFunctionOnSet(g, T) = 0
  BY <1>1, SumType
<1> QED
  BY <1>2 DEF T

\* The types of the books, before a step and after it.
LEMMA BooksTyped ==
    ASSUME RowsTyped
    PROVE  /\ Won \in SUBSET Topup /\ Withheld \in SUBSET Withdrawal /\ charged \in SUBSET Fee
           /\ \A w \in Withdrawal : GivenBack[w] \in Int
BY ItemAssumption DEF RowsTyped, Won, Withheld, GivenBack, Item

LEMMA BooksTypedPrimed ==
    ASSUME RowsTyped'
    PROVE  /\ Won' \in SUBSET Topup /\ Withheld' \in SUBSET Withdrawal /\ charged' \in SUBSET Fee
           /\ \A w \in Withdrawal : GivenBack'[w] \in Int
BY ItemAssumption DEF RowsTyped, Won, Withheld, GivenBack, Item

LEMMA LedgerIs ==
    ASSUME RowsTyped, Rent = {}, NEW u
    PROVE  Ledger(u) = Books(u) /\ Books(u) \in Int
<1>1. /\ SumFunctionOnSet(Logged, {p \in Rent : payerOf[p] = u}) = 0
      /\ SumFunctionOnSet(Received, {p \in Rent : ownerOf[p] = u}) = 0
  BY NoRentsBooked
<1>2. /\ SumFunctionOnSet(amountOf, Of(u, Won)) \in Int
      /\ SumFunctionOnSet(amountOf, Of(u, Withheld)) \in Int
      /\ SumFunctionOnSet(GivenBack, Of(u, Withdrawal)) \in Int
      /\ SumFunctionOnSet(amountOf, Of(u, charged)) \in Int
  BY BooksTyped, SetsBooked
<1> QED
  BY <1>1, <1>2 DEF Ledger, Books, Booked

LEMMA LedgerIsPrimed ==
    ASSUME RowsTyped', Rent = {}, NEW u
    PROVE  Ledger(u)' = Booked(u, Won', Withheld', GivenBack', charged')
<1>1. /\ SumFunctionOnSet(Logged', {p \in Rent : payerOf[p] = u}) = 0
      /\ SumFunctionOnSet(Received', {p \in Rent : ownerOf[p] = u}) = 0
  BY NoRentsBooked
<1>2. /\ SumFunctionOnSet(amountOf, Of(u, Won')) \in Int
      /\ SumFunctionOnSet(amountOf, Of(u, Withheld')) \in Int
      /\ SumFunctionOnSet(GivenBack', Of(u, Withdrawal)) \in Int
      /\ SumFunctionOnSet(amountOf, Of(u, charged')) \in Int
  BY BooksTypedPrimed, SetsBooked
<1> QED
  BY <1>1, <1>2 DEF Ledger, Booked

\* What a step may do to the balances and to the rows that count: nothing, or
\* move a balance by the amount of the one row it writes.
BooksStand == UNCHANGED <<Won, Withheld, GivenBack, charged>>
NewRow(i) ==
    \/ /\ i \in Topup \ Won /\ Won' = Won \cup {i}
       /\ UNCHANGED <<Withheld, GivenBack, charged>>
       /\ \A u \in User : balance'[u] = balance[u] + Share(u, i)
    \/ /\ i \in Withdrawal \ Withheld /\ Withheld' = Withheld \cup {i}
       /\ UNCHANGED <<Won, GivenBack, charged>>
       /\ \A u \in User : balance'[u] = balance[u] - Share(u, i)
    \/ /\ i \in Fee \ charged /\ charged' = charged \cup {i}
       /\ UNCHANGED <<Won, Withheld, GivenBack>>
       /\ \A u \in User : balance'[u] = balance[u] - Share(u, i)
    \/ /\ i \in Withdrawal
       /\ \A w \in Withdrawal :
             GivenBack'[w] = IF w = i THEN GivenBack[w] + amountOf[w] ELSE GivenBack[w]
       /\ UNCHANGED <<Won, Withheld, charged>>
       /\ \A u \in User : balance'[u] = balance[u] + Share(u, i)
LedgerStep == (BooksStand /\ UNCHANGED balance) \/ \E i \in Item : NewRow(i)

LEMMA BooksFollow ==
    ASSUME RowsTyped, RowsTyped', Rent = {}, BalanceMatchesLedger, LedgerStep
    PROVE  BalanceMatchesLedger'
<1> SUFFICES ASSUME NEW u \in User PROVE balance'[u] = Ledger(u)'
  BY DEF BalanceMatchesLedger
<1>1. /\ balance[u] = Booked(u, Won, Withheld, GivenBack, charged)
      /\ Ledger(u)' = Booked(u, Won', Withheld', GivenBack', charged')
  BY LedgerIs, LedgerIsPrimed DEF BalanceMatchesLedger, Books
<1>2. CASE BooksStand /\ UNCHANGED balance
  BY <1>1, <1>2 DEF BooksStand
<1>3. ASSUME NEW i \in Item, NewRow(i) PROVE balance'[u] = Ledger(u)'
  <2> DEFINE A == SumFunctionOnSet(amountOf, Of(u, Won))
             B == SumFunctionOnSet(amountOf, Of(u, Withheld))
             C == SumFunctionOnSet(GivenBack, Of(u, Withdrawal))
             D == SumFunctionOnSet(amountOf, Of(u, charged))
  <2>1. A \in Int /\ B \in Int /\ C \in Int /\ D \in Int
    BY BooksTyped, SetsBooked
  <2>2. balance[u] = A - B + C - D
    BY <1>1 DEF Booked
  <2>3. /\ Won \in SUBSET Topup /\ Withheld \in SUBSET Withdrawal /\ charged \in SUBSET Fee
        /\ \A w \in Withdrawal : GivenBack[w] \in Int
    BY BooksTyped
  <2>4. Share(u, i) \in Int
    BY ItemAssumption DEF Share
  <2>5. CASE /\ i \in Topup \ Won /\ Won' = Won \cup {i}
             /\ UNCHANGED <<Withheld, GivenBack, charged>>
             /\ \A v \in User : balance'[v] = balance[v] + Share(v, i)
    <3>1. SumFunctionOnSet(amountOf, Of(u, Won')) = A + Share(u, i)
      BY <2>3, <2>5, RowAdded
    <3>2. Ledger(u)' = (A + Share(u, i)) - B + C - D
      BY <1>1, <2>5, <3>1 DEF Booked
    <3> HIDE DEF A, B, C, D
    <3> QED
      BY <2>1, <2>2, <2>4, <2>5, <3>2
  <2>6. CASE /\ i \in Withdrawal \ Withheld /\ Withheld' = Withheld \cup {i}
             /\ UNCHANGED <<Won, GivenBack, charged>>
             /\ \A v \in User : balance'[v] = balance[v] - Share(v, i)
    <3>1. SumFunctionOnSet(amountOf, Of(u, Withheld')) = B + Share(u, i)
      BY <2>3, <2>6, RowAdded
    <3>2. Ledger(u)' = A - (B + Share(u, i)) + C - D
      BY <1>1, <2>6, <3>1 DEF Booked
    <3> HIDE DEF A, B, C, D
    <3> QED
      BY <2>1, <2>2, <2>4, <2>6, <3>2
  <2>7. CASE /\ i \in Fee \ charged /\ charged' = charged \cup {i}
             /\ UNCHANGED <<Won, Withheld, GivenBack>>
             /\ \A v \in User : balance'[v] = balance[v] - Share(v, i)
    <3>1. SumFunctionOnSet(amountOf, Of(u, charged')) = D + Share(u, i)
      BY <2>3, <2>7, RowAdded
    <3>2. Ledger(u)' = A - B + C - (D + Share(u, i))
      BY <1>1, <2>7, <3>1 DEF Booked
    <3> HIDE DEF A, B, C, D
    <3> QED
      BY <2>1, <2>2, <2>4, <2>7, <3>2
  <2>8. CASE /\ i \in Withdrawal
             /\ \A w \in Withdrawal :
                   GivenBack'[w] = IF w = i THEN GivenBack[w] + amountOf[w] ELSE GivenBack[w]
             /\ UNCHANGED <<Won, Withheld, charged>>
             /\ \A v \in User : balance'[v] = balance[v] + Share(v, i)
    <3>1. SumFunctionOnSet(GivenBack', Of(u, Withdrawal)) = C + Share(u, i)
      BY <2>3, <2>8, RefundAdded
    <3>2. Ledger(u)' = A - B + (C + Share(u, i)) - D
      BY <1>1, <2>8, <3>1 DEF Booked
    <3> HIDE DEF A, B, C, D
    <3> QED
      BY <2>1, <2>2, <2>4, <2>8, <3>2
  <2> QED
    BY <1>3, <2>5, <2>6, <2>7, <2>8 DEF NewRow
<1> QED
  BY <1>2, <1>3 DEF LedgerStep

\* What a job has read of a balance is still what the balance is.
Abreast(j) ==
    /\ j.pc \in {"credit", "withdraw", "fee"} => j.bal = balance[walletOf[j.item]]
    /\ j.pc = "fee" => j.item \notin charged

LedgerInv ==
    /\ TopupInv
    /\ \A a \in Slot : Abreast(job[a])
    /\ BalanceMatchesLedger

\* A job that has read no balance.
Unread(j) == j.pc \notin {"credit", "withdraw", "fee"}

LEMMA FinishedUnread ==
    ASSUME WalletInv, NEW a \in Slot, Finish(a)
    PROVE  Unread(job'[a])
BY JobBecomes, IdleJobOK DEF Finish, Unread

LEMMA LedgerArrive ==
    ASSUME LedgerInv, Sole, Rent = {}, NEW a \in Slot, Arrive(a)
    PROVE  LedgerStep /\ \A b \in Slot : Abreast(job[b])'
<1> USE DEF rowVars, moneyVars, worldVars
<1>0. WalletInv
  BY DEF LedgerInv, TopupInv
<1>1. UNCHANGED <<topup, withdrawal, refunds, charged, balance>>
  BY DEF Arrive, WebhookCheck, ConfirmCheck, ReconcileFind, WithdrawRead, ProcessStart,
     FeeRead, RentCheck, RentIpn, RentVnpay
<1>2. LedgerStep
  BY <1>1 DEF LedgerStep, BooksStand, Won, Withheld, GivenBack
<1>3. PICK j : job' = [job EXCEPT ![a] = j] /\ Abreast(j)
  <2>1. CASE \/ \E t \in Topup : WebhookCheck(a, t) \/ ConfirmCheck(a, t) \/ ReconcileFind(a, t)
             \/ \E w \in Withdrawal : ProcessStart(a, w)
    <3>1. PICK l, i : l \notin {"credit", "withdraw", "fee"} /\ Begin(a, ItemJob(l, i, 0))
      BY <2>1 DEF WebhookCheck, ConfirmCheck, ReconcileFind, ProcessStart
    <3>2. Abreast(ItemJob(l, i, 0))
      BY <3>1 DEF ItemJob, Abreast
    <3> QED
      BY <3>1, <3>2 DEF Begin
  <2>2. ASSUME NEW w \in Withdrawal, WithdrawRead(a, w)
        PROVE  \E j : job' = [job EXCEPT ![a] = j] /\ Abreast(j)
    <3>1. Begin(a, ItemJob("withdraw", w, balance[walletOf[w]]))
      BY <2>2 DEF WithdrawRead
    <3>2. Abreast(ItemJob("withdraw", w, balance[walletOf[w]]))
      BY DEF ItemJob, Abreast
    <3> QED
      BY <3>1, <3>2 DEF Begin
  <2>3. ASSUME NEW f \in Fee, FeeRead(a, f)
        PROVE  \E j : job' = [job EXCEPT ![a] = j] /\ Abreast(j)
    <3>1. f \notin charged /\ Begin(a, ItemJob("fee", f, balance[walletOf[f]]))
      BY <2>3 DEF FeeRead
    <3>2. Abreast(ItemJob("fee", f, balance[walletOf[f]]))
      BY <3>1 DEF ItemJob, Abreast
    <3> QED
      BY <3>1, <3>2 DEF Begin
  <2> QED
    BY <2>1, <2>2, <2>3 DEF Arrive
<1>4. job'[a] = j
  BY <1>0, <1>3, JobBecomes
<1> QED
  BY <1>1, <1>2, <1>3, <1>4 DEF Sole, Abreast

\* A balance that moves by the share of one row.
LEMMA BalanceMoves ==
    ASSUME WalletInv, NEW i \in Topup \cup Withdrawal \cup Fee
    PROVE  /\ amountOf[i] \in Int /\ walletOf[i] \in User
           /\ balance' = [balance EXCEPT ![walletOf[i]] = balance[walletOf[i]] + amountOf[i]]
              => \A u \in User : balance'[u] = balance[u] + Share(u, i)
           /\ balance' = [balance EXCEPT ![walletOf[i]] = balance[walletOf[i]] - amountOf[i]]
              => \A u \in User : balance'[u] = balance[u] - Share(u, i)
<1>1. /\ amountOf[i] \in Int /\ walletOf[i] \in User /\ balance \in [User -> Int]
  BY UserAssumption, ItemAssumption DEF WalletInv, TypeOK, RowsTyped, Item
<1> QED
  BY <1>1 DEF Share

LEMMA LedgerContinue ==
    ASSUME LedgerInv, Sole, Rent = {}, NEW a \in Slot, Continue(a)
    PROVE  LedgerStep /\ \A b \in Slot : Abreast(job[b])'
<1> USE DEF rowVars, moneyVars, worldVars
<1>0. /\ WalletInv /\ RowsTyped /\ JobKnows(job[a]) /\ Uncredited(job[a]) /\ Abreast(job[a])
  BY DEF LedgerInv, TopupInv, WalletInv, TypeOK
<1>1. ASSUME LedgerStep, Unread(job'[a])
      PROVE  LedgerStep /\ \A b \in Slot : Abreast(job[b])'
  BY <1>1 DEF Sole, Unread, Abreast
<1>2. CASE CreditRead(a)
  <2>1. /\ UNCHANGED <<topup, withdrawal, refunds, charged, balance>>
        /\ job' = [job EXCEPT ![a] = ItemJob("credit", job[a].item, balance[walletOf[job[a].item]])]
    BY <1>2 DEF CreditRead, Become
  <2>2. job'[a] = ItemJob("credit", job[a].item, balance[walletOf[job[a].item]])
    BY <1>0, <2>1, JobBecomes
  <2>3. LedgerStep
    BY <2>1 DEF LedgerStep, BooksStand, Won, Withheld, GivenBack
  <2> QED
    BY <2>1, <2>2, <2>3 DEF Sole, Abreast, ItemJob
<1>3. CASE \/ ReconcilePoll(a) \/ QueryPaid(a) \/ QueryUnpaid(a) \/ QueryFails(a) \/ GiveUp(a)
           \/ ProcessSuccess(a)
  <2>1. /\ UNCHANGED <<refunds, charged, balance>>
        /\ Finish(a) \/ \E l, i : l \notin {"credit", "withdraw", "fee"} /\ Become(a, ItemJob(l, i, 0))
    BY <1>3 DEF ReconcilePoll, QueryPaid, QueryUnpaid, QueryFails, GiveUp, ProcessSuccess
  <2>2. Unread(job'[a])
    BY <1>0, <2>1, FinishedUnread, JobBecomes DEF Become, ItemJob, Unread
  <2>3. Won' = Won
    <3>1. CASE GiveUp(a)
      <4>1. PICK t \in Topup : t = job[a].item /\ topup[t] # "success"
        BY <1>0, <3>1 DEF GiveUp, At, JobKnows, Uncredited, Polling
      <4>2. topup' = [topup EXCEPT ![t] = "failed"]
        BY <3>1, <4>1 DEF GiveUp
      <4> QED
        BY <1>0, <4>1, <4>2 DEF Won, RowsTyped
    <3>2. CASE topup' = topup
      BY <3>2 DEF Won
    <3> QED
      BY <1>3, <3>1, <3>2 DEF ReconcilePoll, QueryPaid, QueryUnpaid, QueryFails, ProcessSuccess
  <2>4. Withheld' = Withheld
    <3>1. CASE ProcessSuccess(a)
      <4>1. PICK w \in Withdrawal : w = job[a].item /\ withdrawal[w] = "pending"
        BY <1>0, <3>1 DEF ProcessSuccess, At, JobKnows
      <4>2. withdrawal' = [withdrawal EXCEPT ![w] = "success"]
        BY <3>1, <4>1 DEF ProcessSuccess
      <4> QED
        BY <1>0, <4>1, <4>2 DEF Withheld, RowsTyped
    <3>2. CASE withdrawal' = withdrawal
      BY <3>2 DEF Withheld
    <3> QED
      BY <1>3, <3>1, <3>2 DEF ReconcilePoll, QueryPaid, QueryUnpaid, QueryFails, GiveUp
  <2> QED
    BY <1>1, <2>1, <2>2, <2>3, <2>4 DEF LedgerStep, BooksStand, GivenBack
<1>4. CASE CreditCommit(a)
  <2>1. PICK t \in Topup : /\ t = job[a].item /\ topup[t] # "success"
                           /\ job[a].bal = balance[walletOf[t]]
    BY <1>0, <1>4 DEF CreditCommit, At, JobKnows, Uncredited, Crediting, Abreast
  <2>2. /\ topup' = [topup EXCEPT ![t] = "success"] /\ Finish(a)
        /\ balance' = [balance EXCEPT ![walletOf[t]] = balance[walletOf[t]] + amountOf[t]]
        /\ UNCHANGED <<withdrawal, refunds, charged>>
    BY <1>4, <2>1 DEF CreditCommit
  <2>3. t \in Topup \ Won /\ Won' = Won \cup {t}
    BY <1>0, <2>1, <2>2 DEF Won, RowsTyped
  <2>4. NewRow(t)
    BY <1>0, <2>2, <2>3, BalanceMoves DEF NewRow, Withheld, GivenBack
  <2> QED
    BY <1>0, <1>1, <2>2, <2>4, FinishedUnread DEF LedgerStep, Item
<1>5. CASE WithdrawCommit(a)
  <2>1. PICK w \in Withdrawal : /\ w = job[a].item /\ withdrawal[w] = "none"
                                /\ job[a].bal = balance[walletOf[w]]
    BY <1>0, <1>5 DEF WithdrawCommit, At, JobKnows, Abreast
  <2>2. /\ withdrawal' = [withdrawal EXCEPT ![w] = "pending"] /\ Finish(a)
        /\ balance' = [balance EXCEPT ![walletOf[w]] = balance[walletOf[w]] - amountOf[w]]
        /\ UNCHANGED <<topup, refunds, charged>>
    BY <1>5, <2>1 DEF WithdrawCommit
  <2>3. w \in Withdrawal \ Withheld /\ Withheld' = Withheld \cup {w}
    BY <1>0, <2>1, <2>2 DEF Withheld, RowsTyped
  <2>4. NewRow(w)
    BY <1>0, <2>2, <2>3, BalanceMoves DEF NewRow, Won, GivenBack
  <2> QED
    BY <1>0, <1>1, <2>2, <2>4, FinishedUnread DEF LedgerStep, Item
<1>6. CASE FeeCommit(a)
  <2>1. PICK f \in Fee : f = job[a].item /\ f \notin charged /\ job[a].bal = balance[walletOf[f]]
    BY <1>0, <1>6 DEF FeeCommit, At, JobKnows, Abreast
  <2>2. /\ charged' = charged \cup {f} /\ Finish(a)
        /\ balance' = [balance EXCEPT ![walletOf[f]] = balance[walletOf[f]] - amountOf[f]]
        /\ UNCHANGED <<topup, withdrawal, refunds>>
    BY <1>6, <2>1 DEF FeeCommit
  <2>3. NewRow(f)
    BY <1>0, <2>1, <2>2, BalanceMoves DEF NewRow, Won, Withheld, GivenBack
  <2> QED
    BY <1>0, <1>1, <2>2, <2>3, FinishedUnread DEF LedgerStep, Item
<1>7. CASE ProcessRejected(a)
  <2>1. PICK w \in Withdrawal : w = job[a].item /\ withdrawal[w] = "pending"
    BY <1>0, <1>7 DEF ProcessRejected, At, JobKnows
  <2>2. /\ withdrawal' = [withdrawal EXCEPT ![w] = "rejected"] /\ Finish(a)
        /\ refunds' = [refunds EXCEPT ![w] = @ + 1]
        /\ balance' = [balance EXCEPT ![walletOf[w]] = balance[walletOf[w]] + amountOf[w]]
        /\ UNCHANGED <<topup, charged>>
    BY <1>7, <2>1 DEF ProcessRejected
  <2>3. Withheld' = Withheld
    BY <1>0, <2>1, <2>2 DEF Withheld, RowsTyped
  <2>4. refunds[w] = 0 /\ refunds'[w] = 1 /\ amountOf[w] \in Int
    <3>1. refunds[w] = 0
      BY <1>0, <2>1 DEF WalletInv, RefundedIffRejected
    <3>2. refunds'[w] = refunds[w] + 1
      BY <1>0, <2>2 DEF RowsTyped
    <3>3. amountOf[w] \in Int
      BY <1>0, BalanceMoves
    <3> QED
      BY <3>1, <3>2, <3>3
  <2>5. GivenBack[w] = 0 /\ GivenBack'[w] = amountOf[w]
    BY <2>4 DEF GivenBack
  <2>6. \A x \in Withdrawal \ {w} : GivenBack'[x] = GivenBack[x]
    BY <1>0, <2>2 DEF GivenBack, RowsTyped
  <2>7. \A x \in Withdrawal :
           GivenBack'[x] = IF x = w THEN GivenBack[x] + amountOf[x] ELSE GivenBack[x]
    BY <2>4, <2>5, <2>6
  <2>8. NewRow(w)
    BY <1>0, <2>2, <2>3, <2>7, BalanceMoves DEF NewRow, Won
  <2> QED
    BY <1>0, <1>1, <2>2, <2>8, FinishedUnread DEF LedgerStep, Item
<1>8. CASE \/ RentRead(a) \/ RentRefused(a) \/ RentDebit(a) \/ RentMark(a) \/ RentOwner(a)
           \/ RentSettle(a) \/ Abort(a)
  <2>1. job[a].pc \in Renting
    BY <1>8 DEF RentRead, RentRefused, RentDebit, RentMark, RentOwner, RentSettle, Abort, At,
       Renting
  <2> QED
    BY <1>0, <2>1 DEF JobKnows
<1> QED
  BY <1>2, <1>3, <1>4, <1>5, <1>6, <1>7, <1>8 DEF Continue

LEMMA LedgerNext == Sole /\ Rent = {} /\ LedgerInv /\ [Next]_vars => LedgerInv'
<1> SUFFICES ASSUME Sole, Rent = {}, LedgerInv, [Next]_vars PROVE LedgerInv'
  OBVIOUS
<1> USE DEF rowVars, moneyVars, worldVars
<1>1. TopupInv' /\ RowsTyped /\ RowsTyped' /\ BalanceMatchesLedger
  BY TopupNext DEF LedgerInv, TopupInv, WalletInv, TypeOK
<1>2. LedgerStep /\ \A a \in Slot : Abreast(job[a])'
  <2>1. CASE \E a \in Slot : Arrive(a) \/ Continue(a)
    BY <2>1, LedgerArrive, LedgerContinue
  <2>2. CASE UNCHANGED vars \/ (\E i \in Item : UserPays(i)) \/ (\E t \in Topup : InitiateTopup(t))
    <3>1. UNCHANGED <<balance, withdrawal, refunds, charged, job>>
      BY <2>2 DEF vars, UserPays, InitiateTopup
    <3>2. Won' = Won
      BY <1>1, <2>2 DEF vars, UserPays, InitiateTopup, Won, RowsTyped
    <3>3. \A a \in Slot : Abreast(job[a])'
      BY <3>1 DEF LedgerInv, Abreast
    <3> QED
      BY <3>1, <3>2, <3>3 DEF LedgerStep, BooksStand, Withheld, GivenBack
  <2>3. CASE Crash
    <3>1. UNCHANGED <<balance, topup, withdrawal, refunds, charged>>
          /\ \A a \in Slot : job'[a].pc = "idle"
      BY <2>3, IdleJobOK DEF Crash
    <3>2. \A a \in Slot : Abreast(job[a])'
      BY <3>1 DEF Abreast
    <3> QED
      BY <3>1, <3>2 DEF LedgerStep, BooksStand, Won, Withheld, GivenBack
  <2> QED
    BY <2>1, <2>2, <2>3 DEF Next
<1>3. BalanceMatchesLedger'
  BY <1>1, <1>2, BooksFollow
<1> QED
  BY <1>1, <1>2, <1>3 DEF LedgerInv

\* Nothing given back sums to zero.
LEMMA ZeroSum ==
    ASSUME NEW g, NEW u, \A w \in Withdrawal : g[w] = 0
    PROVE  SumFunctionOnSet(g, Of(u, Withdrawal)) = 0
<1> DEFINE T == Of(u, Withdrawal)
<1>1. IsFiniteSet(T) /\ Whole(g, T) /\ \A w \in T : g[w] = 0
  <2>1. Withdrawal \in SUBSET (Topup \cup Withdrawal \cup Fee)
    OBVIOUS
  <2>2. IsFiniteSet(T)
    BY <2>1, ItemsFinite
  <2>3. \A w \in T : g[w] = 0
    BY DEF Of
  <2> QED
    BY <2>2, <2>3 DEF Whole
<1> HIDE DEF T
<1>2. PICK F \in [SUBSET T -> Int] : Sums(F, g, SUBSET T) /\ SumFunctionOnSet(g, T) = F[T]
  BY <1>1, SumIs
<1> DEFINE P == {s \in SUBSET T : F[s] = 0}
<1>3. ASSUME NEW s \in SUBSET T, \A y \in s : s \ {y} \in P PROVE s \in P
  <2>1. CASE s = {}
    BY <1>2, <2>1 DEF Sums
  <2>2. CASE s # {}
    <3>1. PICK y \in s : F[s] = g[y] + F[s \ {y}]
      BY <1>2, <2>2, PickIn DEF Sums
    <3>2. g[y] = 0 /\ F[s \ {y}] = 0
      BY <1>1, <1>3
    <3> QED
      BY <3>1, <3>2
  <2> QED
    BY <2>1, <2>2
<1>4. P \in SUBSET SUBSET T
  OBVIOUS
<1> HIDE DEF P
<1>5. P = SUBSET T
  BY <1>1, <1>3, <1>4, BySize
<1> QED
  BY <1>2, <1>5 DEF P, T

LEMMA LedgerInit == Rent = {} /\ Init => LedgerInv
<1> SUFFICES ASSUME Rent = {}, Init PROVE LedgerInv
  OBVIOUS
<1>1. TopupInv /\ RowsTyped
  BY TopupInit DEF TopupInv, WalletInv, TypeOK
<1>2. \A a \in Slot : Abreast(job[a])
  BY IdleJobOK DEF Init, Abreast
<1>3. ASSUME NEW u \in User PROVE balance[u] = Ledger(u)
  <2>1. \A w \in Withdrawal : GivenBack[w] = 0
    BY ItemAssumption DEF Init, GivenBack, Item
  <2>2. Of(u, Won) = {} /\ Of(u, Withheld) = {} /\ Of(u, charged) = {}
    BY DEF Init, Won, Withheld, Of
  <2>3. SumFunctionOnSet(amountOf, {}) = 0
    <3>1. IsFiniteSet({}) /\ Whole(amountOf, {})
      BY FS_EmptySet DEF Whole
    <3> QED
      BY <3>1, SumType
  <2>4. SumFunctionOnSet(GivenBack, Of(u, Withdrawal)) = 0
    <3>1. \A w \in Withdrawal : GivenBack[w] \in Int
      BY <2>1
    <3>2. SumFunctionOnSet(GivenBack, Of(u, Withdrawal)) = 0
      BY <2>1, ZeroSum
    <3> QED
      BY <3>2
  <2>5. Ledger(u) = Books(u)
    BY <1>1, LedgerIs
  <2>6. Books(u) = 0
    BY <2>2, <2>3, <2>4 DEF Books, Booked
  <2> QED
    BY <2>5, <2>6 DEF Init
<1> QED
  BY <1>1, <1>2, <1>3 DEF LedgerInv, BalanceMatchesLedger

\* With one handler at a time, and rents apart, a wallet's balance is what its
\* rows of wallet_transactions sum up to.
THEOREM BalancesMatch == Sole /\ Rent = {} => (Spec => []BalanceMatchesLedger)
<1> SUFFICES ASSUME Sole, Rent = {} PROVE Spec => []BalanceMatchesLedger
  OBVIOUS
<1>1. Init => LedgerInv
  BY LedgerInit
<1>2. LedgerInv /\ [Next]_vars => LedgerInv'
  BY LedgerNext
<1>3. LedgerInv => BalanceMatchesLedger
  BY DEF LedgerInv
<1> QED
  BY <1>1, <1>2, <1>3, PTL DEF Spec

=============================================================================
