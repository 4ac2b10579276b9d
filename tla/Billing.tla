------------------------------- MODULE Billing -------------------------------
(***************************************************************************)
(* The monthly bills of one lease and the cron jobs that write and chase   *)
(* them (contract-service, cronjob.service.ts).  A date is a day number;   *)
(* FirstDay has the first days of the months of the calendar the run looks *)
(* at.  Once a day handleMonthlyPayment creates the rent of the month and  *)
(* its charges five days ahead, on the due day, or afterwards, when it     *)
(* also marks the rent overdue; the life-cycle cron turns a lease that is  *)
(* about to end near_expiration and ends an active one whose rent has been *)
(* overdue for ten days.  Both read rows and write them later, so that     *)
(* payments may arrive in between; a run of a cron may be missed.          *)
(***************************************************************************)
EXTENDS Integers, Sequences, FiniteSets

CONSTANTS
    FirstDay,     \* the first days of the months of the calendar, in order,
                  \* and of the month after the last of them
    DueDays,      \* paymentDueDay of the leases considered
    Starts,       \* the days on which a lease may start
    End,          \* the last day of the lease
    MaxMissed     \* bound: runs of a cron that an outage may swallow

Month == 1..(Len(FirstDay) - 1)
LastMonth == Len(FirstDay) - 1

MonthDays(m) == FirstDay[m + 1] - FirstDay[m]

Day == 1..(FirstDay[Len(FirstDay)] - 1)

CalendarAssumption ==
    /\ FirstDay \in Seq(Nat) /\ Len(FirstDay) > 1 /\ FirstDay[1] = 1
    /\ \A m \in Month : MonthDays(m) \in 28..31
    /\ DueDays \subseteq 1..31
    /\ Starts \subseteq Day /\ End \in Day
    \* the month after the last day of the lease is in the calendar
    /\ End < FirstDay[LastMonth]
    /\ \A s \in Starts : s < End
    /\ MaxMissed \in Nat

VARIABLES
    lease,        \* its start, its due day and how it was signed; fixed
    status,       \* rentalContract.status
    bills,        \* the payment rows: rents and the monthly charges
    today,
    billing,      \* the run of handleMonthlyPayment in progress
    sweep,        \* the run of handleContractLifecycle in progress
    ranToday,     \* which crons have finished a run today
    missed        \* the days on which one of them did not

vars == <<lease, status, bills, today, billing, sweep, ranToday, missed>>

Idle == [at |-> "idle"]

\* Where a run of handleMonthlyPayment is, for which due day and why, and the
\* rent it found with the status it read.
RunAt(at, kind, due, bill, read) ==
    [at |-> at, kind |-> kind, due |-> due, bill |-> bill, read |-> read]

MonthOf(d) == CHOOSE m \in Month : FirstDay[m] <= d /\ d < FirstDay[m + 1]

\* The due day of a month, on its last day when the month is shorter.
DueInMonth(m) ==
    FirstDay[m] - 1 + (IF lease.dueDay > MonthDays(m) THEN MonthDays(m) ELSE lease.dueDay)

\* A first month whose due day lies before the lease is due on its start.
BeforeStart(m) == MonthOf(lease.start) = m /\ DueInMonth(m) < lease.start

\* Mutant: the due date of the month that has passed, instead of the next one.
MonthlyDueDateKept(d) == DueInMonth(MonthOf(d))

MonthlyDueDate(d) ==
    LET m == MonthOf(d) IN
    IF BeforeStart(m) /\ d <= lease.start THEN lease.start
    ELSE IF d > DueInMonth(m) THEN DueInMonth(m + 1)
    ELSE DueInMonth(m)

EffectiveDue(m) == IF BeforeStart(m) THEN lease.start ELSE DueInMonth(m)

\* Mutant: looks for a bill of exactly that date.
FindMonthlyExact(type, due) ==
    {i \in DOMAIN bills : bills[i].type = type /\ bills[i].due = due}

\* The bills of that type in the month of the date.
FindMonthly(type, due) ==
    {i \in DOMAIN bills : bills[i].type = type /\ MonthOf(bills[i].due) = MonthOf(due)}

NewBill(type, due) == [type |-> type, due |-> due, status |-> "pending"]

\* The first rent: signed by hand it is due on the due day of the first
\* month, signed with SmartCA on the first day of the lease.
FirstRentDue(l, dueThisMonth) ==
    IF l.via = "smartca" \/ dueThisMonth < l.start THEN l.start ELSE dueThisMonth

------------------------------------------------------------------------------
\* handleMonthlyPayment takes the contract when it is active and the day lies
\* in the lease, and decides what this day is for it.
MonthlyPayment ==
    /\ "billing" \notin ranToday
    /\ billing.at = "idle"
    /\ LET due  == MonthlyDueDate(today)
           past == EffectiveDue(MonthOf(today))
           step(kind, d) == RunAt("find", kind, d, 0, "none")
       IN  IF ~(status = "active" /\ lease.start <= today /\ today <= End)
           THEN ranToday' = ranToday \cup {"billing"} /\ UNCHANGED billing
           ELSE IF today = due - 5
           THEN billing' = step("before", due) /\ UNCHANGED ranToday
           ELSE IF today = due
           THEN billing' = step("due", due) /\ UNCHANGED ranToday
           ELSE IF today > past
           THEN billing' = step("overdue", past) /\ UNCHANGED ranToday
           ELSE ranToday' = ranToday \cup {"billing"} /\ UNCHANGED billing
    /\ UNCHANGED <<lease, status, bills, today, sweep, missed>>

\* Finds the rent of the month or creates it, and keeps the row it has read.
FindOrCreateRent ==
    /\ billing.at = "find"
    /\ LET found == FindMonthly("rent", billing.due) IN
       IF found # {}
       THEN \E i \in found :
               /\ billing' = RunAt("charges", billing.kind, billing.due, i, bills[i].status)
               /\ UNCHANGED bills
       ELSE /\ bills' = Append(bills, NewBill("rent", billing.due))
            /\ billing' = RunAt("charges", billing.kind, billing.due, Len(bills) + 1, "pending")
    /\ UNCHANGED <<lease, status, today, sweep, ranToday, missed>>

\* ensureMonthlyChargePayments; one charge stands for the management,
\* parking and internet fees, each of which is looked for by itself.
EnsureCharges ==
    /\ billing.at = "charges"
    /\ bills' = IF FindMonthly("charge", billing.due) # {} THEN bills
                ELSE Append(bills, NewBill("charge", billing.due))
    /\ IF billing.kind = "overdue" /\ billing.read = "pending"
       THEN /\ billing' = RunAt("mark", billing.kind, billing.due, billing.bill, billing.read)
            /\ UNCHANGED ranToday
       ELSE billing' = Idle /\ ranToday' = (ranToday \cup {"billing"}) \ {"sweep"}
    /\ UNCHANGED <<lease, status, today, sweep, missed>>

\* Mutant: the rent is reported late and left pending.
MarkOverdueNot ==
    /\ billing.at = "mark"
    /\ billing' = Idle
    /\ ranToday' = (ranToday \cup {"billing"}) \ {"sweep"}
    /\ UNCHANGED <<lease, status, bills, today, sweep, missed>>

\* handleOverdue writes overdue over the rent it read as pending.
MarkOverdue ==
    /\ billing.at = "mark"
    /\ bills' = [bills EXCEPT ![billing.bill].status = "overdue"]
    /\ billing' = Idle
    /\ ranToday' = (ranToday \cup {"billing"}) \ {"sweep"}
    /\ UNCHANGED <<lease, status, today, sweep, missed>>

------------------------------------------------------------------------------
\* handleContractLifecycle, every minute: first near_expiration, five days
\* before the end, then the leases whose rent is ten days overdue are read.
LifecycleRun ==
    /\ sweep.at = "idle"
    /\ LET near == status = "active" /\ today < End /\ End <= today + 5
           late == {i \in DOMAIN bills :
                       /\ bills[i].type = "rent" /\ bills[i].status = "overdue"
                       /\ bills[i].due <= today - 10}
       IN  /\ status' = IF near THEN "near_expiration" ELSE status
           /\ IF status' = "active" /\ late # {}
              THEN sweep' = [at |-> "terminate"] /\ UNCHANGED ranToday
              ELSE sweep' = Idle /\ ranToday' = ranToday \cup {"sweep"}
    /\ UNCHANGED <<lease, bills, today, billing, missed>>

\* autoTerminateContract of a lease found late; it looks at its status only.
TerminateNonPayment ==
    /\ sweep.at = "terminate"
    /\ status' = IF status = "active" THEN "terminated" ELSE status
    /\ sweep' = Idle
    /\ ranToday' = ranToday \cup {"sweep"}
    /\ UNCHANGED <<lease, bills, today, billing, missed>>

------------------------------------------------------------------------------
\* A rent is confirmed paid through one of the payment methods.
PayRent(i) ==
    /\ bills[i].type = "rent"
    /\ bills[i].status \in {"pending", "overdue"}
    /\ bills' = [bills EXCEPT ![i].status = "paid"]
    /\ UNCHANGED <<lease, status, today, billing, sweep, ranToday, missed>>

\* reconcilePendingPayments gives a payment up that was started at a gateway
\* and never answered.
GiveUp(i) ==
    /\ bills[i].type = "rent" /\ bills[i].status = "pending"
    /\ bills' = [bills EXCEPT ![i].status = "overdue"]
    /\ UNCHANGED <<lease, status, today, billing, sweep, ranToday, missed>>

\* The service goes down in the middle of a run, which is not made up for.
Crash ==
    /\ missed < MaxMissed
    /\ billing # Idle \/ sweep # Idle
    /\ missed' = missed + 1
    /\ ranToday' = IF billing # Idle THEN ranToday \cup {"billing"} ELSE ranToday
    /\ billing' = Idle /\ sweep' = Idle
    /\ UNCHANGED <<lease, status, bills, today>>

\* Midnight.  Both crons have run, the sweep after the bills (it runs every
\* minute), or the day was an outage.
NextDay ==
    /\ today < End
    /\ billing = Idle /\ sweep = Idle
    /\ \/ ranToday = {"billing", "sweep"} /\ UNCHANGED missed
       \/ /\ ranToday # {"billing", "sweep"} /\ missed < MaxMissed
          /\ missed' = missed + 1
    /\ today' = today + 1
    /\ ranToday' = {}
    /\ UNCHANGED <<lease, status, bills, billing, sweep>>

------------------------------------------------------------------------------
Leases == [start : Starts, dueDay : DueDays, via : {"hand", "smartca"}]

\* The lease becomes active on its first day, its first rent unpaid.
Init ==
    /\ lease \in Leases
    /\ status = "active"
    /\ bills = << NewBill("rent", FirstRentDue(lease, DueInMonth(MonthOf(lease.start)))) >>
    /\ today = lease.start
    /\ billing = Idle /\ sweep = Idle
    /\ ranToday = {}
    /\ missed = 0

Next ==
    \/ MonthlyPayment \/ FindOrCreateRent \/ EnsureCharges \/ MarkOverdue
    \/ LifecycleRun \/ TerminateNonPayment
    \/ \E i \in DOMAIN bills : PayRent(i) \/ GiveUp(i)
    \/ Crash \/ NextDay

Spec == Init /\ [][Next]_vars

------------------------------------------------------------------------------
\* The days before today of the lease on which a run of the monthly cron deals
\* with the bills of month m: five days ahead, unless another rent is due that
\* day, on the due day and, unless it is the day of the next month's notice,
\* after it.
Chased(m, from, d) ==
    /\ d < End - 5
    /\ \/ /\ from = "notice" /\ d \in {EffectiveDue(m) - 5, EffectiveDue(m)}
          /\ d = EffectiveDue(MonthOf(d)) => MonthOf(d) = m
       \/ d > EffectiveDue(m) /\ MonthOf(d) = m /\ d # DueInMonth(m + 1) - 5

ChasedOn(m, from) == {d \in lease.start..(today - 1) : Chased(m, from, d)}

\* No month is billed twice, whether the first rent was dated by the due day
\* or by the start of the lease, and whichever run created the bill.
OneBillPerMonth ==
    \A i, j \in DOMAIN bills :
        bills[i].type = bills[j].type /\ MonthOf(bills[i].due) = MonthOf(bills[j].due)
            => i = j

\* A month of an active lease is billed, rent and charges, unless the cron
\* has missed every run that would have: one missed run is made up for by
\* the notice, the due day or the days after it.
MonthBilled ==
    status = "active" =>
        \A m \in Month \ {LastMonth} :
            Cardinality(ChasedOn(m, "notice")) > missed
                => FindMonthly("rent", EffectiveDue(m)) # {}
                   /\ FindMonthly("charge", EffectiveDue(m)) # {}

\* A tenant who does not pay loses the lease: an active lease has no rent
\* more than ten days past its due day, once the cron has had a day after
\* the due day, in the same month, to mark it overdue.
UnpaidEndsLease ==
    status = "active" =>
        \A i \in DOMAIN bills :
            LET m == MonthOf(bills[i].due) IN
            /\ bills[i].type = "rent" /\ bills[i].status # "paid"
            /\ Cardinality(ChasedOn(m, "overdue")) > missed
            => today <= EffectiveDue(m) + 10 + missed

\* Violated: only a rent that has not been paid becomes overdue.
PaidRentStands ==
    [][\A i \in DOMAIN bills : bills[i].status = "paid" => bills'[i].status = "paid"]_vars

=============================================================================
