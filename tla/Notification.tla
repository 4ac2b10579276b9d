------------------------------ MODULE Notification ------------------------------
(***************************************************************************)
(* Notifications (notification-service).  Events of the other services     *)
(* come out of a queue, which hands them over once and without waiting for *)
(* an answer, so that several are handled at a time; the handler of an     *)
(* event makes a notification for each of its receivers, one after the     *)
(* other.  Of a new property all administrators are told by one shared     *)
(* notification, a row for each of them: who reads it first takes it away  *)
(* from the others.                                                        *)
(***************************************************************************)
EXTENDS Naturals, Sequences, Functions

CONSTANTS
    Admins,       \* the administrators, as the estate service lists them
    Reader,       \* requests to mark as read being handled at the same time
    Event,        \* the events looked at
    MaxCrash      \* bound: restarts of the service

Roles == {"owner", "tenant", "user"}
Admin == Range(Admins)

\* The list has every administrator once.
NotificationAssumption ==
    /\ Admins \in Seq(Admin) /\ IsInjective(Admins)
    /\ Admin \cap Roles = {}
    /\ MaxCrash \in Nat

VARIABLES
    queue,        \* events not delivered yet
    todo,         \* receivers the handler of each event has still to tell
    told,         \* what each receiver has been told
    recipients,   \* the rows of the shared notification, and whether each is read
    shared,       \* the shared notification is in the table
    reader,       \* what each markAsRead has read
    crashes

vars == <<queue, todo, told, recipients, shared, reader, crashes>>

inbox == <<queue, todo, told>>

Receiver == Admin \cup Roles
Free == [op |-> "none"]

------------------------------------------------------------------------------
\* The receivers of each event the controller has a handler for.  An event
\* that goes to one of two parties is listed with the tenant.
RequestEvents ==
    [request_created |-> <<"owner">>, request_reviewed |-> <<"tenant">>,
     holding_deposit_opened |-> <<"tenant">>, holding_deposit_paid |-> <<"tenant", "owner">>,
     holding_deposit_locked |-> <<"tenant">>, holding_deposit_expired |-> <<"owner">>]

ContractEvents ==
    [contract_created |-> <<"tenant">>, contract_sent |-> <<"tenant">>,
     tenant_signed |-> <<"owner">>, owner_signed |-> <<"tenant">>,
     deposit_paid |-> <<"owner", "tenant">>]

PaymentEvents ==
    [payment_reminder |-> <<"tenant">>, payment_due |-> <<"tenant">>,
     payment_warning |-> <<"tenant">>, payment_overdue |-> <<"tenant", "owner">>]

AdminsAndTenant == Admins \o <<"tenant">>

TerminationEvents ==
    [termination_created |-> <<"tenant">>, termination_reviewed |-> <<"tenant">>,
     termination_escalated |-> AdminsAndTenant,
     termination_resolved |-> <<"owner", "tenant">>, termination_negotiating |-> <<"tenant">>]

ReportEvents ==
    [report_created |-> AdminsAndTenant, report_resolved |-> <<"owner", "tenant">>,
     report_cancelled |-> <<"tenant">>]

RenewalEvents ==
    [renewal_request |-> <<"owner">>, renewal_approved |-> <<"tenant">>,
     renewal_rejected |-> <<"tenant">>]

KycEvents ==
    [kyc_submitted |-> Admins, kyc_approved |-> <<"user">>, kyc_rejected |-> <<"user">>]

PropertyEvents ==
    [property_created |-> <<"owner">>, property_approved |-> <<"owner">>,
     property_rejected |-> <<"owner">>]

\* Events without a handler: the end of a lease comes near, a listing
\* expires; nobody is told of them.
Receivers(e) ==
    CASE e \in DOMAIN RequestEvents     -> RequestEvents[e]
      [] e \in DOMAIN ContractEvents    -> ContractEvents[e]
      [] e \in DOMAIN PaymentEvents     -> PaymentEvents[e]
      [] e \in DOMAIN TerminationEvents -> TerminationEvents[e]
      [] e \in DOMAIN ReportEvents      -> ReportEvents[e]
      [] e \in DOMAIN RenewalEvents     -> RenewalEvents[e]
      [] e \in DOMAIN KycEvents         -> KycEvents[e]
      [] e \in DOMAIN PropertyEvents    -> PropertyEvents[e]
      [] OTHER                          -> <<>>

------------------------------------------------------------------------------
\* The queue hands over an event and forgets it, whatever else is being
\* handled.  That of a new property first makes the notification its
\* administrators share.
Deliver(e) ==
    /\ e \in queue
    /\ queue' = queue \ {e}
    /\ todo' = [todo EXCEPT ![e] = Receivers(e)]
    /\ IF e = "property_created" /\ Admin # {}
       THEN shared' = TRUE /\ recipients' = [a \in Admin |-> FALSE]
       ELSE UNCHANGED <<shared, recipients>>
    /\ UNCHANGED <<told, reader, crashes>>

\* Mutant: tells a receiver and, had the push failed, would tell it again.
TellAgain(e) ==
    /\ todo[e] # <<>>
    /\ told' = [told EXCEPT ![Head(todo[e])] = Append(@, e)]
    /\ todo' \in {todo, [todo EXCEPT ![e] = Tail(@)]}
    /\ UNCHANGED <<queue, recipients, shared, reader, crashes>>

\* createNotificationForReceiver.
Tell(e) ==
    /\ todo[e] # <<>>
    /\ told' = [told EXCEPT ![Head(todo[e])] = Append(@, e)]
    /\ todo' = [todo EXCEPT ![e] = Tail(@)]
    /\ UNCHANGED <<queue, recipients, shared, reader, crashes>>

------------------------------------------------------------------------------
\* markAsRead finds the row of the administrator, unread, and then the rows
\* of the others ...
ReadFind(r, a) ==
    /\ reader[r] = Free
    /\ a \in DOMAIN recipients /\ ~recipients[a]
    /\ reader' = [reader EXCEPT ![r] = [op |-> "others", admin |-> a]]
    /\ UNCHANGED <<inbox, recipients, shared, crashes>>

ReadOthers(r) ==
    /\ reader[r].op = "others"
    /\ reader' = [reader EXCEPT ![r] =
            [op |-> "mark", admin |-> @.admin, others |-> DOMAIN recipients \ {@.admin}]]
    /\ UNCHANGED <<inbox, recipients, shared, crashes>>

\* ... marks the row, which fails when another one has removed it ...
ReadMark(r) ==
    /\ reader[r].op = "mark"
    /\ IF reader[r].admin \in DOMAIN recipients
       THEN /\ recipients' = [recipients EXCEPT ![reader[r].admin] = TRUE]
            /\ reader' = [reader EXCEPT ![r] =
                    [op |-> "remove", admin |-> @.admin, others |-> @.others]]
       ELSE /\ reader' = [reader EXCEPT ![r] = Free]
            /\ UNCHANGED recipients
    /\ UNCHANGED <<inbox, shared, crashes>>

\* Mutant: removes the row of one of the others.
ReadRemoveOne(r) ==
    /\ reader[r].op = "remove"
    /\ \E a \in reader[r].others :
        recipients' = [b \in DOMAIN recipients \ {a} |-> recipients[b]]
    /\ reader' = [reader EXCEPT ![r] = [op |-> "done", admin |-> @.admin]]
    /\ UNCHANGED <<inbox, shared, crashes>>

\* ... and removes those of the others.
ReadRemove(r) ==
    /\ reader[r].op = "remove"
    /\ recipients' = [a \in DOMAIN recipients \ reader[r].others |-> recipients[a]]
    /\ reader' = [reader EXCEPT ![r] = [op |-> "done", admin |-> @.admin]]
    /\ UNCHANGED <<inbox, shared, crashes>>

\* deleteReadNotifications removes the row, and then the notification when no
\* row is left.
DeleteRead(a) ==
    /\ a \in DOMAIN recipients /\ recipients[a]
    /\ recipients' = [b \in DOMAIN recipients \ {a} |-> recipients[b]]
    /\ shared' = (DOMAIN recipients # {a})
    /\ UNCHANGED <<inbox, reader, crashes>>

------------------------------------------------------------------------------
\* The service restarts; the events being handled are not delivered again.
Restart ==
    /\ crashes < MaxCrash
    /\ crashes' = crashes + 1
    /\ todo' = [e \in Event |-> <<>>]
    /\ reader' = [r \in Reader |->
            IF reader[r].op = "done" THEN reader[r] ELSE Free]
    /\ UNCHANGED <<queue, told, recipients, shared>>

Init ==
    /\ queue = Event
    /\ todo = [e \in Event |-> <<>>]
    /\ told = [r \in Receiver |-> <<>>]
    /\ recipients = <<>> /\ shared = FALSE
    /\ reader = [r \in Reader |-> Free]
    /\ crashes = 0

Next ==
    \/ \E e \in Event : Deliver(e) \/ Tell(e)
    \/ Restart
    \/ \E r \in Reader :
        \/ \E a \in Admin : ReadFind(r, a)
        \/ ReadOthers(r) \/ ReadMark(r) \/ ReadRemove(r)
    \/ \E a \in Admin : DeleteRead(a)

Spec == Init /\ [][Next]_vars

------------------------------------------------------------------------------
\* Once an administrator has finished reading the shared notification, nobody
\* else has it any more and nobody unread, however many read it at the same
\* time; those who were beaten to it keep nothing.
ReadForAll ==
    (\E r \in Reader : reader[r].op = "done") =>
        /\ \A a \in DOMAIN recipients : recipients[a]
        /\ \A a, b \in DOMAIN recipients : a = b

\* Nobody is told of the same event twice, however many events are handled at
\* a time, a crash of the service in the middle of telling everybody included.
ToldOnce == \A r \in Receiver : IsInjective(told[r])

=============================================================================
