------------------------------- MODULE Listing --------------------------------
(***************************************************************************)
(* One property in the estate service: its approval, its visibility and    *)
(* its paid listing period (property.service.ts and                        *)
(* listing-fee.service.ts).  Handlers read the row, await something and    *)
(* write it by id, several at a time; a timer of the service hides the     *)
(* listings whose period is over.  The wallet is in another service, which *)
(* may have taken the fee when its answer gets lost.                       *)
(***************************************************************************)
EXTENDS Integers, FiniteSets

CONSTANTS
    Handler,      \* requests being handled at the same time
    Trial,        \* freeTrialDays, counted from the day of creation
    Period,       \* durationDays of a paid renewal
    LastDay,      \* bound: days looked at, and renewed
    MaxCrash      \* bound: crashes of the service and lost answers of the wallet

ListingAssumption ==
    Trial \in Nat /\ Period \in Nat \ {0} /\ LastDay \in Nat /\ MaxCrash \in Nat

VARIABLES
    status, approval,
    expires,      \* listingExpiresAt; -1 is null
    expired,      \* isListingExpired
    today,        \* days since the property was created
    handler,      \* what each request in progress has read
    sweep,        \* the run of checkAndExpireListings in progress
    crashes

vars == <<status, approval, expires, expired, today, handler, sweep,
           crashes>>

row == <<status, approval, expires, expired>>

Free == [op |-> "none"]

\* What the public queries ask of a property.
Public == approval = "approved" /\ status = "active"

------------------------------------------------------------------------------
\* updateProperty: an edited property is reviewed again, whatever it was.
UpdateProperty ==
    /\ status' = "pending_approval" /\ approval' = "pending"
    /\ UNCHANGED <<expires, expired, today, handler, sweep, crashes>>

\* approveProperty and batchApproveProperties look at nothing but the id.
ApproveProperty(ok) ==
    /\ approval' = IF ok THEN "approved" ELSE "rejected"
    /\ status' = IF ok THEN "active" ELSE "rejected"
    /\ UNCHANGED <<expires, expired, today, handler, sweep, crashes>>

\* The status a change of visibility or of the contract asks for, when the
\* status that was read allows it.
Target == [show |-> "active", hide |-> "inactive", rent |-> "rented", return |-> "active"]

\* updatePropertyVisibility reads an approved property, active or inactive.
VisibilityRead(h, op) ==
    /\ op \in {"show", "hide"}
    /\ handler[h] = Free
    /\ approval = "approved" /\ status \in {"active", "inactive"}
    /\ status # Target[op]
    /\ handler' = [handler EXCEPT ![h] = [op |-> op]]
    /\ UNCHANGED <<row, today, sweep, crashes>>

\* updatePropertyStatusByContract, told by the contract service.
ContractRead(h, op) ==
    /\ op \in {"rent", "return"}
    /\ handler[h] = Free
    /\ approval = "approved" /\ status \in {"active", "rented", "inactive"}
    /\ status # Target[op]
    /\ handler' = [handler EXCEPT ![h] = [op |-> op]]
    /\ UNCHANGED <<row, today, sweep, crashes>>

StatusWrite(h) ==
    /\ handler[h].op \in DOMAIN Target
    /\ status' = Target[handler[h].op]
    /\ handler' = [handler EXCEPT ![h] = Free]
    /\ UNCHANGED <<approval, expires, expired, today, sweep, crashes>>

------------------------------------------------------------------------------
\* renewListing reads the property, from which it computes the status it will
\* write ...  (Bound: a period that ends after LastDay is not renewed.)
RenewRead(h) ==
    /\ handler[h] = Free
    /\ expires < LastDay
    /\ handler' = [handler EXCEPT ![h] =
            [op      |-> "deduct",
             status  |-> IF status = "inactive" /\ expired THEN "active" ELSE status,
             expires |-> expires]]
    /\ UNCHANGED <<row, today, sweep, crashes>>

\* ... has the contract service take the fee from the wallet, which refuses
\* or whose answer does not arrive in time ...
Deduct(h, answer) ==
    /\ handler[h].op = "deduct"
    /\ answer = "lost" => crashes < MaxCrash
    /\ crashes' = IF answer = "lost" THEN crashes + 1 ELSE crashes
    /\ handler' = [handler EXCEPT ![h] =
            IF answer = "taken" THEN [handler[h] EXCEPT !.op = "renew"] ELSE Free]
    /\ UNCHANGED <<row, today, sweep>>

\* ... and writes the expiry computed from what it read, and the status.
RenewSave(h) ==
    /\ handler[h].op = "renew"
    /\ expires' = (IF handler[h].expires > today THEN handler[h].expires ELSE today) + Period
    /\ expired' = FALSE
    /\ status' = handler[h].status
    /\ handler' = [handler EXCEPT ![h] = Free]
    /\ UNCHANGED <<approval, today, sweep, crashes>>

------------------------------------------------------------------------------
\* checkAndExpireListings, every hour: an active listing without an expiry
\* is given the end of its trial.  The rows are found first.
SweepStart ==
    /\ sweep = "idle"
    /\ sweep' = IF expires = -1 /\ status = "active" THEN "trial" ELSE "find"
    /\ UNCHANGED <<row, today, handler, crashes>>

SetTrialEnd ==
    /\ sweep = "trial"
    /\ expires' = Trial
    /\ sweep' = "find"
    /\ UNCHANGED <<status, approval, expired, today, handler, crashes>>

\* Mutant: leaves a listing a day longer than its period.
FindExpiredLate ==
    /\ sweep = "find"
    /\ sweep' = IF expires # -1 /\ expires < today - 1 /\ ~expired /\ status = "active"
                THEN "hide" ELSE "idle"
    /\ UNCHANGED <<row, today, handler, crashes>>

\* Then the listings whose period is over and that are not marked are found
FindExpired ==
    /\ sweep = "find"
    /\ sweep' = IF expires # -1 /\ expires < today /\ ~expired /\ status = "active"
                THEN "hide" ELSE "idle"
    /\ UNCHANGED <<row, today, handler, crashes>>

\* and each of them is marked and hidden.
HideExpired ==
    /\ sweep = "hide"
    /\ expired' = TRUE /\ status' = "inactive"
    /\ sweep' = "idle"
    /\ UNCHANGED <<approval, expires, today, handler, crashes>>

------------------------------------------------------------------------------
\* The service restarts; what its requests and its timer had read is gone.
Restart ==
    /\ crashes < MaxCrash
    /\ crashes' = crashes + 1
    /\ handler' = [h \in Handler |-> Free]
    /\ sweep' = "idle"
    /\ UNCHANGED <<row, today>>

NextDay ==
    /\ today < LastDay
    /\ today' = today + 1
    /\ UNCHANGED <<row, handler, sweep, crashes>>

\* createProperty, as a draft or submitted.
Init ==
    /\ status \in {"draft", "pending_approval"} /\ approval = "pending"
    /\ expires = -1 /\ expired = FALSE
    /\ today = 0
    /\ handler = [h \in Handler |-> Free]
    /\ sweep = "idle"
    /\ crashes = 0

SweepStep == SweepStart \/ SetTrialEnd \/ FindExpired \/ HideExpired

HandlerStep(h) ==
    \/ \E op \in DOMAIN Target : VisibilityRead(h, op) \/ ContractRead(h, op)
    \/ StatusWrite(h)
    \/ RenewRead(h)
    \/ \E answer \in {"taken", "refused", "lost"} : Deduct(h, answer)
    \/ RenewSave(h)

Next ==
    \/ UpdateProperty
    \/ \E ok \in BOOLEAN : ApproveProperty(ok)
    \/ \E h \in Handler : HandlerStep(h)
    \/ SweepStep \/ Restart \/ NextDay

Spec == Init /\ [][Next]_vars

\* The timer of the service runs on; nobody has to renew, show or approve.
FairSpec == Spec /\ WF_vars(SweepStep)

------------------------------------------------------------------------------
\* A listing whose period is over comes down: it is hidden or renewed, or
\* somebody else takes it off, as long as it is not marked already.  (A
\* marked one that is shown again is never looked at by the timer.)
ExpiredComesDown ==
    (Public /\ expires # -1 /\ expires < today /\ ~expired)
        ~> (~Public \/ expires >= today \/ expired)

=============================================================================
