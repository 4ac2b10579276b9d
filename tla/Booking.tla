-------------------------------- MODULE Booking --------------------------------
(***************************************************************************)
(* Visits to the properties of one landlord (estate-service,               *)
(* booking.service.ts).  Every handler reads first and writes by id later, *)
(* with nothing that keeps another handler away in between: a visit is     *)
(* inserted for a time that was free when it was looked at, and confirmed  *)
(* because it was pending then.  reject and complete ask for nothing.      *)
(***************************************************************************)
EXTENDS Integers, FiniteSets

CONSTANTS
    Visit,        \* bound: the visits that can be asked for
    Property,     \* the properties of the landlord
    Tenant,       \* who asks for visits
    Time,         \* the times of a day, as numbers
    Handler       \* requests being handled at the same time

BookingAssumption == Time \subseteq Nat

VARIABLES
    visit,        \* the rows
    handler,      \* what each request has read, and is about to write
    late          \* visits written after what was read had ceased to hold

vars == <<visit, handler, late>>

Free == [op |-> "none"]
Unused == [status |-> "none"]

Exists(v) == visit[v].status # "none"
Open(v) == visit[v].status \in {"pending", "confirmed"}

------------------------------------------------------------------------------
\* Mutant: only visits that start at the same time are taken to overlap, the
\* way getAvailableSlots shows a slot as taken.
OverlapsAtStart(a, b) == a.start = b.start

\* The condition of the query: one starts before the other one ends.
Overlaps(a, b) == a.start < b.end /\ a.end > b.start

\* What createBooking looks for: a visit of the tenant to this property that
\* is open, and an open visit of the landlord at that time.
Clash(b) ==
    \E v \in Visit :
        Open(v) /\ (   (visit[v].tenant = b.tenant /\ visit[v].property = b.property)
                    \/ Overlaps(b, visit[v]))

\* createBooking finds neither ...
CreateRead(h, b) ==
    /\ handler[h] = Free
    /\ b.start < b.end
    /\ ~Clash(b)
    /\ handler' = [handler EXCEPT ![h] = [op |-> "create", asked |-> b]]
    /\ UNCHANGED <<visit, late>>

\* ... and inserts the visit, whatever has been inserted since.
CreateWrite(h, v) ==
    /\ handler[h].op = "create"
    /\ ~Exists(v)
    /\ visit' = [visit EXCEPT ![v] = handler[h].asked]
    /\ late' = IF Clash(handler[h].asked) THEN late \cup {v} ELSE late
    /\ handler' = [handler EXCEPT ![h] = Free]

\* confirmBooking by the landlord and cancelBooking by the tenant read a
\* pending visit ...
PendingRead(h, op, v) ==
    /\ handler[h] = Free
    /\ visit[v].status = "pending"
    /\ handler' = [handler EXCEPT ![h] = [op |-> op, visit |-> v]]
    /\ UNCHANGED <<visit, late>>

\* ... and write the new status by its id.
Confirm(h) ==
    /\ handler[h].op = "confirm"
    /\ visit' = [visit EXCEPT ![handler[h].visit].status = "confirmed"]
    /\ late' = IF Open(handler[h].visit) THEN late ELSE late \cup {handler[h].visit}
    /\ handler' = [handler EXCEPT ![h] = Free]

Cancel(h) ==
    /\ handler[h].op = "cancel"
    /\ visit' = [visit EXCEPT ![handler[h].visit].status = "cancelled"]
    /\ handler' = [handler EXCEPT ![h] = Free]
    /\ UNCHANGED late

\* rejectBooking does not look at the visit, nor at whose it is.
Reject(v) ==
    /\ Exists(v)
    /\ visit' = [visit EXCEPT ![v].status = "cancelled"]
    /\ UNCHANGED <<handler, late>>

\* completeBookingService looks for the landlord's visit and not its status.
Complete(v) ==
    /\ Exists(v)
    /\ visit' = [visit EXCEPT ![v].status = "completed"]
    /\ UNCHANGED <<handler, late>>

Requests ==
    [status : {"pending"}, tenant : Tenant, property : Property, start : Time, end : Time]

Init ==
    /\ visit = [v \in Visit |-> Unused]
    /\ handler = [h \in Handler |-> Free]
    /\ late = {}

Next ==
    \/ \E h \in Handler :
        \/ \E b \in Requests : CreateRead(h, b)
        \/ \E v \in Visit : CreateWrite(h, v)
        \/ \E op \in {"confirm", "cancel"}, v \in Visit : PendingRead(h, op, v)
        \/ Confirm(h) \/ Cancel(h)
    \/ \E v \in Visit : Reject(v) \/ Complete(v)

Spec == Init /\ [][Next]_vars

------------------------------------------------------------------------------
\* The landlord never has two open visits at overlapping times, nor a tenant
\* two to one property, except for visits written when what their handler had
\* read no longer held: rejections and completions, which ask for nothing,
\* cannot bring it about, nor can a confirmation of a visit that is open.
NoDoubleVisit ==
    \A v, w \in Visit \ late :
        (v # w /\ Open(v) /\ Open(w)) =>
            /\ ~(visit[v].start < visit[w].end /\ visit[w].start < visit[v].end)
            /\ visit[v].tenant = visit[w].tenant => visit[v].property # visit[w].property

=============================================================================
