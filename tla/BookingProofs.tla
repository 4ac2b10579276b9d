----------------------------- MODULE BookingProofs -----------------------------
(***************************************************************************)
(* A landlord's visits never overlap but for those written too late, for   *)
(* any number of visits, properties, tenants and requests at a time.       *)
(***************************************************************************)
EXTENDS Booking, TLAPS

Row == [status : {"pending", "confirmed", "cancelled", "completed"},
        tenant : Tenant, property : Property, start : Time, end : Time]

\* A row is unused or complete, and what a handler is about to write is known.
RowsTyped == visit \in [Visit -> Row \cup {Unused}]

HandlersKnow ==
    /\ DOMAIN handler = Handler
    /\ \A h \in Handler :
        /\ handler[h].op = "create" => handler[h].asked \in Requests
        /\ handler[h].op \in {"confirm", "cancel"} =>
               handler[h].visit \in Visit /\ Exists(handler[h].visit)

Apart(v, w) ==
    Open(v) /\ Open(w) =>
        /\ ~(visit[v].start < visit[w].end /\ visit[w].start < visit[v].end)
        /\ visit[v].tenant = visit[w].tenant => visit[v].property # visit[w].property

BookingInv == RowsTyped /\ HandlersKnow /\ NoDoubleVisit

\* The shape of the invariant the steps below preserve.
LEMMA ApartEverywhere ==
    NoDoubleVisit <=> \A v, w \in Visit \ late : v # w => Apart(v, w)
BY DEF NoDoubleVisit, Apart

\* A row that exists has all its fields.
LEMMA ExistingRow ==
    ASSUME RowsTyped, NEW v \in Visit, Exists(v)
    PROVE  visit[v] \in Row
BY DEF RowsTyped, Exists, Unused

\* Writing the status of an existing row leaves it a row, and the others alone.
LEMMA StatusWritten ==
    ASSUME BookingInv, NEW v \in Visit, Exists(v),
           NEW s \in {"confirmed", "cancelled", "completed"},
           visit' = [visit EXCEPT ![v].status = s]
    PROVE  /\ RowsTyped'
           /\ \A w \in Visit : Exists(w) => Exists(w)'
           /\ \A w \in Visit : /\ visit'[w].start = visit[w].start
                               /\ visit'[w].end = visit[w].end
                               /\ visit'[w].tenant = visit[w].tenant
                               /\ visit'[w].property = visit[w].property
                               /\ Open(w)' => Open(w) \/ (w = v /\ s = "confirmed")
<1>1. visit[v] \in Row
  BY ExistingRow DEF BookingInv
<1>2. /\ visit'[v] \in Row /\ visit'[v].status = s
      /\ visit'[v].start = visit[v].start /\ visit'[v].end = visit[v].end
      /\ visit'[v].tenant = visit[v].tenant /\ visit'[v].property = visit[v].property
  BY <1>1 DEF BookingInv, RowsTyped, Row
<1>3. \A w \in Visit \ {v} : visit'[w] = visit[w]
  BY DEF BookingInv, RowsTyped
<1>4. RowsTyped'
  BY <1>1, <1>2 DEF BookingInv, RowsTyped
<1> QED
  BY <1>2, <1>3, <1>4 DEF Exists, Open

\* A status written to a visit that was open, or one that closes it, brings
\* no two visits together.
LEMMA StatusKeepsApart ==
    ASSUME BookingInv, NEW v \in Visit, Exists(v),
           NEW s \in {"confirmed", "cancelled", "completed"},
           visit' = [visit EXCEPT ![v].status = s],
           late \subseteq late',
           s = "confirmed" => Open(v) \/ v \in late'
    PROVE  RowsTyped' /\ NoDoubleVisit' /\ \A w \in Visit : Exists(w) => Exists(w)'
<1>1. \A w \in Visit : /\ visit'[w].start = visit[w].start
                        /\ visit'[w].end = visit[w].end
                        /\ visit'[w].tenant = visit[w].tenant
                        /\ visit'[w].property = visit[w].property
                        /\ Open(w)' => Open(w) \/ (w = v /\ s = "confirmed")
  BY StatusWritten
<1>2. \A w \in Visit \ late' : Open(w)' => Open(w)
  BY <1>1
<1>3. ASSUME NEW w \in Visit \ late', NEW x \in Visit \ late', w # x PROVE Apart(w, x)'
  <2>1. Apart(w, x)
    BY <1>3, ApartEverywhere DEF BookingInv
  <2> QED
    BY <1>1, <1>2, <2>1 DEF Apart
<1>4. NoDoubleVisit'
  BY <1>3 DEF NoDoubleVisit, Apart
<1> QED
  BY <1>4, StatusWritten

LEMMA BookingInvInit == Init => BookingInv
BY DEF Init, BookingInv, RowsTyped, HandlersKnow, NoDoubleVisit, Open, Exists, Unused, Free

\* A handler that is done or knows what it has read, with the rows as they were.
LEMMA HandlerStep ==
    ASSUME BookingInv, UNCHANGED <<visit, late>>, NEW h \in Handler, NEW j,
           handler' = [handler EXCEPT ![h] = j],
           j.op = "create" => j.asked \in Requests,
           j.op \in {"confirm", "cancel"} => j.visit \in Visit /\ Exists(j.visit)
    PROVE  BookingInv'
<1>1. RowsTyped' /\ NoDoubleVisit'
  BY DEF BookingInv, RowsTyped, NoDoubleVisit, Open
<1>2. HandlersKnow'
  BY DEF BookingInv, HandlersKnow, Exists
<1> QED
  BY <1>1, <1>2 DEF BookingInv

\* Every step of a handler keeps the invariant.
LEMMA BookingInvNext == BookingAssumption /\ BookingInv /\ [Next]_vars => BookingInv'
<1> SUFFICES ASSUME BookingAssumption, BookingInv, [Next]_vars PROVE BookingInv'
  OBVIOUS
<1>1. CASE UNCHANGED vars
  BY <1>1 DEF vars, BookingInv, RowsTyped, HandlersKnow, NoDoubleVisit, Exists, Open
<1>2. ASSUME NEW h \in Handler, NEW b \in Requests, CreateRead(h, b) PROVE BookingInv'
  <2> DEFINE j == [op |-> "create", asked |-> b]
  <2>1. j.op = "create" /\ j.asked = b
    OBVIOUS
  <2> QED
    BY <1>2, <2>1, HandlerStep DEF CreateRead
<1>3. ASSUME NEW h \in Handler, NEW v \in Visit, CreateWrite(h, v) PROVE BookingInv'
  <2> DEFINE b == handler[h].asked
  <2>1. b \in Requests /\ b \in Row /\ b.status = "pending"
    BY <1>3 DEF CreateWrite, BookingInv, HandlersKnow, Requests, Row
  <2>2. visit' = [visit EXCEPT ![v] = b] /\ visit'[v] = b
        /\ \A w \in Visit \ {v} : visit'[w] = visit[w]
    BY <1>3 DEF CreateWrite, BookingInv, RowsTyped
  <2>3. RowsTyped'
    BY <2>1, <2>2 DEF BookingInv, RowsTyped
  <2>4. HandlersKnow'
    BY <1>3, <2>1, <2>2 DEF CreateWrite, BookingInv, HandlersKnow, Exists, Free
  <2>5. ASSUME NEW w \in Visit \ late', w # v, v \notin late' PROVE Apart(v, w)' /\ Apart(w, v)'
    <3>1. ~Clash(b)
      BY <1>3, <2>5 DEF CreateWrite
    <3>2. CASE ~Open(w)
      BY <2>2, <2>5, <3>2 DEF Apart, Open
    <3>3. CASE Open(w)
      <4>1. visit[w] \in Row
        BY <3>3, ExistingRow DEF BookingInv, Open, Exists
      <4>2. /\ ~(visit[w].tenant = b.tenant /\ visit[w].property = b.property)
            /\ ~(b.start < visit[w].end /\ b.end > visit[w].start)
        BY <3>1, <3>3, <2>5 DEF Clash, Overlaps
      <4>3. b.start \in Nat /\ b.end \in Nat /\ visit[w].start \in Nat /\ visit[w].end \in Nat
        BY <2>1, <4>1 DEF BookingAssumption, Row
      <4>4. ~(b.start < visit[w].end /\ visit[w].start < b.end)
        BY <4>2, <4>3
      <4> QED
        BY <2>2, <2>5, <4>2, <4>4 DEF Apart
    <3> QED
      BY <3>2, <3>3
  <2>6. late \subseteq late' /\ late' \subseteq late \cup {v}
    BY <1>3 DEF CreateWrite
  <2>7. ASSUME NEW w \in Visit \ late', NEW x \in Visit \ late', w # v, x # v, w # x
        PROVE  Apart(w, x)'
    BY <2>2, <2>6, <2>7, ApartEverywhere DEF BookingInv, Apart, Open
  <2>8. \A w, x \in Visit \ late' : w # x => Apart(w, x)'
    BY <2>5, <2>7
  <2>9. NoDoubleVisit'
    BY <2>8 DEF NoDoubleVisit, Apart
  <2> QED
    BY <2>3, <2>4, <2>9 DEF BookingInv
<1>4. ASSUME NEW h \in Handler, NEW op \in {"confirm", "cancel"}, NEW v \in Visit,
             PendingRead(h, op, v)
      PROVE  BookingInv'
  <2> DEFINE j == [op |-> op, visit |-> v]
  <2>1. j.op = op /\ j.visit = v /\ Exists(v)
    BY <1>4 DEF PendingRead, Exists
  <2> QED
    BY <1>4, <2>1, HandlerStep DEF PendingRead
<1>5. ASSUME NEW h \in Handler, Confirm(h) \/ Cancel(h) PROVE BookingInv'
  <2>1. PICK v \in Visit : v = handler[h].visit /\ Exists(v)
    BY <1>5 DEF Confirm, Cancel, BookingInv, HandlersKnow
  <2>2. PICK s \in {"confirmed", "cancelled"} :
            /\ visit' = [visit EXCEPT ![v].status = s]
            /\ s = "confirmed" => Open(v) \/ v \in late'
    BY <1>5, <2>1 DEF Confirm, Cancel
  <2>3. late \subseteq late'
    BY <1>5 DEF Confirm, Cancel
  <2>4. RowsTyped' /\ NoDoubleVisit' /\ \A w \in Visit : Exists(w) => Exists(w)'
    BY <2>1, <2>2, <2>3, StatusKeepsApart
  <2>5. HandlersKnow'
    BY <1>5, <2>4 DEF Confirm, Cancel, BookingInv, HandlersKnow, Free
  <2> QED
    BY <2>4, <2>5 DEF BookingInv
<1>6. ASSUME NEW v \in Visit, Reject(v) \/ Complete(v) PROVE BookingInv'
  <2>1. PICK s \in {"cancelled", "completed"} : visit' = [visit EXCEPT ![v].status = s]
    BY <1>6 DEF Reject, Complete
  <2>2. Exists(v) /\ late' = late /\ handler' = handler
    BY <1>6 DEF Reject, Complete
  <2>3. RowsTyped' /\ NoDoubleVisit' /\ \A w \in Visit : Exists(w) => Exists(w)'
    BY <2>1, <2>2, StatusKeepsApart
  <2>4. HandlersKnow'
    BY <2>2, <2>3 DEF BookingInv, HandlersKnow
  <2> QED
    BY <2>3, <2>4 DEF BookingInv
<1> QED
  BY <1>1, <1>2, <1>3, <1>4, <1>5, <1>6 DEF Next

\* Whatever createBooking, confirm, reject, cancel and complete interleave, two
\* open visits of the landlord overlap only when one was written too late.
THEOREM VisitsApart == BookingAssumption => (Spec => []NoDoubleVisit)
<1> SUFFICES ASSUME BookingAssumption PROVE Spec => []NoDoubleVisit
  OBVIOUS
<1>1. BookingInv => NoDoubleVisit
  BY DEF BookingInv
<1>2. BookingInv /\ [Next]_vars => BookingInv'
  BY BookingInvNext
<1> QED
  BY <1>1, BookingInvInit, <1>2, PTL DEF Spec
=============================================================================
