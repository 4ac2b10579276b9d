------------------------------ MODULE CallsProofs ------------------------------
(***************************************************************************)
(* Nobody is in two active calls, but for those written too late, for any  *)
(* number of users, calls and messages being handled at a time.            *)
(***************************************************************************)
EXTENDS Calls, TLAPS

Row == [status : {"RINGING", "ACCEPTED", "REJECTED", "CANCELED", "ENDED", "MISSED"},
        caller : User, callee : User]

RowsTyped == call \in [Call -> Row \cup {Unused}]

\* The call a handler works on is a row of the table.
Knows(j) ==
    /\ j.op = "invite" => j.caller \in User /\ j.callee \in User
    /\ j.op \in DOMAIN From \cup {"ring"} => j.call \in Call /\ Exists(j.call)

HandlersKnow == DOMAIN handler = Handler /\ \A h \in Handler : Knows(handler[h])

CallsInv == RowsTyped /\ HandlersKnow /\ OneCallPerUser

\* What a handler that changes a call is called, and what it writes.
LEMMA Operations ==
    /\ DOMAIN From = {"accept", "reject", "cancel", "end", "missed"}
    /\ \A op \in DOMAIN From :
        /\ Into[op] \in {"ACCEPTED", "REJECTED", "CANCELED", "ENDED", "MISSED"}
        /\ Into[op] = "ACCEPTED" => op = "accept"
BY DEF From, Into

LEMMA CallsInvInit == Init => CallsInv
BY Operations DEF Init, CallsInv, RowsTyped, HandlersKnow, Knows, OneCallPerUser, Active, Unused, Free

\* A handler begins or ends, the calls as they were.
LEMMA HandlerStep ==
    ASSUME CallsInv, UNCHANGED <<call, late>>, NEW h \in Handler, NEW j,
           handler' = [handler EXCEPT ![h] = j], Knows(j)
    PROVE  CallsInv'
<1>1. RowsTyped' /\ OneCallPerUser'
  BY DEF CallsInv, RowsTyped, OneCallPerUser, Active, Parties
<1>2. HandlersKnow'
  BY DEF CallsInv, HandlersKnow, Knows, Exists
<1> QED
  BY <1>1, <1>2 DEF CallsInv

\* An idle handler knows of no call.
LEMMA FreeKnows == Knows(Free)
BY Operations DEF Knows, Free

\* Every message of a client leaves each user in one active call at most.
LEMMA CallsInvNext == CallsInv /\ [Next]_vars => CallsInv'
<1> SUFFICES ASSUME CallsInv, [Next]_vars PROVE CallsInv'
  OBVIOUS
<1>1. CASE UNCHANGED vars
  BY <1>1 DEF vars, CallsInv, RowsTyped, HandlersKnow, Knows, OneCallPerUser, Exists, Active, Parties
<1>2. ASSUME NEW h \in Handler, NEW u \in User, NEW w \in User, InviteRead(h, u, w) PROVE CallsInv'
  <2>1. Knows([op |-> "invite", caller |-> u, callee |-> w])
    BY Operations DEF Knows
  <2> QED
    BY <1>2, <2>1, HandlerStep DEF InviteRead
<1>3. ASSUME NEW h \in Handler, NEW c \in Call, InviteCreate(h, c) PROVE CallsInv'
  <2> DEFINE b == [status |-> "RINGING", caller |-> handler[h].caller, callee |-> handler[h].callee]
             j == [op |-> "ring", call |-> c]
  <2>1. b \in Row
    BY <1>3 DEF InviteCreate, CallsInv, HandlersKnow, Knows, Row
  <2>2. call' = [call EXCEPT ![c] = b] /\ call'[c] = b /\ \A d \in Call \ {c} : call'[d] = call[d]
    BY <1>3 DEF InviteCreate, CallsInv, RowsTyped
  <2>3. RowsTyped'
    BY <2>1, <2>2 DEF CallsInv, RowsTyped
  <2>4. Exists(c)' /\ \A d \in Call : Exists(d) => Exists(d)'
    BY <2>2 DEF Exists
  <2>5. Knows(j)'
    BY <2>4, Operations DEF Knows
  <2>6. HandlersKnow'
    BY <1>3, <2>4, <2>5 DEF InviteCreate, CallsInv, HandlersKnow, Knows
  <2>7. late \subseteq late' /\ late' \subseteq late \cup {c}
    BY <1>3 DEF InviteCreate
  <2>8. ASSUME NEW d \in Call \ late', d # c, c \notin late', Active(d)'
        PROVE  Parties(c)' \cap Parties(d)' = {}
    <3>1. Active(d) /\ Parties(d)' = Parties(d)
      BY <2>2, <2>8 DEF Active, Parties
    <3>2. ~Busy(handler[h].caller, handler[h].callee)
      BY <1>3, <2>8 DEF InviteCreate
    <3>3. Parties(c)' = {handler[h].caller, handler[h].callee}
      BY <2>2 DEF Parties
    <3> QED
      BY <3>1, <3>2, <3>3 DEF Busy
  <2>9. \A d, e \in Call \ late' :
            d # e /\ d # c /\ e # c /\ Active(d)' /\ Active(e)' => Parties(d)' \cap Parties(e)' = {}
    BY <2>2, <2>7 DEF CallsInv, OneCallPerUser, Active, Parties
  <2>10. OneCallPerUser'
    BY <2>8, <2>9 DEF OneCallPerUser
  <2> QED
    BY <2>3, <2>6, <2>10 DEF CallsInv
<1>4. ASSUME NEW h \in Handler, NEW online \in BOOLEAN, Ring(h, online) PROVE CallsInv'
  <2>1. PICK c \in Call : c = handler[h].call /\ Exists(c)
    BY <1>4 DEF Ring, CallsInv, HandlersKnow, Knows
  <2>2. Knows([op |-> "missed", call |-> c])
    BY <2>1, Operations DEF Knows
  <2> QED
    BY <1>4, <2>1, <2>2, FreeKnows, HandlerStep DEF Ring
<1>5. ASSUME NEW h \in Handler, NEW op \in DOMAIN From, NEW c \in Call, NEW u \in User,
             CallRead(h, op, c, u)
      PROVE  CallsInv'
  <2>1. Knows([op |-> op, call |-> c])
    BY <1>5, Operations DEF CallRead, Knows
  <2> QED
    BY <1>5, <2>1, HandlerStep DEF CallRead
<1>6. ASSUME NEW h \in Handler, CallWrite(h) PROVE CallsInv'
  <2>1. PICK op \in DOMAIN From, c \in Call :
            op = handler[h].op /\ c = handler[h].call /\ Exists(c)
    BY <1>6 DEF CallWrite, CallsInv, HandlersKnow, Knows
  <2>2. /\ call' = [call EXCEPT ![c].status = Into[op]]
        /\ late' = IF op = "accept" /\ ~Active(c) THEN late \cup {c} ELSE late
        /\ handler' = [handler EXCEPT ![h] = Free]
    BY <1>6, <2>1 DEF CallWrite
  <2>3. call[c] \in Row
    BY <2>1 DEF CallsInv, RowsTyped, Exists, Unused
  <2>4. /\ call'[c] \in Row /\ call'[c].status = Into[op]
        /\ call'[c].caller = call[c].caller /\ call'[c].callee = call[c].callee
    BY <2>2, <2>3, Operations DEF CallsInv, RowsTyped, Row
  <2>5. \A d \in Call \ {c} : call'[d] = call[d]
    BY <2>2 DEF CallsInv, RowsTyped
  <2>6. RowsTyped'
    BY <2>2, <2>4, <2>5 DEF CallsInv, RowsTyped
  <2>7. \A d \in Call : Exists(d) => Exists(d)'
    BY <2>4, <2>5 DEF Exists, Row
  <2>8. HandlersKnow'
    BY <2>2, <2>7, FreeKnows DEF CallsInv, HandlersKnow, Knows
  <2>9. late \subseteq late'
    BY <2>2
  <2>10. \A d \in Call \ late' : Active(d)' => Active(d) /\ Parties(d)' = Parties(d)
    BY <2>1, <2>2, <2>4, <2>5, Operations DEF Active, Parties
  <2>11. OneCallPerUser'
    BY <2>9, <2>10 DEF CallsInv, OneCallPerUser
  <2> QED
    BY <2>6, <2>8, <2>11 DEF CallsInv
<1> QED
  BY <1>1, <1>2, <1>3, <1>4, <1>5, <1>6 DEF Next

\* A user is in two active calls only when one of them was inserted, or
\* accepted, after what its handler had read no longer held.
THEOREM CallsExclusive == Spec => []OneCallPerUser
<1>1. CallsInv => OneCallPerUser
  BY DEF CallsInv
<1> QED
  BY <1>1, CallsInvInit, CallsInvNext, PTL DEF Spec
=============================================================================
