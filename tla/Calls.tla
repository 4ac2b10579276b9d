--------------------------------- MODULE Calls ---------------------------------
(***************************************************************************)
(* Calls between users (chat-service, call.service.ts and the call:        *)
(* handlers of chat.gateway.ts).  A call is a row; every handler reads it  *)
(* and writes it by id later.  Users come and go (Presence); that touches  *)
(* no call, but one to a user who is not online is missed at once.         *)
(***************************************************************************)
EXTENDS Integers, FiniteSets

CONSTANTS
    User,
    Conversation, \* the pairs of users who have one
    Call,         \* bound: calls made
    Handler       \* messages of the clients being handled at the same time

VARIABLES
    call,         \* the rows
    handler,      \* what each handler has read and is about to do
    late          \* calls made active when somebody in them was busy or they were over

vars == <<call, handler, late>>

Free == [op |-> "none"]
Unused == [status |-> "none"]

Exists(c) == call[c].status # "none"
Active(c) == call[c].status \in {"RINGING", "ACCEPTED"}
Parties(c) == {call[c].caller, call[c].callee}

\* Mutant: looks for the calls they have made, not for those they are called in.
BusyCalling(u, w) == \E c \in Call : Active(c) /\ call[c].caller \in {u, w}

\* ACTIVE_CALL_STATUSES of either of them, in either role.
Busy(u, w) == \E c \in Call : Active(c) /\ Parties(c) \cap {u, w} # {}

\* What the handlers that change a call ask for, who may, and what they write.
From == [accept |-> "RINGING", reject |-> "RINGING", cancel |-> "RINGING",
         end |-> "ACCEPTED", missed |-> "RINGING"]
Into == [accept |-> "ACCEPTED", reject |-> "REJECTED", cancel |-> "CANCELED",
         end |-> "ENDED", missed |-> "MISSED"]
May(op, c) ==
    CASE op \in {"accept", "reject"} -> {call[c].callee}
      [] op = "cancel"               -> {call[c].caller}
      [] op = "end"                  -> Parties(c)

------------------------------------------------------------------------------
\* createCallSession finds the conversation of the two and neither in a call ...
InviteRead(h, u, w) ==
    /\ handler[h] = Free /\ {u, w} \in Conversation /\ u # w
    /\ ~Busy(u, w)
    /\ handler' = [handler EXCEPT ![h] = [op |-> "invite", caller |-> u, callee |-> w]]
    /\ UNCHANGED <<call, late>>

\* ... and inserts one that rings.
InviteCreate(h, c) ==
    /\ handler[h].op = "invite" /\ ~Exists(c)
    /\ call' = [call EXCEPT ![c] = [status |-> "RINGING", caller |-> handler[h].caller,
                                    callee |-> handler[h].callee]]
    /\ late' = IF Busy(handler[h].caller, handler[h].callee) THEN late \cup {c} ELSE late
    /\ handler' = [handler EXCEPT ![h] = [op |-> "ring", call |-> c]]

\* handleCallInvite: the callee is told, or, when not in the gateway's map of
\* who is online, markMissed is called, which reads the call again.
Ring(h, online) ==
    /\ handler[h].op = "ring"
    /\ LET c == handler[h].call
       IN  handler' = [handler EXCEPT ![h] =
                IF online \/ call[c].status # From["missed"]
                THEN Free ELSE [op |-> "missed", call |-> c]]
    /\ UNCHANGED <<call, late>>

\* acceptCall, rejectCall, cancelCall and endCall: the call is read ...
CallRead(h, op, c, u) ==
    /\ handler[h] = Free /\ op \in DOMAIN From \ {"missed"}
    /\ Exists(c)
    /\ u \in May(op, c) /\ call[c].status = From[op]
    /\ handler' = [handler EXCEPT ![h] = [op |-> op, call |-> c]]
    /\ UNCHANGED <<call, late>>

\* ... and written, whatever its status is by now.  (createCallLog sends a
\* message of the conversation for a call that is over, as Chat has it.)
CallWrite(h) ==
    /\ handler[h].op \in DOMAIN From
    /\ LET op == handler[h].op  c == handler[h].call
       IN  /\ call' = [call EXCEPT ![c].status = Into[op]]
           /\ late' = IF op = "accept" /\ ~Active(c) THEN late \cup {c} ELSE late
    /\ handler' = [handler EXCEPT ![h] = Free]

------------------------------------------------------------------------------
Init ==
    /\ call = [c \in Call |-> Unused]
    /\ handler = [h \in Handler |-> Free]
    /\ late = {}

Next ==
    \/ \E h \in Handler :
        \/ \E u, w \in User : InviteRead(h, u, w)
        \/ \E c \in Call : InviteCreate(h, c)
        \/ \E online \in BOOLEAN : Ring(h, online)
        \/ CallWrite(h)
        \/ \E op \in DOMAIN From, c \in Call, u \in User : CallRead(h, op, c, u)

Spec == Init /\ [][Next]_vars

------------------------------------------------------------------------------
\* Nobody is in two active calls, except for a call inserted when one of its
\* two had just got into another, or accepted when it was over by then.
OneCallPerUser ==
    \A c, d \in Call \ late :
        c # d /\ Active(c) /\ Active(d) => Parties(c) \cap Parties(d) = {}

=============================================================================
