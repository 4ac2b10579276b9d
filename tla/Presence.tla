------------------------------- MODULE Presence -------------------------------
(***************************************************************************)
(* Who is online (chat-service, chat.gateway.ts).  The gateway keeps, in   *)
(* memory, the sockets of each user; a socket that connects is told who is *)
(* online once its token has been validated, which takes a request to      *)
(* another service, and everybody connected is told of every change.       *)
(* Messages to one socket arrive in the order they were sent.              *)
(***************************************************************************)
EXTENDS Naturals, Sequences

CONSTANTS
    User,
    Socket,       \* bound: connections made
    UserOf,       \* [Socket -> User]: whose token a socket brings
    MaxRestart    \* bound: restarts of the service

PresenceAssumption == UserOf \in [Socket -> User] /\ MaxRestart \in Nat

VARIABLES
    socket,       \* what has become of each connection
    onlineUsers,  \* [User -> SUBSET Socket]; a user without sockets is not in the map
    view,         \* the users each client believes online
    inbox,        \* what is on its way to each client
    restarts

vars == <<socket, onlineUsers, view, inbox, restarts>>

Online == {u \in User : onlineUsers[u] # {}}

\* A broadcast reaches every socket that is connected, validated or not.
Connected == {s \in Socket : socket[s] \in {"validating", "registered"}}

Broadcast(box, kind, u) ==
    [s \in Socket |-> IF s \in Connected THEN Append(box[s], [kind |-> kind, users |-> {u}])
                      ELSE box[s]]

------------------------------------------------------------------------------
\* The socket connects and its token is sent to be validated.
Connect(s) ==
    /\ socket[s] = "new"
    /\ socket' = [socket EXCEPT ![s] = "validating"]
    /\ UNCHANGED <<onlineUsers, view, inbox, restarts>>

Refuse(s) ==
    /\ socket[s] \in {"validating", "left"}
    /\ socket' = [socket EXCEPT ![s] = "closed"]
    /\ UNCHANGED <<onlineUsers, view, inbox, restarts>>

\* Mutant: tells the others of a new user and forgets to send the snapshot.
RegisterWithoutSnapshot(s) ==
    /\ socket[s] \in {"validating", "left"}
    /\ socket' = [socket EXCEPT ![s] = IF @ = "left" THEN "ghost" ELSE "registered"]
    /\ inbox' = IF onlineUsers[UserOf[s]] = {} THEN Broadcast(inbox, "online", UserOf[s])
                ELSE inbox
    /\ onlineUsers' = [onlineUsers EXCEPT ![UserOf[s]] = @ \cup {s}]
    /\ UNCHANGED <<view, restarts>>

\* The token is valid: the client gets the snapshot, then everybody hears of
\* a user who was not online.  A client that has left by now is registered
\* all the same, and nothing takes it off.
Register(s) ==
    /\ socket[s] \in {"validating", "left"}
    /\ socket' = [socket EXCEPT ![s] = IF @ = "left" THEN "ghost" ELSE "registered"]
    /\ LET snapshot == [kind |-> "snapshot", users |-> Online]
           welcomed == IF s \in Connected THEN [inbox EXCEPT ![s] = Append(@, snapshot)]
                       ELSE inbox
       IN  inbox' = IF onlineUsers[UserOf[s]] = {}
                    THEN Broadcast(welcomed, "online", UserOf[s]) ELSE welcomed
    /\ onlineUsers' = [onlineUsers EXCEPT ![UserOf[s]] = @ \cup {s}]
    /\ UNCHANGED <<view, restarts>>

\* handleDisconnect of a socket whose user is known yet, ...
Disconnect(s) ==
    /\ socket[s] = "registered"
    /\ socket' = [socket EXCEPT ![s] = "closed"]
    /\ onlineUsers' = [onlineUsers EXCEPT ![UserOf[s]] = @ \ {s}]
    /\ inbox' = IF onlineUsers[UserOf[s]] = {s}
                THEN [Broadcast(inbox, "offline", UserOf[s]) EXCEPT ![s] = <<>>]
                ELSE [inbox EXCEPT ![s] = <<>>]
    /\ UNCHANGED <<view, restarts>>

\* ... and of one whose token is being validated: it returns.
Leave(s) ==
    /\ socket[s] = "validating"
    /\ socket' = [socket EXCEPT ![s] = "left"]
    /\ inbox' = [inbox EXCEPT ![s] = <<>>]
    /\ UNCHANGED <<onlineUsers, view, restarts>>

\* What the client makes of a message.
Apply(users, message) ==
    CASE message.kind = "snapshot" -> message.users
      [] message.kind = "online"   -> users \cup message.users
      [] message.kind = "offline"  -> users \ message.users

Receive(s) ==
    /\ inbox[s] # <<>>
    /\ view' = [view EXCEPT ![s] = Apply(@, Head(inbox[s]))]
    /\ inbox' = [inbox EXCEPT ![s] = Tail(@)]
    /\ UNCHANGED <<socket, onlineUsers, restarts>>

\* The service restarts with an empty map; clients connect again.
Restart ==
    /\ restarts < MaxRestart
    /\ restarts' = restarts + 1
    /\ onlineUsers' = [u \in User |-> {}]
    /\ socket' = [s \in Socket |->
            IF socket[s] \in {"validating", "registered"} THEN "new"
            ELSE IF socket[s] \in {"left", "ghost"} THEN "closed" ELSE socket[s]]
    /\ view' = [s \in Socket |-> {}]
    /\ inbox' = [s \in Socket |-> <<>>]

Init ==
    /\ socket = [s \in Socket |-> "new"]
    /\ onlineUsers = [u \in User |-> {}]
    /\ view = [s \in Socket |-> {}]
    /\ inbox = [s \in Socket |-> <<>>]
    /\ restarts = 0

Next ==
    \/ \E s \in Socket :
        Connect(s) \/ Refuse(s) \/ Register(s) \/ Disconnect(s) \/ Leave(s) \/ Receive(s)
    \/ Restart

Spec == Init /\ [][Next]_vars

------------------------------------------------------------------------------
\* What a client that believes in users will make of a user once it has
\* received the messages: the last one about the user counts.
About(message, u) == message.kind = "snapshot" \/ u \in message.users

Believes(users, messages, u) ==
    LET news == {i \in 1..Len(messages) : About(messages[i], u)}
    IN  \/ news = {} /\ u \in users
        \/ \E i \in news : /\ \A j \in news : j <= i
                          /\ messages[i].kind # "offline" /\ u \in messages[i].users

\* A client whose token was accepted believes online exactly the users of the
\* gateway's map, once it has received what is on its way, however its
\* validation interleaves with others coming and going; and the map holds the
\* users with a live socket, and those who left while being validated.
ViewsAgree ==
    /\ \A s \in Socket :
        socket[s] = "registered" =>
            \A u \in User : Believes(view[s], inbox[s], u) <=> u \in Online
    /\ Online = {UserOf[s] : s \in {t \in Socket : socket[t] \in {"registered", "ghost"}}}

=============================================================================
