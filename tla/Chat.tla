--------------------------------- MODULE Chat ----------------------------------
(***************************************************************************)
(* A conversation of two users (chat-service, message.service.ts and       *)
(* conversation.service.ts): its messages, and the row that repeats what   *)
(* the list of conversations shows of them.  A message and the counters of *)
(* the row are written in one transaction that adds to the counter;        *)
(* reactions and the flags of the row are read, changed and written back.  *)
(***************************************************************************)
EXTENDS Naturals, Sequences, FiniteSets

CONSTANTS
    User,         \* the two of them
    Other,        \* [User -> User]
    Emoji,
    Handler,      \* requests being handled at the same time
    MaxMessages   \* bound: messages in the conversation

ChatAssumption ==
    /\ Other \in [User -> User] /\ \A u \in User : Other[Other[u]] = u
    /\ MaxMessages \in Nat

VARIABLES
    created,      \* the row is there; user1Id and user2Id are a key
    messages,     \* who sent each message
    unread,       \* unreadCountUser1, unreadCountUser2
    lastSender,   \* lastMessageSender
    hidden,       \* the users who have archived or deleted the conversation
    reactions,    \* of the last message, by user
    readTo,       \* messages there were when each user last read them
    handler

vars == <<created, messages, unread, lastSender, hidden, reactions, readTo, handler>>

Free == [op |-> "none"]
NoEmoji == "none"
NoReactions == [u \in User |-> NoEmoji]

------------------------------------------------------------------------------
\* createConversation looks for the pair, and its insert fails when the other
\* one was quicker: to both, the conversation is there.
CreateConversation ==
    /\ created' = TRUE
    /\ UNCHANGED <<messages, unread, lastSender, hidden, reactions, readTo, handler>>

\* sendMessage reads the conversation ...
SendRead(h, u) ==
    /\ created /\ handler[h] = Free
    /\ Len(messages) < MaxMessages
    /\ handler' = [handler EXCEPT ![h] = [op |-> "send", user |-> u, unread |-> unread[Other[u]]]]
    /\ UNCHANGED <<created, messages, unread, lastSender, hidden, reactions, readTo>>

\* Mutant: writes one more than the count that was read.
SendWriteCount(h) ==
    /\ handler[h].op = "send"
    /\ messages' = Append(messages, handler[h].user)
    /\ unread' = [unread EXCEPT ![Other[handler[h].user]] = handler[h].unread + 1]
    /\ lastSender' = handler[h].user
    /\ reactions' = NoReactions
    /\ handler' = [handler EXCEPT ![h] = Free]
    /\ UNCHANGED <<created, hidden, readTo>>

\* ... and writes the message and the row in one transaction; the counter is
\* incremented by the database.
SendWrite(h) ==
    /\ handler[h].op = "send"
    /\ messages' = Append(messages, handler[h].user)
    /\ unread' = [unread EXCEPT ![Other[handler[h].user]] = @ + 1]
    /\ lastSender' = handler[h].user
    /\ reactions' = NoReactions
    /\ handler' = [handler EXCEPT ![h] = Free]
    /\ UNCHANGED <<created, hidden, readTo>>

\* markAsRead.
MarkAsRead(u) ==
    /\ created
    /\ unread' = [unread EXCEPT ![u] = 0]
    /\ readTo' = [readTo EXCEPT ![u] = Len(messages)]
    /\ UNCHANGED <<created, messages, lastSender, hidden, reactions, handler>>

\* reactMessage reads the reactions; the same emoji takes one's own away ...
ReactRead(h, u, e) ==
    /\ handler[h] = Free /\ messages # <<>>
    /\ handler' = [handler EXCEPT ![h] =
            [op |-> "react", message |-> Len(messages),
             reactions |-> [reactions EXCEPT ![u] = IF @ = e THEN NoEmoji ELSE e]]]
    /\ UNCHANGED <<created, messages, unread, lastSender, hidden, reactions, readTo>>

\* ... and writes them all.  (Those of earlier messages are left out.)
ReactWrite(h) ==
    /\ handler[h].op = "react"
    /\ reactions' = IF handler[h].message = Len(messages) THEN handler[h].reactions ELSE reactions
    /\ handler' = [handler EXCEPT ![h] = Free]
    /\ UNCHANGED <<created, messages, unread, lastSender, hidden, readTo>>

\* toggleArchive and toggleDelete read the flag and write its negation.
ToggleRead(h, u) ==
    /\ created /\ handler[h] = Free
    /\ handler' = [handler EXCEPT ![h] = [op |-> "toggle", user |-> u, hide |-> u \notin hidden]]
    /\ UNCHANGED <<created, messages, unread, lastSender, hidden, reactions, readTo>>

ToggleWrite(h) ==
    /\ handler[h].op = "toggle"
    /\ hidden' = IF handler[h].hide THEN hidden \cup {handler[h].user}
                 ELSE hidden \ {handler[h].user}
    /\ handler' = [handler EXCEPT ![h] = Free]
    /\ UNCHANGED <<created, messages, unread, lastSender, reactions, readTo>>

Init ==
    /\ created = FALSE
    /\ messages = <<>>
    /\ unread = [u \in User |-> 0]
    /\ lastSender = "none"
    /\ hidden = {}
    /\ reactions = NoReactions
    /\ readTo = [u \in User |-> 0]
    /\ handler = [h \in Handler |-> Free]

Next ==
    \/ CreateConversation
    \/ \E u \in User : MarkAsRead(u)
    \/ \E h \in Handler :
        \/ \E u \in User : SendRead(h, u) \/ ToggleRead(h, u)
        \/ \E u \in User, e \in Emoji : ReactRead(h, u, e)
        \/ SendWrite(h) \/ ReactWrite(h) \/ ToggleWrite(h)

Spec == Init /\ [][Next]_vars

------------------------------------------------------------------------------
\* What the list of conversations shows is true of the messages: the unread
\* of a user are the other one's messages since the user last read, and the
\* last sender sent the last of them, whatever requests overlap.
RowMatchesMessages ==
    /\ \A u \in User :
        unread[u] = Cardinality({i \in readTo[u] + 1 .. Len(messages) : messages[i] = Other[u]})
    /\ messages # <<>> => lastSender = messages[Len(messages)]

=============================================================================
