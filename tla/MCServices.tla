------------------------------ MODULE MCServices ------------------------------
\* Two of the three sockets are user a's; a and b have the conversation.
EXTENDS Services

MCUserOf == [s \in {1, 2, 3} |-> IF s = 3 THEN "b" ELSE "a"]
MCOther == [u \in {"a", "b"} |-> IF u = "a" THEN "b" ELSE "a"]
MCAdmins == <<"a1", "a2", "a3">>
\* January to April of a common year; the lease ends in the middle of March.
Calendar == <<1, 32, 60, 91, 121>>

=============================================================================
