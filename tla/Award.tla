-------------------------------- MODULE Award ---------------------------------
(***************************************************************************)
(* What the competition for a property promises, whatever the payments and *)
(* their handlers go through: the first tenant to win takes the property,  *)
(* and by the same step ends the other tenants' chance of it.              *)
(***************************************************************************)
CONSTANTS
    Request,      \* the requests that compete
    propertyOf    \* the property each of them is for

VARIABLES
    window,       \* requests whose tenants may pay the deposit
    winner,       \* requests that hold their property by a deposit
    leased        \* requests a contract was made from

vars == <<window, winner, leased>>

Rivals(r) == {q \in Request \ {r} : propertyOf[q] = propertyOf[r]}

Init == window = {} /\ winner = {} /\ leased = {}

\* The owner opens the window of some requests for a property.
Open(R) ==
    /\ window' = window \cup R
    /\ winner' = winner \ R
    /\ leased' = leased \ R

\* A deposit is finalised in an open window, with nobody holding the property.
Win(r) ==
    /\ r \in window
    /\ Rivals(r) \cap (winner \cup leased) = {}
    /\ window' = window \ (Rivals(r) \cup {r})
    /\ winner' = winner \cup {r}
    /\ UNCHANGED leased

\* A contract is made from a request.
Lease(r) ==
    /\ window' = window \ {r}
    /\ winner' = winner \ {r}
    /\ leased' = leased \cup {r}

\* Requests leave the competition: expired, cancelled, refunded, over.
Leave(R) ==
    /\ window' = window \ R
    /\ winner' = winner \ R
    /\ leased' = leased \ R

Next ==
    \/ \E R \in SUBSET Request : Open(R) \/ Leave(R)
    \/ \E r \in Request : Win(r) \/ Lease(r)

Spec == Init /\ [][Next]_vars
=============================================================================
