------------------------------ MODULE Favorites -------------------------------
(***************************************************************************)
(* The favourites of one property (estate-service, property.service.ts):   *)
(* the rows of the users who saved it, and the count the listings show.    *)
(***************************************************************************)
EXTENDS Integers, FiniteSets

CONSTANTS
    Handler,      \* requests being handled at the same time
    Visitor,      \* users who save the property
    MaxCrash      \* bound: restarts of the service

FavoritesAssumption == MaxCrash \in Nat /\ IsFiniteSet(Handler) /\ IsFiniteSet(Visitor)

VARIABLES favorites, favoriteCount, handler, crashes

vars == <<favorites, favoriteCount, handler, crashes>>

Free == [op |-> "none"]

------------------------------------------------------------------------------
\* addFavorite finds the property shown to the public, which any may be or
\* not be (Listing), and no row of the user ...
AddFavoriteRead(h, v) ==
    /\ handler[h] = Free
    /\ v \notin favorites
    /\ handler' = [handler EXCEPT ![h] = [op |-> "add", visitor |-> v]]
    /\ UNCHANGED <<favorites, favoriteCount, crashes>>

\* ... and inserts it and adds to the count in one transaction, which fails
\* when the row is there by now: user and property are its key.
AddFavorite(h) ==
    /\ handler[h].op = "add"
    /\ IF handler[h].visitor \in favorites
       THEN UNCHANGED <<favorites, favoriteCount>>
       ELSE /\ favorites' = favorites \cup {handler[h].visitor}
            /\ favoriteCount' = favoriteCount + 1
    /\ handler' = [handler EXCEPT ![h] = Free]
    /\ UNCHANGED crashes

\* Mutant: the count goes down whether a row was deleted or not.
RemoveFavoriteAlways(h, v) ==
    /\ handler[h] = Free
    /\ favorites' = favorites \ {v}
    /\ handler' = [handler EXCEPT ![h] = [op |-> "uncount"]]
    /\ UNCHANGED <<favoriteCount, crashes>>

\* removeFavorite deletes the row and, when there was one, then takes it off
\* the count.
RemoveFavorite(h, v) ==
    /\ handler[h] = Free
    /\ favorites' = favorites \ {v}
    /\ handler' = [handler EXCEPT ![h] = IF v \in favorites THEN [op |-> "uncount"] ELSE Free]
    /\ UNCHANGED <<favoriteCount, crashes>>

Uncount(h) ==
    /\ handler[h].op = "uncount"
    /\ favoriteCount' = favoriteCount - 1
    /\ handler' = [handler EXCEPT ![h] = Free]
    /\ UNCHANGED <<favorites, crashes>>

------------------------------------------------------------------------------
\* A removal in progress is forgotten after its row has gone.
Restart ==
    /\ crashes < MaxCrash
    /\ crashes' = crashes + 1
    /\ handler' = [h \in Handler |-> Free]
    /\ UNCHANGED <<favorites, favoriteCount>>

Init ==
    /\ favorites = {} /\ favoriteCount = 0
    /\ handler = [h \in Handler |-> Free]
    /\ crashes = 0

Next ==
    \/ \E h \in Handler :
        \/ \E v \in Visitor : AddFavoriteRead(h, v) \/ RemoveFavorite(h, v)
        \/ AddFavorite(h) \/ Uncount(h)
    \/ Restart

Spec == Init /\ [][Next]_vars

------------------------------------------------------------------------------
\* The count shown with a property is the number of users who have saved it,
\* removals in progress aside, however many users save and remove it at the
\* same time; a removal cut short by a crash leaves it too high, never too low.
FavoriteCountMatches ==
    LET leaving == Cardinality({h \in Handler : handler[h].op = "uncount"})
        saved   == Cardinality(favorites)
    IN  /\ favoriteCount >= saved + leaving
        /\ favoriteCount <= saved + leaving + crashes * Cardinality(Handler)

=============================================================================
