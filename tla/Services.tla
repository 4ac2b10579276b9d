------------------------------- MODULE Services --------------------------------
(***************************************************************************)
(* The components of the estate, chat and notification services, and the   *)
(* bills of contract-service, which share no row with each other: a        *)
(* behaviour of all of them is a behaviour of each, so one of them, the    *)
(* focus, moves while the others stay at their start.  All the invariants  *)
(* are thus checked in one run, in as many states as the components have   *)
(* together instead of their product.                                      *)
(***************************************************************************)
EXTENDS Integers

CONSTANTS
    Listing, Price, Limit, MaxEdits,                       \* Search
    Handler, Trial, Period, LastDay, MaxCrash,             \* Listing
    Visitor,                                               \* Favorites
    Visit, Property, Tenant, Time,                         \* Booking
    Doc,                                                   \* Kyc
    User, Socket, UserOf, MaxRestart,                      \* Presence
    Call, Caller, Conversation,                            \* Calls
    Other, Emoji, MaxMessages,                             \* Chat
    Admins, Reader, Event,                                 \* Notification
    FirstDay, DueDays, Starts, End, MaxMissed              \* Billing

VARIABLES
    focus,
    created, price, listed, matching, query, cursor, page, more, times, changed, edits,
    status, approval, expires, expired, today, listingHandler, sweep, crashes,
    favorites, favoriteCount, favoriteHandler, favoriteCrashes,
    visit, visitHandler, lateVisits,
    kyc, doc, kycHandler, lateApproval,
    socket, onlineUsers, view, inbox, restarts,
    call, callHandler, lateCalls,
    conversation, messages, unread, lastSender, hidden, reactions, readTo, chatHandler,
    queue, todo, told, recipients, shared, reader, notifierCrashes,
    lease, leaseStatus, bills, billDay, billing, billSweep, ranToday, missed

Search == INSTANCE Search
Fee == INSTANCE Listing WITH handler <- listingHandler
Favorites == INSTANCE FavoritesProofs WITH handler <- favoriteHandler, crashes <- favoriteCrashes
Visits == INSTANCE BookingProofs WITH handler <- visitHandler, late <- lateVisits
Identity == INSTANCE KycProofs WITH user <- kyc, handler <- kycHandler, late <- lateApproval
Presence == INSTANCE Presence
Calls == INSTANCE CallsProofs WITH User <- Caller, handler <- callHandler, late <- lateCalls
Chat == INSTANCE Chat WITH created <- conversation, handler <- chatHandler
Notifier == INSTANCE Notification WITH crashes <- notifierCrashes
Rent == INSTANCE Billing WITH status <- leaseStatus, today <- billDay, sweep <- billSweep

searchVars == <<created, price, listed, matching, query, cursor, page, more, times, changed, edits>>
feeVars == <<status, approval, expires, expired, today, listingHandler, sweep, crashes>>
favoritesVars == <<favorites, favoriteCount, favoriteHandler, favoriteCrashes>>
visitsVars == <<visit, visitHandler, lateVisits>>
identityVars == <<kyc, doc, kycHandler, lateApproval>>
presenceVars == <<socket, onlineUsers, view, inbox, restarts>>
callsVars == <<call, callHandler, lateCalls>>
chatVars == <<conversation, messages, unread, lastSender, hidden, reactions, readTo, chatHandler>>
notifierVars == <<queue, todo, told, recipients, shared, reader, notifierCrashes>>
rentVars == <<lease, leaseStatus, bills, billDay, billing, billSweep, ranToday, missed>>

vars == <<focus, searchVars, feeVars, favoritesVars, visitsVars, identityVars, presenceVars,
          callsVars, chatVars, notifierVars, rentVars>>

\* What each component takes its constants to be.
ASSUME ServicesAssumption ==
    /\ Search!SearchAssumption
    /\ Fee!ListingAssumption
    /\ Favorites!FavoritesAssumption
    /\ Visits!BookingAssumption
    /\ Identity!KycAssumption
    /\ Presence!PresenceAssumption
    /\ Chat!ChatAssumption
    /\ Notifier!NotificationAssumption
    /\ Rent!CalendarAssumption

------------------------------------------------------------------------------
\* The components with several initial states have one when not in focus.
AtRest ==
    /\ focus # "search" => /\ created = [l \in Listing |-> 0]
                           /\ query = CHOOSE q \in Search!Queries : ~q.keyword
    /\ focus # "fee" => status = "draft"
    /\ focus # "rent" => lease = CHOOSE l \in Rent!Leases : TRUE

Init ==
    /\ focus \in {"search", "fee", "favorites", "visits", "identity", "presence", "calls", "chat",
                 "notifier", "rent"}
    /\ Search!Init /\ Fee!Init /\ Favorites!Init /\ Visits!Init /\ Identity!Init
    /\ Presence!Init /\ Calls!Init /\ Chat!Init /\ Notifier!Init /\ Rent!Init
    /\ AtRest

Next ==
    \/ /\ focus = "search" /\ Search!Next
       /\ UNCHANGED <<focus, feeVars, favoritesVars, visitsVars, identityVars,
                      presenceVars, callsVars, chatVars, notifierVars, rentVars>>
    \/ /\ focus = "fee" /\ Fee!Next
       /\ UNCHANGED <<focus, searchVars, favoritesVars, visitsVars, identityVars,
                      presenceVars, callsVars, chatVars, notifierVars, rentVars>>
    \/ /\ focus = "favorites" /\ Favorites!Next
       /\ UNCHANGED <<focus, searchVars, feeVars, visitsVars, identityVars,
                      presenceVars, callsVars, chatVars, notifierVars, rentVars>>
    \/ /\ focus = "visits" /\ Visits!Next
       /\ UNCHANGED <<focus, searchVars, feeVars, favoritesVars, identityVars,
                      presenceVars, callsVars, chatVars, notifierVars, rentVars>>
    \/ /\ focus = "identity" /\ Identity!Next
       /\ UNCHANGED <<focus, searchVars, feeVars, favoritesVars, visitsVars,
                      presenceVars, callsVars, chatVars, notifierVars, rentVars>>
    \/ /\ focus = "presence" /\ Presence!Next
       /\ UNCHANGED <<focus, searchVars, feeVars, favoritesVars, visitsVars,
                      identityVars, callsVars, chatVars, notifierVars, rentVars>>
    \/ /\ focus = "calls" /\ Calls!Next
       /\ UNCHANGED <<focus, searchVars, feeVars, favoritesVars, visitsVars,
                      identityVars, presenceVars, chatVars, notifierVars, rentVars>>
    \/ /\ focus = "chat" /\ Chat!Next
       /\ UNCHANGED <<focus, searchVars, feeVars, favoritesVars, visitsVars,
                      identityVars, presenceVars, callsVars, notifierVars, rentVars>>
    \/ /\ focus = "notifier" /\ Notifier!Next
       /\ UNCHANGED <<focus, searchVars, feeVars, favoritesVars, visitsVars,
                      identityVars, presenceVars, callsVars, chatVars, rentVars>>
    \/ /\ focus = "rent" /\ Rent!Next
       /\ UNCHANGED <<focus, searchVars, feeVars, favoritesVars, visitsVars,
                      identityVars, presenceVars, callsVars, chatVars, notifierVars>>

\* The timer that hides expired listings runs on.
FairSpec == Init /\ [][Next]_vars /\ WF_feeVars(focus = "fee" /\ Fee!SweepStep)

------------------------------------------------------------------------------
\* Paging with the cursor shows every listing that matches and stays as it
\* is exactly once, whatever listings come and go meanwhile (search queries).
EachListingOnce == Search!EachListingOnce

\* The favourite count of a property is the number of users who saved it.
FavoriteCountMatches == Favorites!FavoriteCountMatches

\* A listing whose paid period is over comes down (the hourly listing sweep).
ExpiredComesDown == Fee!ExpiredComesDown

\* No two open visits of a landlord overlap, save those written too late.
NoDoubleVisit == Visits!NoDoubleVisit

\* A verified user has an approved identity document.
VerifiedHasDocument == Identity!VerifiedHasDocument

\* Connected chat clients agree with the gateway on who is online.
ViewsAgree == Presence!ViewsAgree

\* Nobody is in two active calls, save those written too late.
OneCallPerUser == Calls!OneCallPerUser

\* The unread counts and last sender of a conversation match its messages.
RowMatchesMessages == Chat!RowMatchesMessages

\* A shared notification read by one administrator is taken from the others.
ReadForAll == Notifier!ReadForAll

\* No receiver is told of an event twice, crashes included.
ToldOnce == Notifier!ToldOnce

\* No month of a lease is billed twice (the monthly payment cron).
OneBillPerMonth == Rent!OneBillPerMonth

\* Every month of a lease is billed unless the cron misses all its chances.
MonthBilled == Rent!MonthBilled

\* A lease whose rent stays unpaid ends (the overdue and life-cycle crons).
UnpaidEndsLease == Rent!UnpaidEndsLease

=============================================================================
