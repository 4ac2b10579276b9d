----------------------------- MODULE ServicesProofs ----------------------------
(***************************************************************************)
(* A behaviour of the services is a behaviour of each component, so what   *)
(* is proved of a component holds of it among the others, for any number   *)
(* of rows, users and requests in flight.  The invariants of visits,       *)
(* documents, calls and favourites are those of the modules of their own;  *)
(* notifications, presence, chat, search and bills follow here.            *)
(***************************************************************************)
EXTENDS Services, Sequences, FiniteSetTheorems, WellFoundedInduction, TLAPS

\* The services move the visits as bookingService does, or not at all.
LEMMA VisitsImplemented == FairSpec => Visits!Spec
<1>1. Init => Visits!Init
  BY DEF Init
<1>2. [Next]_vars => [Visits!Next]_(Visits!vars)
  BY DEF Next, vars, visitsVars, Visits!vars
<1> QED
  BY <1>1, <1>2, PTL DEF FairSpec, Visits!Spec

\* No two open visits of a landlord overlap, save those written too late,
\* whatever the other components do (bookingService).
THEOREM VisitsAmong == FairSpec => []NoDoubleVisit
<1>1. Visits!Spec => []Visits!NoDoubleVisit
  BY ServicesAssumption, Visits!VisitsApart
<1>2. Visits!NoDoubleVisit => NoDoubleVisit
  BY DEF NoDoubleVisit
<1> QED
  BY <1>1, <1>2, VisitsImplemented, PTL

\* The services move the documents as kycService does, or not at all.
LEMMA IdentityImplemented == FairSpec => Identity!Spec
<1>1. Init => Identity!Init
  BY DEF Init
<1>2. [Next]_vars => [Identity!Next]_(Identity!vars)
  BY DEF Next, vars, identityVars, Identity!vars
<1> QED
  BY <1>1, <1>2, PTL DEF FairSpec, Identity!Spec

\* A verified user has an approved document, among all that the services do
\* (kycService).
THEOREM IdentityAmong == FairSpec => []VerifiedHasDocument
<1>1. Identity!Spec => []Identity!VerifiedHasDocument
  BY Identity!VerifiedBacked
<1>2. Identity!VerifiedHasDocument => VerifiedHasDocument
  BY DEF VerifiedHasDocument
<1> QED
  BY <1>1, <1>2, IdentityImplemented, PTL

\* The services move the calls as callService does, or not at all.
LEMMA CallsImplemented == FairSpec => Calls!Spec
<1>1. Init => Calls!Init
  BY DEF Init
<1>2. [Next]_vars => [Calls!Next]_(Calls!vars)
  BY DEF Next, vars, callsVars, Calls!vars
<1> QED
  BY <1>1, <1>2, PTL DEF FairSpec, Calls!Spec

\* Nobody is in two active calls, save those written too late, whatever the
\* other components do (callService).
THEOREM CallsAmong == FairSpec => []OneCallPerUser
<1>1. Calls!Spec => []Calls!OneCallPerUser
  BY Calls!CallsExclusive
<1>2. Calls!OneCallPerUser => OneCallPerUser
  BY DEF OneCallPerUser
<1> QED
  BY <1>1, <1>2, CallsImplemented, PTL

\* The services move the favourites as propertyService does, or not at all.
LEMMA FavoritesImplemented == FairSpec => Favorites!Spec
<1>1. Init => Favorites!Init
  BY DEF Init
<1>2. [Next]_vars => [Favorites!Next]_(Favorites!vars)
  BY DEF Next, vars, favoritesVars, Favorites!vars
<1> QED
  BY <1>1, <1>2, PTL DEF FairSpec, Favorites!Spec

\* The count shown with a property agrees with the users who saved it, among
\* all that the services do (addFavorite and removeFavorite).
THEOREM FavoritesAmong == FairSpec => []FavoriteCountMatches
<1>1. Favorites!Spec => []Favorites!FavoriteCountMatches
  BY ServicesAssumption, Favorites!CountsKept
<1>2. Favorites!FavoriteCountMatches => FavoriteCountMatches
  BY DEF FavoriteCountMatches
<1> QED
  BY <1>1, <1>2, FavoritesImplemented, PTL

------------------------------------------------------------------------------
\* The services move the notifications as notification-service does, or not
\* at all.
LEMMA NotifierImplemented == FairSpec => Notifier!Spec
<1>1. Init => Notifier!Init
  BY DEF Init
<1>2. [Next]_vars => [Notifier!Next]_(Notifier!vars)
  BY DEF Next, vars, notifierVars, Notifier!vars
<1> QED
  BY <1>1, <1>2, PTL DEF FairSpec, Notifier!Spec

\* What a request to mark as read has read of the shared notification.
ReaderState(a, others) ==
    {Notifier!Free}
        \cup [op : {"others", "done"}, admin : a]
        \cup [op : {"mark", "remove"}, admin : a, others : SUBSET others]

\* The rows of the shared notification are made once, before anybody reads
\* it, and from then on only become fewer.  So a request that has read the
\* rows of the others knows of all there will be, and one that has marked its
\* own row finds it marked if it is still there.
SharedInv ==
    /\ recipients \in [DOMAIN recipients -> BOOLEAN]
    /\ DOMAIN recipients \subseteq Notifier!Admin
    /\ reader \in [Reader -> ReaderState(Notifier!Admin, Notifier!Admin)]
    /\ "property_created" \in queue =>
        /\ DOMAIN recipients = {}
        /\ \A r \in Reader : reader[r].op = "none"
    /\ \A r \in Reader :
        /\ reader[r].op \in {"mark", "remove"} =>
            DOMAIN recipients \subseteq reader[r].others \cup {reader[r].admin}
        /\ reader[r].op = "done" => DOMAIN recipients \subseteq {reader[r].admin}
        /\ reader[r].op \in {"remove", "done"} =>
            \A a \in DOMAIN recipients : a = reader[r].admin => recipients[a]

LEMMA SharedInitially == Notifier!Init => SharedInv
  BY DEF Notifier!Init, SharedInv, ReaderState, Notifier!Free

LEMMA SharedKept == SharedInv /\ [Notifier!Next]_(Notifier!vars) => SharedInv'
<1> SUFFICES ASSUME SharedInv, [Notifier!Next]_(Notifier!vars) PROVE SharedInv'
  OBVIOUS
<1>1. CASE UNCHANGED Notifier!vars
  BY <1>1 DEF SharedInv, Notifier!vars
<1>2. ASSUME NEW e \in Event, Notifier!Deliver(e) PROVE SharedInv'
  <2>1. CASE e = "property_created" /\ Notifier!Admin # {}
    BY <1>2, <2>1 DEF SharedInv, Notifier!Deliver, ReaderState, Notifier!Free
  <2>2. CASE ~(e = "property_created" /\ Notifier!Admin # {})
    BY <1>2, <2>2 DEF SharedInv, Notifier!Deliver, ReaderState, Notifier!Free
  <2> QED
    BY <2>1, <2>2
<1>3. ASSUME NEW e \in Event, Notifier!Tell(e) PROVE SharedInv'
  BY <1>3 DEF SharedInv, Notifier!Tell
<1>4. CASE Notifier!Restart
  BY <1>4 DEF SharedInv, Notifier!Restart, ReaderState, Notifier!Free
<1>5. ASSUME NEW r \in Reader, NEW a \in Notifier!Admin, Notifier!ReadFind(r, a) PROVE SharedInv'
  BY <1>5 DEF SharedInv, Notifier!ReadFind, ReaderState, Notifier!Free, Notifier!inbox
<1>6. ASSUME NEW r \in Reader, Notifier!ReadOthers(r) PROVE SharedInv'
  BY <1>6 DEF SharedInv, Notifier!ReadOthers, ReaderState, Notifier!Free, Notifier!inbox
<1>7. ASSUME NEW r \in Reader, Notifier!ReadMark(r) PROVE SharedInv'
  <2> DEFINE a == reader[r].admin
  <2>0. /\ reader[r].op = "mark" /\ a \in Notifier!Admin
        /\ reader[r].others \in SUBSET Notifier!Admin
    BY <1>7 DEF SharedInv, Notifier!ReadMark, ReaderState, Notifier!Free
  <2>1. CASE reader[r].admin \in DOMAIN recipients
    <3>1. /\ recipients' = [recipients EXCEPT ![a] = TRUE]
          /\ DOMAIN recipients' = DOMAIN recipients
          /\ recipients' \in [DOMAIN recipients -> BOOLEAN]
          /\ recipients'[a] = TRUE
          /\ \A b \in DOMAIN recipients : b # a => recipients'[b] = recipients[b]
      BY <1>7, <2>1 DEF SharedInv, Notifier!ReadMark
    <3>2. /\ reader' = [reader EXCEPT ![r] = [op |-> "remove", admin |-> a,
                                              others |-> reader[r].others]]
          /\ queue' = queue
      BY <1>7, <2>1 DEF Notifier!ReadMark, Notifier!inbox
    <3> QED
      BY <2>0, <2>1, <3>1, <3>2 DEF SharedInv, ReaderState, Notifier!Free
  <2>2. CASE reader[r].admin \notin DOMAIN recipients
    BY <1>7, <2>2 DEF SharedInv, Notifier!ReadMark, ReaderState, Notifier!Free, Notifier!inbox
  <2> QED
    BY <2>1, <2>2
<1>8. ASSUME NEW r \in Reader, Notifier!ReadRemove(r) PROVE SharedInv'
  BY <1>8 DEF SharedInv, Notifier!ReadRemove, ReaderState, Notifier!Free, Notifier!inbox
<1>9. ASSUME NEW a \in Notifier!Admin, Notifier!DeleteRead(a) PROVE SharedInv'
  BY <1>9 DEF SharedInv, Notifier!DeleteRead, ReaderState, Notifier!Free, Notifier!inbox
<1> QED
  BY <1>1, <1>2, <1>3, <1>4, <1>5, <1>6, <1>7, <1>8, <1>9 DEF Notifier!Next

\* A shared notification read by one administrator is taken from the others,
\* however many read and delete it at the same time (markAsRead and
\* deleteReadNotifications).
THEOREM ReadByOneIsRead == FairSpec => []ReadForAll
<1>1. SharedInv => ReadForAll
  BY DEF SharedInv, ReadForAll, Notifier!ReadForAll
<1> QED
  BY <1>1, SharedInitially, SharedKept, NotifierImplemented, PTL DEF Notifier!Spec

\* A list of receivers with nobody in it twice.
EachOnce(s) ==
    /\ s \in Seq(Notifier!Receiver)
    /\ \A i, j \in 1..Len(s) : s[i] = s[j] => i = j

\* No event has a receiver twice in its list: the administrators and the
\* parties of a contract are different users.
LEMMA ReceiversOnce == ASSUME NEW e PROVE EachOnce(Notifier!Receivers(e))
<1> DEFINE tenant == <<"tenant">>
           owner == <<"owner">>
           user == <<"user">>
<1>1. /\ Admins \in Seq(Notifier!Admin)
      /\ \A i, j \in 1..Len(Admins) : Admins[i] = Admins[j] => i = j
      /\ Notifier!Admin \cap Notifier!Roles = {}
  BY ServicesAssumption DEF ServicesAssumption, Notifier!NotificationAssumption, Notifier!IsInjective
<1>2. EachOnce(<<>>) /\ EachOnce(tenant) /\ EachOnce(owner) /\ EachOnce(user)
  BY DEF EachOnce, Notifier!Receiver, Notifier!Roles
<1>3. EachOnce(<<"owner", "tenant">>) /\ EachOnce(<<"tenant", "owner">>)
  BY DEF EachOnce, Notifier!Receiver, Notifier!Roles
<1>4. EachOnce(Admins)
  BY <1>1 DEF EachOnce, Notifier!Receiver
<1>5. EachOnce(Notifier!AdminsAndTenant)
  <2>1. \A i \in 1..Len(Admins) : Admins[i] # "tenant"
    BY <1>1 DEF Notifier!Roles
  <2> QED
    BY <1>1, <2>1 DEF EachOnce, Notifier!AdminsAndTenant, Notifier!Receiver, Notifier!Roles
<1>6. e \in DOMAIN Notifier!RequestEvents => EachOnce(Notifier!RequestEvents[e])
  BY <1>2, <1>3 DEF Notifier!RequestEvents
<1>7. e \in DOMAIN Notifier!ContractEvents => EachOnce(Notifier!ContractEvents[e])
  BY <1>2, <1>3 DEF Notifier!ContractEvents
<1>8. e \in DOMAIN Notifier!PaymentEvents => EachOnce(Notifier!PaymentEvents[e])
  BY <1>2, <1>3 DEF Notifier!PaymentEvents
<1>9. e \in DOMAIN Notifier!TerminationEvents => EachOnce(Notifier!TerminationEvents[e])
  BY <1>2, <1>3, <1>5 DEF Notifier!TerminationEvents
<1>10. e \in DOMAIN Notifier!ReportEvents => EachOnce(Notifier!ReportEvents[e])
  BY <1>2, <1>3, <1>5 DEF Notifier!ReportEvents
<1>11. e \in DOMAIN Notifier!RenewalEvents => EachOnce(Notifier!RenewalEvents[e])
  BY <1>2 DEF Notifier!RenewalEvents
<1>12. e \in DOMAIN Notifier!KycEvents => EachOnce(Notifier!KycEvents[e])
  BY <1>2, <1>4 DEF Notifier!KycEvents
<1>13. e \in DOMAIN Notifier!PropertyEvents => EachOnce(Notifier!PropertyEvents[e])
  BY <1>2 DEF Notifier!PropertyEvents
<1> HIDE DEF tenant, owner, user
<1> QED
  BY <1>2, <1>6, <1>7, <1>8, <1>9, <1>10, <1>11, <1>12, <1>13, Zenon DEF Notifier!Receivers

Untold(t, e, r) == \A j \in 1..Len(t[r]) : t[r][j] # e

\* Whoever has still to be told of an event being handled has not been told
\* of it, nor has anybody of an event in the queue.
ToldInv ==
    /\ todo \in [Event -> Seq(Notifier!Receiver)]
    /\ told \in [Notifier!Receiver -> Seq(Event)]
    /\ \A r \in Notifier!Receiver :
        /\ \A i, j \in 1..Len(told[r]) : told[r][i] = told[r][j] => i = j
        /\ \A i \in 1..Len(told[r]) : told[r][i] \notin queue
    /\ \A e \in Event :
        /\ EachOnce(todo[e])
        /\ todo[e] # <<>> => e \notin queue
        /\ \A i \in 1..Len(todo[e]) : Untold(told, e, todo[e][i])

LEMMA ToldInitially == Notifier!Init => ToldInv
  BY DEF Notifier!Init, ToldInv, EachOnce

\* What a receiver has been told, in a state of the invariant.
LEMMA ToldOf ==
    ASSUME ToldInv, NEW r \in Notifier!Receiver
    PROVE  /\ told[r] \in Seq(Event) /\ Len(told[r]) \in Nat
           /\ \A i, j \in 1..Len(told[r]) : told[r][i] = told[r][j] => i = j
           /\ \A i \in 1..Len(told[r]) : told[r][i] \notin queue
<1>1. told[r] \in Seq(Event)
  BY DEF ToldInv
<1>2. Len(told[r]) \in Nat
  BY <1>1
<1>3. /\ \A i, j \in 1..Len(told[r]) : told[r][i] = told[r][j] => i = j
      /\ \A i \in 1..Len(told[r]) : told[r][i] \notin queue
  BY Zenon DEF ToldInv
<1> QED
  BY <1>1, <1>2, <1>3

LEMMA ToldKept == ToldInv /\ [Notifier!Next]_(Notifier!vars) => ToldInv'
<1> SUFFICES ASSUME ToldInv, [Notifier!Next]_(Notifier!vars) PROVE ToldInv'
  OBVIOUS
<1>1. ASSUME NEW e \in Event, Notifier!Deliver(e) PROVE ToldInv'
  <2>1. EachOnce(Notifier!Receivers(e)) /\ Notifier!Receivers(e) \in Seq(Notifier!Receiver)
    BY ReceiversOnce DEF EachOnce
  <2>2. /\ e \in queue /\ e \notin queue'
        /\ todo' = [todo EXCEPT ![e] = Notifier!Receivers(e)]
        /\ told' = told /\ queue' \subseteq queue
    BY <1>1 DEF Notifier!Deliver
  <2>3. /\ todo' \in [Event -> Seq(Notifier!Receiver)]
        /\ todo'[e] = Notifier!Receivers(e)
        /\ \A f \in Event : f # e => todo'[f] = todo[f]
    BY <2>1, <2>2 DEF ToldInv
  <2>4. ASSUME NEW f \in Event, NEW i \in 1..Len(todo'[f])
        PROVE  Untold(told', f, todo'[f][i])
    <3>1. CASE f = e
      <4>1. todo'[f][i] \in Notifier!Receiver
        BY <2>1, <2>3, <3>1
      <4>2. \A j \in 1..Len(told[todo'[f][i]]) : told[todo'[f][i]][j] \notin queue
        BY <4>1 DEF ToldInv
      <4> QED
        BY <2>2, <3>1, <4>2 DEF Untold
    <3>2. CASE f # e
      BY <2>2, <2>3, <3>2 DEF ToldInv
    <3> QED
      BY <3>1, <3>2
  <2>5. \A f \in Event : EachOnce(todo'[f]) /\ (todo'[f] # <<>> => f \notin queue')
    BY <2>1, <2>2, <2>3 DEF ToldInv
  <2> QED
    BY <2>2, <2>3, <2>4, <2>5 DEF ToldInv
<1>2. ASSUME NEW e \in Event, Notifier!Tell(e) PROVE ToldInv'
  <2> DEFINE left == todo[e]
             r == left[1]
  <2>1. /\ left # <<>> /\ queue' = queue
        /\ told' = [told EXCEPT ![r] = Append(told[r], e)]
        /\ todo' = [todo EXCEPT ![e] = Tail(left)]
    BY <1>2 DEF Notifier!Tell
  <2>2. /\ left \in Seq(Notifier!Receiver) /\ Len(left) > 0
        /\ r \in Notifier!Receiver
        /\ e \notin queue
        /\ EachOnce(left)
        /\ \A i \in 1..Len(left) : Untold(told, e, left[i])
        /\ told[r] \in Seq(Event)
    <3>1. left \in Seq(Notifier!Receiver) /\ Len(left) > 0 /\ r \in Notifier!Receiver
      BY <2>1 DEF ToldInv
    <3> QED
      BY <2>1, <3>1 DEF ToldInv
  <2>20. \A j \in 1..Len(told[r]) : told[r][j] # e
    BY <2>2 DEF Untold
  <2>3. /\ todo' \in [Event -> Seq(Notifier!Receiver)]
        /\ todo'[e] = Tail(left)
        /\ Len(todo'[e]) = Len(left) - 1
        /\ \A i \in 1..Len(todo'[e]) :
            todo'[e][i] = left[i + 1] /\ i + 1 \in 1..Len(left) /\ todo'[e][i] # r
        /\ EachOnce(todo'[e])
        /\ \A f \in Event : f # e => todo'[f] = todo[f]
    <3>1. todo \in [Event -> Seq(Notifier!Receiver)] /\ Tail(left) \in Seq(Notifier!Receiver)
      BY <2>2 DEF ToldInv
    <3> HIDE DEF left
    <3>2. /\ Len(Tail(left)) = Len(left) - 1
          /\ \A i \in 1..Len(Tail(left)) : Tail(left)[i] = left[i + 1] /\ i + 1 \in 1..Len(left)
      BY <2>2
    <3>3. /\ \A i \in 1..Len(Tail(left)) : Tail(left)[i] # r
          /\ EachOnce(Tail(left))
      BY <2>2, <3>1, <3>2 DEF EachOnce
    <3> QED
      BY <2>1, <3>1, <3>2, <3>3
  <2>4. /\ told' \in [Notifier!Receiver -> Seq(Event)]
        /\ Len(told'[r]) = Len(told[r]) + 1
        /\ told'[r][Len(told[r]) + 1] = e
        /\ \A j \in 1..Len(told[r]) : told'[r][j] = told[r][j]
        /\ \A q \in Notifier!Receiver : q # r => told'[q] = told[q]
    BY <2>1, <2>2 DEF ToldInv
  <2>5. ASSUME NEW q \in Notifier!Receiver
        PROVE  /\ \A i, j \in 1..Len(told'[q]) : told'[q][i] = told'[q][j] => i = j
               /\ \A i \in 1..Len(told'[q]) : told'[q][i] \notin queue'
    <3>1. CASE q # r
      BY <2>1, <2>4, <3>1 DEF ToldInv
    <3>2. CASE q = r
      <4> HIDE DEF r
      <4>1. /\ \A i, j \in 1..Len(told[r]) : told[r][i] = told[r][j] => i = j
            /\ \A i \in 1..Len(told[r]) : told[r][i] \notin queue
            /\ Len(told[r]) \in Nat
        BY <2>2, ToldOf
      <4>2. \A i \in 1..Len(told'[r]) : i \in 1..Len(told[r]) \/ i = Len(told[r]) + 1
        BY <2>4, <4>1
      <4> QED
        BY <2>1, <2>2, <2>20, <2>4, <3>2, <4>1, <4>2
    <3> QED
      BY <3>1, <3>2
  <2>6. ASSUME NEW f \in Event, NEW i \in 1..Len(todo'[f])
        PROVE  Untold(told', f, todo'[f][i])
    <3>1. CASE f = e
      <4>1. i + 1 \in 1..Len(left) /\ todo'[f][i] = left[i + 1] /\ left[i + 1] # r
        BY <2>3, <3>1
      <4>2. left[i + 1] \in Notifier!Receiver /\ Untold(told, f, left[i + 1])
        BY <2>2, <3>1, <4>1
      <4> QED
        BY <2>4, <4>1, <4>2 DEF Untold
    <3>2. CASE f # e
      <4> DEFINE q == todo[f][i]
      <4>1. i \in 1..Len(todo[f]) /\ todo'[f][i] = q
        BY <2>3, <3>2
      <4>2. q \in Notifier!Receiver /\ Untold(told, f, q)
        BY <4>1 DEF ToldInv
      <4> HIDE DEF q, r
      <4>3. Untold(told', f, q)
        <5>1. CASE q = r
          BY <2>2, <2>4, <3>2, <4>2, <5>1 DEF Untold
        <5>2. CASE q # r
          BY <2>4, <4>2, <5>2 DEF Untold
        <5> QED
          BY <5>1, <5>2
      <4> QED
        BY <4>1, <4>3
    <3> QED
      BY <3>1, <3>2
  <2>7. \A f \in Event : EachOnce(todo'[f]) /\ (todo'[f] # <<>> => f \notin queue')
    BY <2>1, <2>2, <2>3 DEF ToldInv
  <2> QED
    BY <2>3, <2>4, <2>5, <2>6, <2>7 DEF ToldInv
<1>4. CASE Notifier!Restart
  BY <1>4 DEF ToldInv, EachOnce, Notifier!Restart
<1>5. ASSUME Notifier!inbox' = Notifier!inbox PROVE ToldInv'
  BY <1>5 DEF ToldInv, Notifier!inbox
<1> QED
  BY <1>1, <1>2, <1>4, <1>5
     DEF Notifier!Next, Notifier!vars, Notifier!inbox, Notifier!ReadFind, Notifier!ReadOthers,
         Notifier!ReadMark, Notifier!ReadRemove, Notifier!DeleteRead

\* Nobody is told of an event twice, for any number of events and
\* administrators, however many events are handled at a time, and wherever the service stops (the controller's handlers).
THEOREM NobodyToldTwice == FairSpec => []ToldOnce
<1>1. ToldInv => ToldOnce
  BY DEF ToldInv, ToldOnce, Notifier!ToldOnce, Notifier!IsInjective
<1> QED
  BY <1>1, ToldInitially, ToldKept, NotifierImplemented, PTL DEF Notifier!Spec

------------------------------------------------------------------------------
\* The services move the sockets as the chat gateway does, or not at all.
LEMMA PresenceImplemented == FairSpec => Presence!Spec
<1>1. Init => Presence!Init
  BY DEF Init
<1>2. [Next]_vars => [Presence!Next]_(Presence!vars)
  BY DEF Next, vars, presenceVars, Presence!vars
<1> QED
  BY <1>1, <1>2, PTL DEF FairSpec, Presence!Spec

Message == [kind : {"snapshot", "online", "offline"}, users : SUBSET User]

\* A message sent last decides on the users it is about.
LEMMA LastWord ==
    ASSUME NEW users, NEW box \in Seq(Message), NEW m \in Message, NEW u
    PROVE  Presence!Believes(users, Append(box, m), u) <=>
               IF Presence!About(m, u) THEN m.kind # "offline" /\ u \in m.users
               ELSE Presence!Believes(users, box, u)
<1> DEFINE longer == Append(box, m)
           news == {i \in 1..Len(box) : Presence!About(box[i], u)}
           newer == {i \in 1..Len(longer) : Presence!About(longer[i], u)}
<1>1. /\ Len(longer) = Len(box) + 1 /\ Len(box) \in Nat
      /\ longer[Len(box) + 1] = m
      /\ \A i \in 1..Len(box) : longer[i] = box[i]
  OBVIOUS
<1> HIDE DEF longer
<1>2. CASE Presence!About(m, u)
  <2>1. Len(box) + 1 \in newer /\ \A j \in newer : j <= Len(box) + 1
    BY <1>1, <1>2
  <2>2. \A i \in newer : (\A j \in newer : j <= i) => i = Len(box) + 1
    BY <1>1, <2>1
  <2> QED
    BY <1>1, <1>2, <2>1, <2>2 DEF Presence!Believes, longer
<1>3. CASE ~Presence!About(m, u)
  <2>1. newer = news
    BY <1>1, <1>3
  <2>2. \A i \in news : longer[i] = box[i]
    BY <1>1
  <2> QED
    BY <1>3, <2>1, <2>2 DEF Presence!Believes, longer
<1> QED
  BY <1>2, <1>3

\* Receiving a message changes nothing of what a client will believe.
LEMMA FirstWord ==
    ASSUME NEW users, NEW box \in Seq(Message), box # <<>>, NEW u
    PROVE  Presence!Believes(Presence!Apply(users, Head(box)), Tail(box), u) <=>
               Presence!Believes(users, box, u)
<1> DEFINE rest == Tail(box)
           after == Presence!Apply(users, Head(box))
           news == {i \in 1..Len(box) : Presence!About(box[i], u)}
           newer == {i \in 1..Len(rest) : Presence!About(rest[i], u)}
<1>1. /\ Len(box) \in Nat \ {0} /\ Len(rest) = Len(box) - 1
      /\ \A i \in 1..Len(rest) : rest[i] = box[i + 1]
      /\ Head(box) = box[1] /\ box[1] \in Message
  OBVIOUS
<1>2. /\ Presence!About(box[1], u) =>
            (u \in after <=> box[1].kind # "offline" /\ u \in box[1].users)
      /\ ~Presence!About(box[1], u) => (u \in after <=> u \in users)
  BY <1>1 DEF Presence!Apply, Presence!About, Message
<1> HIDE DEF rest, after
<1>3. \A i \in newer : i + 1 \in news
  BY <1>1
<1>4. \A i \in news : i # 1 => i - 1 \in newer /\ rest[i - 1] = box[i]
  BY <1>1
<1>5. CASE newer = {}
  <2>1. news = {} \/ news = {1}
    BY <1>4, <1>5
  <2>2. CASE news = {}
    <3>1. ~Presence!About(box[1], u)
      BY <1>1, <2>2
    <3> QED
      BY <1>2, <1>5, <2>2, <3>1 DEF Presence!Believes, rest, after
  <2>3. CASE news = {1}
    <3>1. Presence!About(box[1], u)
      BY <2>3
    <3> QED
      BY <1>1, <1>2, <1>5, <2>3, <3>1 DEF Presence!Believes, rest, after
  <2> QED
    BY <2>1, <2>2, <2>3
<1>6. CASE newer # {}
  <2>1. news # {}
    BY <1>3, <1>6
  <2>2. \A i \in newer : (\A j \in newer : j <= i) => (\A j \in news : j <= i + 1)
    BY <1>1, <1>4
  <2>3. \A i \in news : (\A j \in news : j <= i) =>
            i # 1 /\ (\A j \in newer : j <= i - 1)
    BY <1>1, <1>3, <1>6
  <2>4. ASSUME NEW i \in newer, \A j \in newer : j <= i,
               rest[i].kind # "offline", u \in rest[i].users
        PROVE  \E k \in news : /\ \A j \in news : j <= k
                               /\ box[k].kind # "offline" /\ u \in box[k].users
    BY <1>1, <1>3, <2>2, <2>4
  <2>5. ASSUME NEW i \in news, \A j \in news : j <= i,
               box[i].kind # "offline", u \in box[i].users
        PROVE  \E k \in newer : /\ \A j \in newer : j <= k
                                /\ rest[k].kind # "offline" /\ u \in rest[k].users
    BY <1>1, <1>4, <2>3, <2>5
  <2> QED
    BY <1>6, <2>1, <2>4, <2>5 DEF Presence!Believes, rest, after
<1> QED
  BY <1>5, <1>6

SocketState == {"new", "validating", "left", "registered", "ghost", "closed"}

PresenceTypes ==
    /\ socket \in [Socket -> SocketState]
    /\ onlineUsers \in [User -> SUBSET Socket]
    /\ view \in [Socket -> SUBSET User]
    /\ inbox \in [Socket -> Seq(Message)]

\* The map has the sockets that registered and were not seen to leave.
MapIsLive ==
    \A u \in User :
        onlineUsers[u] = {s \in Socket : UserOf[s] = u /\ socket[s] \in {"registered", "ghost"}}

ClientsAgree ==
    \A s \in Socket : socket[s] = "registered" =>
        \A u \in User : Presence!Believes(view[s], inbox[s], u) <=> u \in Presence!Online

PresenceInv == PresenceTypes /\ MapIsLive /\ ClientsAgree

LEMMA PresenceInitially == Presence!Init => PresenceInv
  BY DEF Presence!Init, PresenceInv, PresenceTypes, SocketState, MapIsLive, ClientsAgree

\* A message to everybody is last in the box of each connected client.
LEMMA BroadcastReaches ==
    ASSUME NEW box \in [Socket -> Seq(Message)], NEW kind \in {"online", "offline"},
           NEW u \in User, NEW s \in Socket
    PROVE  /\ Presence!Broadcast(box, kind, u) \in [Socket -> Seq(Message)]
           /\ s \in Presence!Connected =>
                Presence!Broadcast(box, kind, u)[s] = Append(box[s], [kind |-> kind, users |-> {u}])
           /\ s \notin Presence!Connected => Presence!Broadcast(box, kind, u)[s] = box[s]
<1>1. [kind |-> kind, users |-> {u}] \in Message
  BY DEF Message
<1> QED
  BY <1>1 DEF Presence!Broadcast

\* A socket registers: it gets a snapshot, and the others hear of its user
\* when they had not yet.
LEMMA RegisterAgrees ==
    ASSUME PresenceInv, NEW s \in Socket, Presence!Register(s)
    PROVE  PresenceInv'
<1> DEFINE user == UserOf[s]
           snapshot == [kind |-> "snapshot", users |-> Presence!Online]
           news == [kind |-> "online", users |-> {user}]
           welcomed == IF s \in Presence!Connected
                       THEN [inbox EXCEPT ![s] = Append(inbox[s], snapshot)] ELSE inbox
<1>1. user \in User
  BY ServicesAssumption DEF ServicesAssumption, Presence!PresenceAssumption
<1>2. /\ snapshot \in Message /\ news \in Message
      /\ Presence!Online \subseteq User
  BY <1>1 DEF Presence!Online, Message
<1>3. /\ socket[s] \in {"validating", "left"}
      /\ socket' = [socket EXCEPT ![s] = IF socket[s] = "left" THEN "ghost" ELSE "registered"]
      /\ onlineUsers' = [onlineUsers EXCEPT ![user] = onlineUsers[user] \cup {s}]
      /\ inbox' = IF onlineUsers[user] = {} THEN Presence!Broadcast(welcomed, "online", user)
                  ELSE welcomed
      /\ view' = view
  BY DEF Presence!Register
<1>4. PresenceTypes
  BY DEF PresenceInv
<1>5. welcomed \in [Socket -> Seq(Message)]
  BY <1>2, <1>4 DEF PresenceTypes
<1>6. Presence!Online' = Presence!Online \cup {user}
  BY <1>1, <1>3, <1>4 DEF PresenceTypes, Presence!Online
<1>7. PresenceTypes'
  <2>1. inbox' \in [Socket -> Seq(Message)]
    BY <1>1, <1>3, <1>5, BroadcastReaches
  <2> QED
    BY <1>1, <1>3, <1>4, <2>1 DEF PresenceTypes, SocketState
<1>8. MapIsLive'
  BY <1>1, <1>3, <1>4 DEF PresenceInv, MapIsLive, PresenceTypes
<1>9. ASSUME NEW t \in Socket, socket'[t] = "registered", NEW u \in User
      PROVE  Presence!Believes(view'[t], inbox'[t], u) <=> u \in Presence!Online'
  <2>1. t \in Presence!Connected /\ (t # s => socket[t] = "registered")
    BY <1>3, <1>4, <1>9 DEF PresenceTypes, Presence!Connected
  <2>2. welcomed[t] \in Seq(Message) /\ inbox[t] \in Seq(Message)
    BY <1>4, <1>5 DEF PresenceTypes
  <2>3. Presence!Believes(view[t], welcomed[t], u) <=> u \in Presence!Online
    <3>1. CASE t = s
      <4>1. welcomed[t] = Append(inbox[s], snapshot)
        BY <1>4, <2>1, <3>1 DEF PresenceTypes
      <4>2. Presence!About(snapshot, u)
        BY DEF Presence!About
      <4> HIDE DEF welcomed
      <4> QED
        BY <1>2, <2>2, <3>1, <4>1, <4>2, LastWord
    <3>2. CASE t # s
      <4>1. welcomed[t] = inbox[t]
        BY <1>4, <3>2 DEF PresenceTypes
      <4> QED
        BY <2>1, <3>2, <4>1 DEF PresenceInv, ClientsAgree
    <3> QED
      BY <3>1, <3>2
  <2> HIDE DEF welcomed
  <2>4. CASE onlineUsers[user] = {}
    <3>1. inbox'[t] = Append(welcomed[t], news)
      BY <1>1, <1>3, <1>5, <2>1, <2>4, BroadcastReaches
    <3>2. Presence!About(news, u) <=> u = user
      BY DEF Presence!About
    <3>3. Presence!Believes(view[t], inbox'[t], u) <=>
            IF u = user THEN TRUE ELSE Presence!Believes(view[t], welcomed[t], u)
      BY <1>2, <2>2, <3>1, <3>2, LastWord
    <3> QED
      BY <1>3, <1>6, <2>3, <3>3
  <2>5. CASE onlineUsers[user] # {}
    <3>1. inbox'[t] = welcomed[t] /\ user \in Presence!Online
      BY <1>1, <1>3, <2>5 DEF Presence!Online
    <3> QED
      BY <1>3, <1>6, <2>3, <3>1
  <2> QED
    BY <2>4, <2>5
<1> QED
  BY <1>7, <1>8, <1>9 DEF PresenceInv, ClientsAgree

\* A socket leaves: the others hear of it when it was its user's last.
LEMMA DisconnectAgrees ==
    ASSUME PresenceInv, NEW s \in Socket, Presence!Disconnect(s)
    PROVE  PresenceInv'
<1> DEFINE user == UserOf[s]
           news == [kind |-> "offline", users |-> {user}]
           heard == Presence!Broadcast(inbox, "offline", user)
<1>1. user \in User
  BY ServicesAssumption DEF ServicesAssumption, Presence!PresenceAssumption
<1>2. news \in Message
  BY <1>1 DEF Message
<1>3. /\ socket[s] = "registered"
      /\ socket' = [socket EXCEPT ![s] = "closed"]
      /\ onlineUsers' = [onlineUsers EXCEPT ![user] = onlineUsers[user] \ {s}]
      /\ inbox' = IF onlineUsers[user] = {s} THEN [heard EXCEPT ![s] = <<>>]
                  ELSE [inbox EXCEPT ![s] = <<>>]
      /\ view' = view
  BY DEF Presence!Disconnect
<1>4. PresenceTypes
  BY DEF PresenceInv
<1>5. s \in onlineUsers[user]
  BY <1>1, <1>3 DEF PresenceInv, MapIsLive
<1>6. Presence!Online' = IF onlineUsers[user] = {s} THEN Presence!Online \ {user} ELSE Presence!Online
  BY <1>1, <1>3, <1>4, <1>5 DEF PresenceTypes, Presence!Online
<1>7. /\ heard \in [Socket -> Seq(Message)]
      /\ \A t \in Presence!Connected : heard[t] = Append(inbox[t], news)
  <2>1. inbox \in [Socket -> Seq(Message)] /\ Presence!Connected \subseteq Socket
    BY <1>4 DEF PresenceTypes, Presence!Connected
  <2>2. heard \in [Socket -> Seq(Message)]
    BY <1>1, <2>1, BroadcastReaches
  <2>3. ASSUME NEW t \in Socket, t \in Presence!Connected
        PROVE  heard[t] = Append(inbox[t], news)
    BY <2>3 DEF Presence!Broadcast
  <2> QED
    BY <2>1, <2>2, <2>3
<1>8. PresenceTypes'
  BY <1>1, <1>3, <1>4, <1>7 DEF PresenceTypes, SocketState
<1>9. MapIsLive'
  BY <1>1, <1>3, <1>4 DEF PresenceInv, MapIsLive, PresenceTypes
<1>10. ASSUME NEW t \in Socket, socket'[t] = "registered", NEW u \in User
       PROVE  Presence!Believes(view'[t], inbox'[t], u) <=> u \in Presence!Online'
  <2>1. /\ t # s /\ socket[t] = "registered" /\ t \in Presence!Connected
        /\ inbox[t] \in Seq(Message)
    BY <1>3, <1>4, <1>10 DEF PresenceTypes, Presence!Connected
  <2>2. Presence!Believes(view[t], inbox[t], u) <=> u \in Presence!Online
    BY <2>1 DEF PresenceInv, ClientsAgree
  <2>3. CASE onlineUsers[user] = {s}
    <3>1. inbox'[t] = Append(inbox[t], news)
      <4>1. heard[t] = Append(inbox[t], news)
        BY <1>7, <2>1
      <4> HIDE DEF heard
      <4> QED
        BY <1>3, <1>7, <2>1, <2>3, <4>1
    <3>2. Presence!About(news, u) <=> u = user
      BY DEF Presence!About
    <3>3. Presence!Believes(view[t], inbox'[t], u) <=>
            IF u = user THEN FALSE ELSE Presence!Believes(view[t], inbox[t], u)
      BY <1>2, <2>1, <3>1, <3>2, LastWord
    <3> QED
      BY <1>3, <1>6, <2>2, <2>3, <3>3
  <2>4. CASE onlineUsers[user] # {s}
    BY <1>3, <1>4, <1>6, <2>1, <2>2, <2>4 DEF PresenceTypes
  <2> QED
    BY <2>3, <2>4
<1> QED
  BY <1>8, <1>9, <1>10 DEF PresenceInv, ClientsAgree

LEMMA PresenceKept == PresenceInv /\ [Presence!Next]_(Presence!vars) => PresenceInv'
<1> SUFFICES ASSUME PresenceInv, [Presence!Next]_(Presence!vars) PROVE PresenceInv'
  OBVIOUS
<1>1. ASSUME NEW s \in Socket, Presence!Connect(s) \/ Presence!Refuse(s) \/ Presence!Leave(s)
      PROVE  PresenceInv'
  <2>1. /\ socket[s] \notin {"registered", "ghost"} /\ socket'[s] \notin {"registered", "ghost"}
        /\ \A t \in Socket : t # s => socket'[t] = socket[t] /\ inbox'[t] = inbox[t]
        /\ onlineUsers' = onlineUsers /\ view' = view
    BY <1>1 DEF PresenceInv, PresenceTypes, Presence!Connect, Presence!Refuse, Presence!Leave
  <2>2. PresenceTypes'
    <3>1. socket' \in [Socket -> SocketState]
      BY <1>1 DEF PresenceInv, PresenceTypes, SocketState, Presence!Connect, Presence!Refuse,
                  Presence!Leave
    <3>2. inbox' \in [Socket -> Seq(Message)]
      <4>1. inbox' = inbox \/ inbox' = [inbox EXCEPT ![s] = <<>>]
        BY <1>1 DEF Presence!Connect, Presence!Refuse, Presence!Leave
      <4>2. <<>> \in Seq(Message)
        OBVIOUS
      <4> QED
        BY <4>1, <4>2 DEF PresenceInv, PresenceTypes
    <3> QED
      BY <2>1, <3>1, <3>2 DEF PresenceInv, PresenceTypes
  <2>3. MapIsLive'
    BY <2>1 DEF PresenceInv, MapIsLive
  <2>4. ClientsAgree'
    BY <2>1 DEF PresenceInv, ClientsAgree, Presence!Online
  <2> QED
    BY <2>2, <2>3, <2>4 DEF PresenceInv
<1>2. ASSUME NEW s \in Socket, Presence!Receive(s) PROVE PresenceInv'
  <2>1. /\ inbox[s] # <<>>
        /\ view' = [view EXCEPT ![s] = Presence!Apply(view[s], Head(inbox[s]))]
        /\ inbox' = [inbox EXCEPT ![s] = Tail(inbox[s])]
        /\ socket' = socket /\ onlineUsers' = onlineUsers
    BY <1>2 DEF Presence!Receive
  <2>2. /\ inbox[s] \in Seq(Message) /\ view[s] \in SUBSET User
        /\ Head(inbox[s]) \in Message /\ Tail(inbox[s]) \in Seq(Message)
    BY <2>1 DEF PresenceInv, PresenceTypes
  <2>3. Presence!Apply(view[s], Head(inbox[s])) \in SUBSET User
    BY <2>2 DEF Presence!Apply, Message
  <2>4. PresenceTypes' /\ MapIsLive'
    BY <2>1, <2>2, <2>3 DEF PresenceInv, PresenceTypes, MapIsLive
  <2>5. ASSUME NEW t \in Socket, socket'[t] = "registered", NEW u \in User
        PROVE  Presence!Believes(view'[t], inbox'[t], u) <=> u \in Presence!Online'
    <3>1. Presence!Believes(view[t], inbox[t], u) <=> u \in Presence!Online
      BY <2>1, <2>5 DEF PresenceInv, ClientsAgree
    <3>2. Presence!Online' = Presence!Online
      BY <2>1 DEF Presence!Online
    <3>3. Presence!Believes(view'[t], inbox'[t], u) <=> Presence!Believes(view[t], inbox[t], u)
      <4>1. CASE t = s
        BY <2>1, <2>2, <4>1, FirstWord DEF PresenceInv, PresenceTypes
      <4>2. CASE t # s
        BY <2>1, <4>2 DEF PresenceInv, PresenceTypes
      <4> QED
        BY <4>1, <4>2
    <3> QED
      BY <3>1, <3>2, <3>3
  <2> QED
    BY <2>4, <2>5 DEF PresenceInv, ClientsAgree
<1>3. CASE Presence!Restart
  BY <1>3 DEF PresenceInv, PresenceTypes, SocketState, MapIsLive, ClientsAgree, Presence!Restart
<1>4. CASE UNCHANGED Presence!vars
  BY <1>4 DEF PresenceInv, PresenceTypes, MapIsLive, ClientsAgree, Presence!vars, Presence!Online
<1> QED
  BY <1>1, <1>2, <1>3, <1>4, RegisterAgrees, DisconnectAgrees DEF Presence!Next

\* Connected clients agree with the gateway on who is online, for any number
\* of users and sockets and whatever comes and goes while a token is checked
\* (handleConnection and handleDisconnect of the chat gateway).
THEOREM ClientsKnowWhoIsOnline == FairSpec => []ViewsAgree
<1>1. PresenceInv => ViewsAgree
  <2>1. UserOf \in [Socket -> User]
    BY ServicesAssumption DEF ServicesAssumption, Presence!PresenceAssumption
  <2> QED
    BY <2>1 DEF PresenceInv, PresenceTypes, MapIsLive, ClientsAgree, ViewsAgree, Presence!ViewsAgree,
                Presence!Online
<1> QED
  BY <1>1, PresenceInitially, PresenceKept, PresenceImplemented, PTL DEF Presence!Spec

------------------------------------------------------------------------------
\* The services move the conversation as chat-service does, or not at all.
LEMMA ChatImplemented == FairSpec => Chat!Spec
<1>1. Init => Chat!Init
  BY DEF Init
<1>2. [Next]_vars => [Chat!Next]_(Chat!vars)
  BY DEF Next, vars, chatVars, Chat!vars
<1> QED
  BY <1>1, <1>2, PTL DEF FairSpec, Chat!Spec

\* A set of places after m in a sequence is finite; a place after its end
\* adds one.
LEMMA OneMore ==
    ASSUME NEW m \in Nat, NEW n \in Nat, NEW S \in SUBSET (m + 1 .. n)
    PROVE  /\ Cardinality(S) \in Nat
           /\ Cardinality(S \cup {n + 1}) = Cardinality(S) + 1
<1>1. IsFiniteSet(m + 1 .. n)
  BY FS_Interval
<1>2. IsFiniteSet(S)
  BY <1>1, FS_Subset
<1>3. n + 1 \notin S
  OBVIOUS
<1> QED
  BY <1>2, <1>3, FS_CardinalityType, FS_AddElement

\* The messages of the other one that a user has not read.
Unread(u) == {i \in readTo[u] + 1 .. Len(messages) : messages[i] = Other[u]}

SendersKnown ==
    /\ DOMAIN chatHandler = Handler
    /\ \A h \in Handler : chatHandler[h].op = "send" => chatHandler[h].user \in User

\* Whoever sends is one of the two, and nobody has read what is not there.
ChatInv ==
    /\ messages \in Seq(User)
    /\ unread \in [User -> Nat]
    /\ readTo \in [User -> Nat]
    /\ SendersKnown
    /\ \A u \in User : readTo[u] <= Len(messages) /\ unread[u] = Cardinality(Unread(u))
    /\ messages # <<>> => lastSender = messages[Len(messages)]

LEMMA ChatInitially == Chat!Init => ChatInv
<1> SUFFICES ASSUME Chat!Init PROVE ChatInv
  OBVIOUS
<1>1. /\ messages = <<>> /\ unread = [u \in User |-> 0] /\ readTo = [u \in User |-> 0]
      /\ chatHandler = [h \in Handler |-> Chat!Free]
  BY DEF Chat!Init
<1>2. ASSUME NEW u \in User PROVE Cardinality(Unread(u)) = 0
  <2>1. Unread(u) = {}
    BY <1>1 DEF Unread
  <2> QED
    BY <2>1, FS_EmptySet
<1> QED
  BY <1>1, <1>2 DEF ChatInv, SendersKnown, Chat!Free

LEMMA ChatKept == ChatInv /\ [Chat!Next]_(Chat!vars) => ChatInv'
<1> SUFFICES ASSUME ChatInv, [Chat!Next]_(Chat!vars) PROVE ChatInv'
  OBVIOUS
<1>0. Other \in [User -> User] /\ \A u \in User : Other[Other[u]] = u
  BY ServicesAssumption DEF ServicesAssumption, Chat!ChatAssumption
<1>1. ASSUME UNCHANGED <<messages, unread, lastSender, readTo>>, SendersKnown'
      PROVE  ChatInv'
  BY <1>1 DEF ChatInv, Unread
<1>2. ASSUME NEW h \in Handler, NEW u \in User, Chat!SendRead(h, u) \/ Chat!ToggleRead(h, u)
      PROVE  ChatInv'
  <2>1. SendersKnown'
    BY <1>2 DEF ChatInv, SendersKnown, Chat!SendRead, Chat!ToggleRead
  <2> QED
    BY <1>1, <1>2, <2>1 DEF Chat!SendRead, Chat!ToggleRead
<1>3. ASSUME NEW h \in Handler, NEW u \in User, NEW e \in Emoji, Chat!ReactRead(h, u, e)
      PROVE  ChatInv'
  <2>1. SendersKnown'
    BY <1>3 DEF ChatInv, SendersKnown, Chat!ReactRead
  <2> QED
    BY <1>1, <1>3, <2>1 DEF Chat!ReactRead
<1>4. ASSUME NEW h \in Handler, Chat!ReactWrite(h) \/ Chat!ToggleWrite(h)
      PROVE  ChatInv'
  <2>1. SendersKnown'
    BY <1>4 DEF ChatInv, SendersKnown, Chat!ReactWrite, Chat!ToggleWrite, Chat!Free
  <2> QED
    BY <1>1, <1>4, <2>1 DEF Chat!ReactWrite, Chat!ToggleWrite
<1>5. ASSUME NEW u \in User, Chat!MarkAsRead(u)
      PROVE  ChatInv'
  <2>1. /\ unread' = [unread EXCEPT ![u] = 0]
        /\ readTo' = [readTo EXCEPT ![u] = Len(messages)]
        /\ messages' = messages /\ lastSender' = lastSender /\ SendersKnown'
    BY <1>5 DEF Chat!MarkAsRead, ChatInv, SendersKnown
  <2>2. Len(messages) \in Nat
    BY DEF ChatInv
  <2>3. ASSUME NEW v \in User PROVE unread'[v] = Cardinality(Unread(v)')
    <3>1. CASE v = u
      <4>1. Unread(v)' = {}
        BY <2>1, <2>2, <3>1 DEF ChatInv, Unread
      <4> QED
        BY <2>1, <3>1, <4>1, FS_EmptySet DEF ChatInv
    <3>2. CASE v # u
      <4>1. Unread(v)' = Unread(v)
        BY <2>1, <3>2 DEF ChatInv, Unread
      <4> QED
        BY <2>1, <3>2, <4>1 DEF ChatInv
    <3> QED
      BY <3>1, <3>2
  <2> QED
    BY <2>1, <2>2, <2>3 DEF ChatInv
<1>6. ASSUME NEW h \in Handler, Chat!SendWrite(h)
      PROVE  ChatInv'
  <2> DEFINE sender == chatHandler[h].user
             receiver == Other[sender]
  <2>1. /\ sender \in User /\ receiver \in User
        /\ messages' = Append(messages, sender)
        /\ unread' = [unread EXCEPT ![receiver] = unread[receiver] + 1]
        /\ lastSender' = sender /\ readTo' = readTo
        /\ chatHandler' = [chatHandler EXCEPT ![h] = Chat!Free]
    BY <1>0, <1>6 DEF ChatInv, SendersKnown, Chat!SendWrite
  <2>2. /\ Len(messages) \in Nat /\ Len(messages') = Len(messages) + 1
        /\ messages' \in Seq(User)
        /\ messages'[Len(messages) + 1] = sender
        /\ \A i \in 1..Len(messages) : messages'[i] = messages[i]
    BY <2>1 DEF ChatInv
  <2>3. ASSUME NEW v \in User PROVE unread'[v] = Cardinality(Unread(v)')
    <3>1. /\ readTo[v] \in Nat /\ readTo[v] <= Len(messages) /\ readTo'[v] = readTo[v]
          /\ unread[v] = Cardinality(Unread(v)) /\ unread[v] \in Nat
      BY <2>1 DEF ChatInv
    <3>2. CASE v = receiver
      <4>1. Other[v] = sender
        BY <1>0, <2>1, <3>2
      <4>2. Unread(v)' = Unread(v) \cup {Len(messages) + 1}
        BY <2>2, <3>1, <4>1 DEF Unread
      <4>3. Unread(v) \subseteq readTo[v] + 1 .. Len(messages)
        BY DEF Unread
      <4> DEFINE before == Unread(v)
                 m == readTo[v]
                 n == Len(messages)
      <4>4. Cardinality(before \cup {n + 1}) = Cardinality(before) + 1
        <5>1. m \in Nat /\ n \in Nat /\ before \in SUBSET (m + 1 .. n)
          BY <2>2, <3>1, <4>3
        <5> HIDE DEF before, m, n
        <5> QED
          BY <5>1, OneMore
      <4>5. unread'[v] = unread[v] + 1
        BY <2>1, <3>2 DEF ChatInv
      <4> QED
        BY <3>1, <4>2, <4>4, <4>5
    <3>3. CASE v # receiver
      <4>1. Other[v] # sender
        BY <1>0, <2>1, <3>3
      <4>2. Unread(v)' = Unread(v)
        BY <2>2, <3>1, <4>1 DEF Unread
      <4>3. unread'[v] = unread[v]
        BY <2>1, <3>3 DEF ChatInv
      <4> QED
        BY <3>1, <4>2, <4>3
    <3> QED
      BY <3>2, <3>3
  <2>4. unread' \in [User -> Nat]
    BY <2>1 DEF ChatInv
  <2>5. SendersKnown'
    BY <2>1 DEF ChatInv, SendersKnown, Chat!Free
  <2>6. \A u \in User : readTo'[u] <= Len(messages')
    BY <2>1, <2>2 DEF ChatInv
  <2> QED
    BY <2>1, <2>2, <2>3, <2>4, <2>5, <2>6 DEF ChatInv
<1>7. CASE Chat!CreateConversation \/ UNCHANGED Chat!vars
  <2>1. SendersKnown'
    BY <1>7 DEF ChatInv, SendersKnown, Chat!CreateConversation, Chat!vars
  <2> QED
    BY <1>1, <1>7, <2>1 DEF Chat!CreateConversation, Chat!vars
<1> QED
  BY <1>2, <1>3, <1>4, <1>5, <1>6, <1>7 DEF Chat!Next

\* The unread counts and the last sender in the row of a conversation are
\* those of its messages, for any number of requests that overlap
\* (sendMessage and markAsRead).
THEOREM RowAgrees == FairSpec => []RowMatchesMessages
<1>1. ChatInv => RowMatchesMessages
  <2>1. \A u \in User : Chat!Cardinality(Unread(u)) = Cardinality(Unread(u))
    BY DEF Chat!Cardinality, Cardinality
  <2> QED
    BY <2>1 DEF ChatInv, RowMatchesMessages, Chat!RowMatchesMessages, Unread
<1> QED
  BY <1>1, ChatInitially, ChatKept, ChatImplemented, PTL DEF Chat!Spec

------------------------------------------------------------------------------
\* The services page through the listings as propertyService does, or not at
\* all.
LEMMA SearchImplemented == FairSpec => Search!Spec
<1>1. Init => Search!Init
  BY DEF Init
<1>2. [Next]_vars => [Search!Next]_(Search!vars)
  BY DEF Next, vars, searchVars, Search!vars
<1> QED
  BY <1>1, <1>2, PTL DEF FairSpec, Search!Spec

\* The least of a set of numbers, and the greatest of a bounded one.
LEMMA LeastNumber ==
    ASSUME NEW T \in SUBSET Nat, T # {}
    PROVE  \E n \in T : \A m \in T : n <= m
<1>1. PICK n \in T : \A m \in T : ~(<<m, n>> \in OpToRel(<, Nat))
  BY NatLessThanWellFounded, WFMin
<1>2. ASSUME NEW m \in T, m < n PROVE FALSE
  <2>1. <<m, n>> \in OpToRel(<, Nat)
    BY <1>2 DEF OpToRel
  <2> QED
    BY <1>1, <2>1
<1> QED
  BY <1>2

LEMMA GreatestNumber ==
    ASSUME NEW T \in SUBSET Nat, T # {}, NEW b \in Nat, \A n \in T : n < b
    PROVE  \E n \in T : \A m \in T : m <= n
<1> DEFINE U == {b - n : n \in T}
<1>0. \A n \in T : n \in Nat /\ b - n \in Nat
  OBVIOUS
<1>1. U \in SUBSET Nat /\ U # {}
  BY <1>0
<1>2. PICK u \in U : \A v \in U : u <= v
  BY <1>1, LeastNumber
<1>3. PICK n \in T : u = b - n
  BY <1>2
<1>4. ASSUME NEW m \in T PROVE m <= n
  <2>1. u <= b - m
    BY <1>2
  <2> QED
    BY <1>0, <1>3, <2>1
<1> QED
  BY <1>4

\* The rows of a page: what the query is about and where each listing is.
SearchTypes ==
    /\ created \in [Listing -> Nat]
    /\ price \in [Listing -> Nat]
    /\ listed \subseteq Listing
    /\ query \in Search!Queries
    /\ page \in Nat
    /\ more \in BOOLEAN
    /\ times \in [Listing -> Nat]

\* a comes before b in the order of the search.
Before(a, b) == Search!Precedes(Search!SortKey(a), a, Search!SortKey(b), b)

\* The order is total: by the key and, for equal keys, by the id.
LEMMA OrderOfListings ==
    ASSUME SearchTypes, NEW a \in Listing, NEW b \in Listing, NEW c \in Listing
    PROVE  /\ Search!SortKey(a) \in Nat
           /\ ~Before(a, a)
           /\ a = b \/ Before(a, b) \/ Before(b, a)
           /\ Before(a, b) => ~Before(b, a)
           /\ Before(a, b) /\ Before(b, c) => Before(a, c)
<1>1. Listing \subseteq Nat
  BY ServicesAssumption DEF ServicesAssumption, Search!SearchAssumption
<1>2. /\ Search!SortKey(a) \in Nat /\ Search!SortKey(b) \in Nat /\ Search!SortKey(c) \in Nat
  BY DEF SearchTypes, Search!SortKey
<1> QED
  BY <1>1, <1>2 DEF Before, Search!Precedes

Ahead(l) == {k \in Search!Fitting : Before(k, l)}

LEMMA SearchCardinality == ASSUME NEW S PROVE Search!Cardinality(S) = Cardinality(S)
  BY DEF Search!Cardinality, Cardinality

\* A listing that comes before another has fewer ahead of it.
LEMMA Ranks ==
    ASSUME SearchTypes, NEW a \in Search!Fitting, NEW b \in Search!Fitting
    PROVE  /\ Search!Rank(a) \in Nat
           /\ Cardinality(Search!Fitting) \in Nat
           /\ Search!Rank(a) < Cardinality(Search!Fitting)
           /\ Before(a, b) => Search!Rank(a) < Search!Rank(b)
<1>1. Search!Fitting \subseteq Listing
  BY DEF Search!Fitting, SearchTypes
<1>2. IsFiniteSet(Search!Fitting)
  <2>1. IsFiniteSet(Listing)
    BY ServicesAssumption
       DEF ServicesAssumption, Search!SearchAssumption, Search!IsFiniteSet, IsFiniteSet
  <2> QED
    BY <1>1, <2>1, FS_Subset
<1>3. \A l : Search!Rank(l) = Cardinality(Ahead(l))
  BY SearchCardinality DEF Search!Rank, Ahead, Before
<1>4. /\ Ahead(a) \in SUBSET Search!Fitting /\ Ahead(b) \in SUBSET Search!Fitting
      /\ IsFiniteSet(Ahead(a)) /\ IsFiniteSet(Ahead(b))
  BY <1>2, FS_Subset DEF Ahead
<1>5. a \notin Ahead(a)
  BY <1>1, OrderOfListings DEF Ahead
<1>6. Cardinality(Ahead(a)) < Cardinality(Search!Fitting)
  BY <1>2, <1>4, <1>5, FS_Subset, FS_CardinalityType
<1>7. ASSUME Before(a, b) PROVE Cardinality(Ahead(a)) < Cardinality(Ahead(b))
  <2>1. Ahead(a) \in SUBSET Ahead(b)
    BY <1>1, <1>7, OrderOfListings DEF Ahead
  <2>2. a \in Ahead(b)
    BY <1>7 DEF Ahead
  <2> QED
    BY <1>4, <1>5, <2>1, <2>2, FS_Subset, FS_CardinalityType
<1> QED
  BY <1>2, <1>3, <1>4, <1>6, <1>7, FS_CardinalityType

\* A page by the cursor has the first rows that fit, and its last one, the
\* next cursor, separates them from the rest.
LEMMA PageIsFirst ==
    ASSUME SearchTypes, query.by = "cursor"
    PROVE  /\ Search!OnPage \subseteq Search!Fitting
           /\ ~Search!HasMore => Search!OnPage = Search!Fitting
           /\ Search!HasMore =>
                /\ Search!LastOn(Search!OnPage) \in Search!OnPage
                /\ \A l \in Search!Fitting :
                    l \in Search!OnPage <=> ~Before(Search!LastOn(Search!OnPage), l)
<1>1. Limit \in Nat \ {0}
  BY ServicesAssumption DEF ServicesAssumption, Search!SearchAssumption
<1>2. /\ Search!OnPage = {l \in Search!Fitting : 0 <= Search!Rank(l) /\ Search!Rank(l) < Limit}
      /\ Search!HasMore <=> Cardinality(Search!Fitting) > Limit
  BY <1>1, SearchCardinality DEF Search!OnPage, Search!HasMore, Search!Skipped
<1>3. \A l \in Search!OnPage : l \in Search!Fitting /\ Search!Rank(l) < Limit
  BY <1>2
<1>4. ASSUME ~Search!HasMore PROVE Search!OnPage = Search!Fitting
  BY <1>1, <1>2, <1>4, Ranks
<1>5. ASSUME Search!HasMore
      PROVE  /\ Search!LastOn(Search!OnPage) \in Search!OnPage
             /\ \A l \in Search!Fitting :
                    l \in Search!OnPage <=> ~Before(Search!LastOn(Search!OnPage), l)
  <2> DEFINE R == {Search!Rank(l) : l \in Search!Fitting}
             P == {Search!Rank(l) : l \in Search!OnPage}
             last == Search!LastOn(Search!OnPage)
  <2>1. Search!Fitting # {}
    BY <1>1, <1>2, <1>5, FS_EmptySet
  <2>2. Search!OnPage # {}
    <3>1. R \in SUBSET Nat /\ R # {}
      BY <2>1, Ranks
    <3>2. PICK n \in R : \A m \in R : n <= m
      BY <3>1, LeastNumber
    <3>3. PICK f \in Search!Fitting : n = Search!Rank(f)
      BY <3>2
    <3>4. Ahead(f) = {}
      <4>1. SUFFICES ASSUME NEW k \in Ahead(f) PROVE FALSE
        OBVIOUS
      <4>2. k \in Search!Fitting /\ Search!Rank(k) < Search!Rank(f)
        BY Ranks DEF Ahead
      <4> QED
        BY <3>2, <3>3, <4>2, Ranks
    <3>5. Search!Rank(f) = 0
      BY <3>4, FS_EmptySet, SearchCardinality DEF Search!Rank, Ahead, Before
    <3> QED
      BY <1>1, <1>2, <3>5
  <2>3. last \in Search!OnPage /\ \A k \in Search!OnPage : Search!Rank(k) <= Search!Rank(last)
    <3>1. P \in SUBSET Nat /\ P # {} /\ \A n \in P : n < Limit
      BY <1>3, <2>2, Ranks
    <3>2. \E n \in P : \A m \in P : m <= n
      BY <1>1, <3>1, GreatestNumber
    <3>3. \E l \in Search!OnPage : \A k \in Search!OnPage : Search!Rank(k) <= Search!Rank(l)
      BY <3>2
    <3> QED
      BY <3>3 DEF Search!LastOn
  <2>4. /\ Search!Fitting \subseteq Listing
        /\ last \in Search!Fitting /\ Search!Rank(last) < Limit
    BY <1>3, <2>3 DEF Search!Fitting, SearchTypes
  <2>5. ASSUME NEW l \in Search!Fitting
        PROVE  l \in Search!OnPage <=> ~Before(last, l)
    <3>1. ASSUME l \in Search!OnPage, Before(last, l) PROVE FALSE
      BY <2>3, <2>4, <3>1, Ranks
    <3>2. ASSUME l \notin Search!OnPage, ~Before(last, l) PROVE FALSE
      <4>1. l # last
        BY <2>3, <3>2
      <4>2. Before(l, last)
        BY <2>4, <3>2, <4>1, OrderOfListings
      <4>3. Search!Rank(l) < Search!Rank(last) /\ Search!Rank(l) \in Nat /\ Search!Rank(last) \in Nat
        BY <2>4, <4>2, Ranks
      <4> QED
        BY <1>1, <1>2, <2>4, <3>2, <4>3
    <3> QED
      BY <3>1, <3>2
  <2> QED
    BY <2>3, <2>5
<1> QED
  BY <1>3, <1>4, <1>5

\* What the reader asked for.
Wanted(l) == query.keyword => l \in matching

\* A listing that stays as it is has been shown once when the cursor is past
\* it, and is still to come when it is wanted and the cursor is not.
Settled(l) ==
    /\ l \in listed
    /\ times[l] <= 1
    /\ more => /\ times[l] = 1 => ~Search!AfterCursor(l)
               /\ Wanted(l) /\ times[l] = 0 => Search!AfterCursor(l)
    /\ ~more /\ Wanted(l) => times[l] = 1

SearchInv ==
    /\ SearchTypes
    /\ page = 0 => ~more /\ \A l \in Listing : times[l] = 0
    /\ query.by = "cursor" =>
        /\ cursor \in [key : Nat, id : Nat]
        /\ page > 0 => \A l \in Listing \ changed : Settled(l)

LEMMA SearchInitially == Search!Init => SearchInv
<1> SUFFICES ASSUME Search!Init PROVE SearchInv
  OBVIOUS
<1>1. Price \subseteq Nat
  BY ServicesAssumption DEF ServicesAssumption, Search!SearchAssumption
<1>2. /\ created \in [Listing -> 0..1] /\ price \in [Listing -> Price]
      /\ listed = {l \in Listing : created[l] > 0}
      /\ query \in Search!Queries /\ cursor = [key |-> 0, id |-> 0]
      /\ page = 0 /\ more = FALSE /\ times = [l \in Listing |-> 0]
  BY DEF Search!Init
<1>3. created \in [Listing -> Nat]
  BY <1>2
<1>4. price \in [Listing -> Nat]
  BY <1>1, <1>2
<1>5. listed \subseteq Listing /\ times \in [Listing -> Nat] /\ \A l \in Listing : times[l] = 0
  BY <1>2
<1>6. cursor \in [key : Nat, id : Nat] /\ page = 0 /\ ~more /\ more \in BOOLEAN
  BY <1>2
<1> QED
  BY <1>2, <1>3, <1>4, <1>5, <1>6 DEF SearchInv, SearchTypes

\* Another page, for a reader who resumes by the cursor.
LEMMA PageSettles ==
    ASSUME SearchInv, Search!NextPage, query.by = "cursor"
    PROVE  /\ cursor' \in [key : Nat, id : Nat]
           /\ \A l \in Listing \ changed' : Settled(l)'
<1> DEFINE last == Search!LastOn(Search!OnPage)
<1>1. Listing \subseteq Nat
  BY ServicesAssumption DEF ServicesAssumption, Search!SearchAssumption
<1>2. /\ SearchTypes
      /\ page' = page + 1 /\ more' = Search!HasMore
      /\ times' = [l \in Listing |-> IF l \in Search!OnPage THEN times[l] + 1 ELSE times[l]]
      /\ cursor' = IF Search!HasMore THEN [key |-> Search!SortKey(last), id |-> last] ELSE cursor
      /\ changed' = IF page = 0 THEN Listing \ listed ELSE changed
      /\ UNCHANGED <<created, price, listed, matching, query>>
      /\ page = 0 \/ more
      /\ cursor \in [key : Nat, id : Nat]
  BY DEF SearchInv, Search!NextPage
<1>3. Search!HasMore => last \in Listing /\ last \in Search!Fitting
  BY <1>2, PageIsFirst DEF Search!Fitting, SearchTypes
<1>4. cursor' \in [key : Nat, id : Nat]
  <2>1. CASE Search!HasMore
    <3>1. Search!SortKey(last) \in Nat
      BY <1>2, <1>3, <2>1, OrderOfListings
    <3> QED
      BY <1>1, <1>2, <1>3, <2>1, <3>1
  <2>2. CASE ~Search!HasMore
    BY <1>2, <2>2
  <2> QED
    BY <2>1, <2>2
<1>5. ASSUME NEW l \in Listing, Search!HasMore
      PROVE  Search!AfterCursor(l)' <=> Before(last, l)
  BY <1>2, <1>5 DEF Search!AfterCursor, Before, Search!SortKey, Search!Precedes
<1>6. ASSUME NEW l \in Listing \ changed' PROVE Settled(l)'
  <2>1. /\ l \in Listing /\ l \in listed /\ l \in listed'
        /\ page > 0 => Settled(l) /\ more
        /\ page = 0 => times[l] = 0
        /\ times[l] \in Nat /\ page \in Nat
    BY <1>2, <1>6 DEF SearchInv, SearchTypes, Settled
  <2>2. times'[l] = IF l \in Search!OnPage THEN times[l] + 1 ELSE times[l]
    BY <1>2, <2>1
  <2>3. Wanted(l)' <=> Wanted(l)
    BY <1>2 DEF Wanted
  <2>4. l \in Search!Fitting => times[l] = 0
    BY <2>1 DEF Search!Fitting, Settled
  <2>5. Wanted(l) /\ times[l] = 0 => l \in Search!Fitting
    BY <2>1 DEF Search!Fitting, Settled, Wanted
  <2>6. l \in Search!OnPage => l \in Search!Fitting
    BY <1>2, PageIsFirst
  <2>7. times'[l] <= 1
    BY <2>1, <2>2, <2>4, <2>6 DEF Settled
  <2>8. CASE Search!HasMore
    <3>1. l \in Search!Fitting => (l \in Search!OnPage <=> ~Before(last, l))
      BY <1>2, <2>8, PageIsFirst
    <3>2. ASSUME times'[l] = 1 PROVE ~Before(last, l)
      <4>1. CASE l \in Search!OnPage
        BY <2>6, <3>1, <4>1
      <4>2. CASE l \notin Search!OnPage
        <5>1. page > 0 /\ times[l] = 1 /\ ~Search!AfterCursor(l)
          BY <2>1, <2>2, <3>2, <4>2 DEF Settled
        <5>2. Search!AfterCursor(last)
          BY <1>2, <1>3, <2>8, <5>1 DEF Search!Fitting
        <5>3. /\ Search!SortKey(l) \in Nat /\ Search!SortKey(last) \in Nat
              /\ l \in Nat /\ last \in Nat
              /\ cursor.key \in Nat /\ cursor.id \in Nat
          BY <1>1, <1>2, <1>3, <2>1, <2>8, OrderOfListings
        <5> HIDE DEF last
        <5> QED
          BY <5>1, <5>2, <5>3 DEF Before, Search!AfterCursor, Search!Precedes
      <4> QED
        BY <4>1, <4>2
    <3>3. ASSUME Wanted(l), times'[l] = 0 PROVE Before(last, l)
      <4>1. l \notin Search!OnPage /\ times[l] = 0
        BY <2>1, <2>2, <3>3
      <4> QED
        BY <2>5, <3>1, <3>3, <4>1
    <3> QED
      BY <1>2, <1>5, <2>1, <2>3, <2>7, <2>8, <3>2, <3>3 DEF Settled
  <2>9. CASE ~Search!HasMore
    <3>1. ASSUME Wanted(l) PROVE times'[l] = 1
      <4>1. CASE times[l] = 0
        BY <1>2, <2>2, <2>5, <2>9, <3>1, <4>1, PageIsFirst
      <4>2. CASE times[l] # 0
        <5>1. times[l] = 1
          BY <2>1, <4>2 DEF Settled
        <5> QED
          BY <2>2, <2>4, <2>6, <5>1
      <4> QED
        BY <4>1, <4>2
    <3> QED
      BY <1>2, <2>1, <2>3, <2>7, <2>9, <3>1 DEF Settled
  <2> QED
    BY <2>8, <2>9
<1> QED
  BY <1>4, <1>6

LEMMA SearchKept == SearchInv /\ [Search!Next]_(Search!vars) => SearchInv'
<1> SUFFICES ASSUME SearchInv, [Search!Next]_(Search!vars) PROVE SearchInv'
  OBVIOUS
<1>1. Price \subseteq Nat
  BY ServicesAssumption DEF ServicesAssumption, Search!SearchAssumption
<1>2. CASE Search!NextPage
  <2>1. SearchTypes' /\ query' = query /\ page' > 0
    BY <1>2 DEF SearchInv, SearchTypes, Search!NextPage, Search!HasMore
  <2> QED
    BY <1>2, <2>1, PageSettles DEF SearchInv
<1>3. ASSUME NEW l \in Listing, Search!Appear(l) \/ Search!TakeOff(l) \/ Search!PutBack(l)
      PROVE  SearchInv'
  <2>1. /\ changed' = changed \cup {l}
        /\ UNCHANGED <<matching, query, cursor, page, more, times>>
        /\ \A m \in Listing : m # l => /\ created'[m] = created[m] /\ price'[m] = price[m]
                                       /\ m \in listed' <=> m \in listed
    BY <1>3 DEF SearchInv, SearchTypes, Search!Appear, Search!TakeOff, Search!PutBack, Search!Change
  <2>2. SearchTypes'
    BY <1>1, <1>3
       DEF SearchInv, SearchTypes, Search!Appear, Search!TakeOff, Search!PutBack, Search!Change
  <2>3. ASSUME NEW m \in Listing \ changed', query.by = "cursor", page > 0 PROVE Settled(m)'
    <3>1. m # l /\ m \in Listing /\ Settled(m)
      BY <2>1, <2>3 DEF SearchInv
    <3>2. Search!AfterCursor(m)' <=> Search!AfterCursor(m)
      BY <2>1, <3>1 DEF Search!AfterCursor, Search!SortKey, Search!Precedes
    <3> QED
      BY <2>1, <3>1, <3>2 DEF Settled, Wanted
  <2> QED
    BY <2>1, <2>2, <2>3 DEF SearchInv
<1>4. CASE UNCHANGED Search!vars
  BY <1>4 DEF Search!vars, SearchInv, SearchTypes, Settled, Wanted, Search!AfterCursor,
              Search!SortKey, Search!Precedes
<1> QED
  BY <1>2, <1>3, <1>4 DEF Search!Next

\* Paging with the cursor shows every listing that matches and stays as it is
\* exactly once, for any number of listings and pages, whatever comes and goes
\* meanwhile (searchProperties and searchAuthProperties).
THEOREM EachShownOnce == FairSpec => []EachListingOnce
<1>1. SearchInv => EachListingOnce
  <2> SUFFICES ASSUME SearchInv, query.by = "cursor", NEW l \in Listing \ changed
               PROVE  /\ times[l] <= 1
                      /\ Search!Finished /\ Wanted(l) => times[l] = 1
    BY DEF EachListingOnce, Search!EachListingOnce, Wanted
  <2>1. page \in Nat /\ times[l] \in Nat
    BY DEF SearchInv, SearchTypes
  <2>2. CASE page = 0
    BY <2>1, <2>2 DEF SearchInv, Search!Finished
  <2>3. CASE page # 0
    <3>1. Settled(l)
      BY <2>1, <2>3 DEF SearchInv
    <3> QED
      BY <3>1 DEF Settled, Search!Finished
  <2> QED
    BY <2>2, <2>3
<1> QED
  BY <1>1, SearchInitially, SearchKept, SearchImplemented, PTL DEF Search!Spec

------------------------------------------------------------------------------
\* The services bill the lease as the crons of contract-service do, or not at
\* all.
LEMMA RentImplemented == FairSpec => Rent!Spec
<1>1. Init => Rent!Init
  BY DEF Init
<1>2. [Next]_vars => [Rent!Next]_(Rent!vars)
  BY DEF Next, vars, rentVars, Rent!vars
<1> QED
  BY <1>1, <1>2, PTL DEF FairSpec, Rent!Spec

\* The calendar: months of 28 to 31 days, one after the other.
LEMMA Calendar ==
    /\ Len(FirstDay) \in Nat /\ Len(FirstDay) > 1 /\ FirstDay[1] = 1
    /\ \A n \in 1..Len(FirstDay) : FirstDay[n] \in Nat
    /\ Rent!Month = 1..(Len(FirstDay) - 1)
    /\ \A m \in Rent!Month :
        /\ m \in 1..Len(FirstDay) /\ m + 1 \in 1..Len(FirstDay)
        /\ FirstDay[m + 1] >= FirstDay[m] + 28 /\ FirstDay[m + 1] <= FirstDay[m] + 31
        /\ Rent!MonthDays(m) = FirstDay[m + 1] - FirstDay[m]
<1>1. /\ FirstDay \in Seq(Nat) /\ Len(FirstDay) > 1 /\ FirstDay[1] = 1
      /\ \A m \in Rent!Month : Rent!MonthDays(m) \in 28..31
  BY ServicesAssumption DEF ServicesAssumption, Rent!CalendarAssumption
<1>2. Rent!Month = 1..(Len(FirstDay) - 1)
  BY DEF Rent!Month
<1>3. Len(FirstDay) \in Nat /\ \A n \in 1..Len(FirstDay) : FirstDay[n] \in Nat
  BY <1>1
<1>4. ASSUME NEW m \in Rent!Month
      PROVE  /\ m \in 1..Len(FirstDay) /\ m + 1 \in 1..Len(FirstDay)
             /\ FirstDay[m + 1] >= FirstDay[m] + 28 /\ FirstDay[m + 1] <= FirstDay[m] + 31
             /\ Rent!MonthDays(m) = FirstDay[m + 1] - FirstDay[m]
  <2>1. m \in 1..Len(FirstDay) /\ m + 1 \in 1..Len(FirstDay)
    BY <1>2, <1>3
  <2>2. FirstDay[m] \in Nat /\ FirstDay[m + 1] \in Nat
    BY <1>3, <2>1
  <2>3. /\ Rent!MonthDays(m) = FirstDay[m + 1] - FirstDay[m]
        /\ Rent!MonthDays(m) \in 28..31
    BY <1>1 DEF Rent!MonthDays
  <2> QED
    BY <2>1, <2>2, <2>3
<1> QED
  BY <1>1, <1>2, <1>3, <1>4

\* A month ends before a later one begins.
LEMMA MonthsInOrder ==
    ASSUME NEW m \in Rent!Month, NEW n \in 1..Len(FirstDay), m < n
    PROVE  FirstDay[m + 1] <= FirstDay[n]
<1> DEFINE T == {k \in m + 1 .. Len(FirstDay) : FirstDay[k] < FirstDay[m + 1]}
<1>1. SUFFICES ASSUME T # {} PROVE FALSE
  <2>1. n \in m + 1 .. Len(FirstDay) /\ FirstDay[n] \in Nat /\ FirstDay[m + 1] \in Nat
    BY Calendar
  <2>2. ASSUME FirstDay[n] < FirstDay[m + 1] PROVE n \in T
    BY <2>1, <2>2
  <2> QED
    BY <1>1, <2>1, <2>2
<1>2. T \in SUBSET Nat
  BY Calendar
<1>3. PICK k \in T : \A j \in T : k <= j
  BY <1>1, <1>2, LeastNumber
<1>4. k # m + 1 /\ k - 1 \in m + 1 .. Len(FirstDay) /\ k - 1 \in Rent!Month
  BY <1>3, Calendar
<1>5. k - 1 \notin T
  BY <1>3, <1>4, Calendar
<1>6. FirstDay[k - 1] >= FirstDay[m + 1]
  BY <1>4, <1>5, Calendar
<1>7. FirstDay[(k - 1) + 1] >= FirstDay[k - 1] + 28
  BY <1>4, Calendar
<1>8. (k - 1) + 1 = k /\ FirstDay[k - 1] \in Nat /\ FirstDay[k] \in Nat /\ FirstDay[m + 1] \in Nat
  BY <1>3, <1>4, Calendar
<1> QED
  BY <1>3, <1>6, <1>7, <1>8

\* Every day of the calendar is in one month.
LEMMA MonthOfDay ==
    ASSUME NEW d \in Rent!Day
    PROVE  /\ Rent!MonthOf(d) \in Rent!Month
           /\ FirstDay[Rent!MonthOf(d)] <= d
           /\ d < FirstDay[Rent!MonthOf(d) + 1]
           /\ \A m \in Rent!Month :
                FirstDay[m] <= d /\ d < FirstDay[m + 1] => Rent!MonthOf(d) = m
<1> DEFINE T == {n \in 2..Len(FirstDay) : d < FirstDay[n]}
<1>1. d \in Nat /\ 1 <= d /\ d < FirstDay[Len(FirstDay)]
  BY Calendar DEF Rent!Day
<1>2. T \in SUBSET Nat /\ Len(FirstDay) \in T
  BY <1>1, Calendar
<1>3. PICK n \in T : \A k \in T : n <= k
  BY <1>2, LeastNumber
<1>4. n - 1 \in Rent!Month /\ (n - 1) + 1 = n /\ n \in 2..Len(FirstDay) /\ d < FirstDay[n]
  BY <1>3, Calendar
<1>5. FirstDay[n - 1] <= d
  <2>1. CASE n - 1 = 1
    BY <1>1, <2>1, Calendar
  <2>2. CASE n - 1 # 1
    <3>1. n - 1 \in 2..Len(FirstDay) /\ n - 1 \notin T
      BY <1>3, <1>4, <2>2, Calendar
    <3> QED
      BY <1>1, <3>1, Calendar
  <2> QED
    BY <2>1, <2>2
<1>6. \E m \in Rent!Month : FirstDay[m] <= d /\ d < FirstDay[m + 1]
  BY <1>4, <1>5
<1>7. /\ Rent!MonthOf(d) \in Rent!Month
      /\ FirstDay[Rent!MonthOf(d)] <= d /\ d < FirstDay[Rent!MonthOf(d) + 1]
  BY <1>6 DEF Rent!MonthOf
<1>8. ASSUME NEW m \in Rent!Month, FirstDay[m] <= d, d < FirstDay[m + 1], Rent!MonthOf(d) # m
      PROVE  FALSE
  <2> DEFINE k == Rent!MonthOf(d)
  <2>1. k \in Rent!Month /\ FirstDay[k] <= d /\ d < FirstDay[k + 1] /\ k # m
    BY <1>7, <1>8
  <2> HIDE DEF k
  <2>2. /\ k \in 1..Len(FirstDay) /\ m \in 1..Len(FirstDay)
        /\ FirstDay[k] \in Nat /\ FirstDay[m] \in Nat
        /\ FirstDay[k + 1] \in Nat /\ FirstDay[m + 1] \in Nat
    BY <2>1, Calendar
  <2>3. k < m => FirstDay[k + 1] <= FirstDay[m]
    BY <2>1, <2>2, MonthsInOrder
  <2>4. m < k => FirstDay[m + 1] <= FirstDay[k]
    BY <2>1, <2>2, MonthsInOrder
  <2> QED
    BY <1>1, <1>8, <2>1, <2>2, <2>3, <2>4
<1> QED
  BY <1>7, <1>8

LeaseKnown == lease \in Rent!Leases

\* The due day of a month, and the day it is due for this lease, lie in it.
LEMMA DueInItsMonth ==
    ASSUME LeaseKnown, NEW m \in Rent!Month
    PROVE  /\ Rent!DueInMonth(m) \in Rent!Day
           /\ FirstDay[m] <= Rent!DueInMonth(m) /\ Rent!DueInMonth(m) < FirstDay[m + 1]
           /\ Rent!DueInMonth(m) <= FirstDay[m] - 1 + lease.dueDay
           /\ Rent!DueInMonth(m) >= FirstDay[m] + 27
                \/ Rent!DueInMonth(m) = FirstDay[m] - 1 + lease.dueDay
           /\ Rent!MonthOf(Rent!DueInMonth(m)) = m
           /\ Rent!EffectiveDue(m) \in Rent!Day
           /\ FirstDay[m] <= Rent!EffectiveDue(m) /\ Rent!EffectiveDue(m) < FirstDay[m + 1]
           /\ Rent!MonthOf(Rent!EffectiveDue(m)) = m
           /\ Rent!DueInMonth(m) <= Rent!EffectiveDue(m)
<1> DEFINE due == Rent!DueInMonth(m)
<1>1. lease.dueDay \in 1..31 /\ lease.start \in Rent!Day
  BY ServicesAssumption
     DEF LeaseKnown, Rent!Leases, ServicesAssumption, Rent!CalendarAssumption
<1>2. /\ FirstDay[m] \in Nat /\ FirstDay[m + 1] \in Nat
      /\ FirstDay[m + 1] >= FirstDay[m] + 28
      /\ Rent!MonthDays(m) = FirstDay[m + 1] - FirstDay[m]
      /\ FirstDay[m] >= 1 /\ FirstDay[m + 1] <= FirstDay[Len(FirstDay)]
      /\ FirstDay[Len(FirstDay)] \in Nat
  <2>1. 1 \in Rent!Month /\ m \in 1..Len(FirstDay) /\ m + 1 \in 1..Len(FirstDay)
        /\ Len(FirstDay) \in 1..Len(FirstDay)
    BY Calendar
  <2>2. FirstDay[m] >= 1
    <3>1. CASE m = 1
      BY <3>1, Calendar
    <3>2. CASE m # 1
      <4>1. FirstDay[1 + 1] <= FirstDay[m] /\ FirstDay[1 + 1] >= FirstDay[1] + 28
        BY <2>1, <3>2, MonthsInOrder, Calendar
      <4>2. FirstDay[1 + 1] \in Nat /\ FirstDay[m] \in Nat /\ FirstDay[1] = 1
        BY <2>1, Calendar
      <4> QED
        BY <4>1, <4>2
    <3> QED
      BY <3>1, <3>2
  <2>3. FirstDay[m + 1] <= FirstDay[Len(FirstDay)]
    BY <2>1, MonthsInOrder, Calendar
  <2> QED
    BY <2>1, <2>2, <2>3, Calendar
<1>3. /\ due \in Nat /\ FirstDay[m] <= due /\ due < FirstDay[m + 1]
      /\ due <= FirstDay[m] - 1 + lease.dueDay
      /\ due >= FirstDay[m] + 27 \/ due = FirstDay[m] - 1 + lease.dueDay
  <2> DEFINE days == FirstDay[m + 1] - FirstDay[m]
             dueDay == lease.dueDay
  <2>1. due = FirstDay[m] - 1 + (IF dueDay > days THEN days ELSE dueDay)
    BY <1>2 DEF Rent!DueInMonth
  <2>2. days \in Nat /\ days >= 28 /\ dueDay \in Nat /\ dueDay >= 1 /\ dueDay <= 31
    <3>1. days \in Nat /\ days >= 28
      BY <1>2
    <3>2. dueDay \in 1..31
      BY <1>1
    <3> HIDE DEF days, dueDay
    <3> QED
      BY <3>1, <3>2
  <2>3. FirstDay[m + 1] = FirstDay[m] + days
    BY <1>2
  <2> HIDE DEF due, days, dueDay
  <2>4. /\ due \in Nat /\ FirstDay[m] <= due /\ due < FirstDay[m] + days
        /\ due <= FirstDay[m] - 1 + dueDay
        /\ due >= FirstDay[m] + 27 \/ due = FirstDay[m] - 1 + dueDay
    BY <1>2, <2>1, <2>2
  <2> QED
    BY <2>3, <2>4 DEF dueDay
<1> HIDE DEF due
<1>4. due \in Rent!Day
  BY <1>2, <1>3 DEF Rent!Day
<1>5. Rent!MonthOf(due) = m
  BY <1>3, <1>4, MonthOfDay
<1>6. CASE Rent!BeforeStart(m)
  <2>1. Rent!EffectiveDue(m) = lease.start /\ Rent!MonthOf(lease.start) = m /\ due < lease.start
    BY <1>6 DEF Rent!EffectiveDue, Rent!BeforeStart, due
  <2>2. FirstDay[m] <= lease.start /\ lease.start < FirstDay[m + 1] /\ lease.start \in Nat
    BY <1>1, <2>1, MonthOfDay DEF Rent!Day
  <2> QED
    BY <1>1, <1>3, <1>4, <1>5, <2>1, <2>2 DEF due
<1>7. CASE ~Rent!BeforeStart(m)
  <2>1. Rent!EffectiveDue(m) = due
    BY <1>7 DEF Rent!EffectiveDue, due
  <2> QED
    BY <1>3, <1>4, <1>5, <2>1 DEF due
<1> QED
  BY <1>6, <1>7

\* What the run of a day decides on: the due day it looks at, if any.
Decides(d, kind, due) ==
    LET next == Rent!MonthlyDueDate(d)
        past == Rent!EffectiveDue(Rent!MonthOf(d))
    IN  \/ d = next - 5 /\ kind = "before" /\ due = next
        \/ d # next - 5 /\ d = next /\ kind = "due" /\ due = next
        \/ d # next - 5 /\ d # next /\ d > past /\ kind = "overdue" /\ due = past

InLease == billDay \in lease.start..End

\* On every day on which the bills of a month are chased, the run of the
\* monthly cron is about that month.
LEMMA ChaseDecides ==
    ASSUME LeaseKnown, NEW d \in lease.start..End, NEW m \in Rent!Month, m # Rent!LastMonth,
           NEW from \in {"notice", "overdue"}, Rent!Chased(m, from, d)
    PROVE  /\ \E kind \in {"before", "due", "overdue"} : Decides(d, kind, Rent!EffectiveDue(m))
           /\ from = "overdue" => Decides(d, "overdue", Rent!EffectiveDue(m))
<1> DEFINE k == Rent!MonthOf(d)
           eff == Rent!EffectiveDue(m)
           due == Rent!DueInMonth(m)
           next == Rent!MonthlyDueDate(d)
<1>1. /\ lease.start \in Rent!Day /\ lease.dueDay \in 1..31 /\ End \in Rent!Day
      /\ End < FirstDay[Rent!LastMonth]
  BY ServicesAssumption
     DEF LeaseKnown, Rent!Leases, ServicesAssumption, Rent!CalendarAssumption
<1>2. d \in Rent!Day /\ d \in Nat /\ lease.start \in Nat /\ lease.start <= d
  <2>1. FirstDay[Len(FirstDay)] \in Nat
    BY Calendar
  <2> QED
    BY <1>1, <2>1 DEF Rent!Day
<1>3. /\ k \in Rent!Month /\ FirstDay[k] <= d /\ d < FirstDay[k + 1]
      /\ FirstDay[k] \in Nat /\ FirstDay[k + 1] \in Nat
  BY <1>2, MonthOfDay, Calendar
<1>4. /\ m + 1 \in Rent!Month
      /\ FirstDay[m] \in Nat /\ FirstDay[m + 1] \in Nat
      /\ FirstDay[m + 1] >= FirstDay[m] + 28
  <2>1. m + 1 \in Rent!Month
    BY Calendar DEF Rent!LastMonth
  <2> QED
    BY <2>1, Calendar
<1>5. /\ due \in Nat /\ eff \in Nat
      /\ FirstDay[m] <= due /\ due < FirstDay[m + 1]
      /\ FirstDay[m] <= eff /\ eff < FirstDay[m + 1]
      /\ due <= FirstDay[m] - 1 + lease.dueDay
      /\ Rent!MonthOf(eff) = m
  BY DueInItsMonth DEF Rent!Day
<1>6. /\ Rent!DueInMonth(m + 1) \in Nat
      /\ FirstDay[m + 1] <= Rent!DueInMonth(m + 1)
  BY <1>4, DueInItsMonth DEF Rent!Day
<1>7. IF Rent!BeforeStart(m)
      THEN eff = lease.start /\ Rent!MonthOf(lease.start) = m /\ due < lease.start
      ELSE eff = due
  BY DEF Rent!EffectiveDue, Rent!BeforeStart
<1>8. next = IF Rent!BeforeStart(k) /\ d <= lease.start THEN lease.start
             ELSE IF d > Rent!DueInMonth(k) THEN Rent!DueInMonth(k + 1)
             ELSE Rent!DueInMonth(k)
  BY DEF Rent!MonthlyDueDate
<1> HIDE DEF k, eff, due, next
<1>9. CASE d > eff /\ k = m /\ d # Rent!DueInMonth(m + 1) - 5
  <2>1. ~(Rent!BeforeStart(m) /\ d <= lease.start)
    BY <1>2, <1>5, <1>7, <1>9
  <2>2. d > due
    BY <1>2, <1>5, <1>7, <1>9
  <2>3. next = Rent!DueInMonth(m + 1)
    BY <1>8, <1>9, <2>1, <2>2 DEF due
  <2>4. d # next - 5 /\ d # next
    BY <1>2, <1>3, <1>6, <1>9, <2>3
  <2>5. Decides(d, "overdue", eff)
    BY <1>9, <2>4 DEF Decides, next, eff, k
  <2> QED
    BY <2>5 DEF eff
<1>10. CASE from = "notice" /\ d = eff
  <2>1. k = m
    BY <1>5, <1>10 DEF k
  <2>2. next = d
    BY <1>2, <1>5, <1>7, <1>8, <1>10, <2>1 DEF due
  <2>3. Decides(d, "due", eff)
    BY <1>2, <1>10, <2>2 DEF Decides, next
  <2> QED
    BY <1>10, <2>3 DEF eff
<1>11. CASE from = "notice" /\ d = eff - 5 /\ (d = Rent!EffectiveDue(k) => k = m)
  <2>1. eff = due /\ ~Rent!BeforeStart(m)
    BY <1>2, <1>5, <1>7, <1>11
  <2>2. CASE k = m
    <3>1. next = eff
      BY <1>2, <1>5, <1>8, <1>11, <2>1, <2>2 DEF due
    <3> QED
      BY <1>11, <3>1 DEF Decides, next, eff
  <2>3. CASE k # m
    <3>1. k + 1 = m
      <4>1. k \in 1..Len(FirstDay) /\ m \in 1..Len(FirstDay) /\ k \in Nat /\ m \in Nat
        BY <1>3, Calendar
      <4>2. ~(m < k)
        <5>1. m < k => FirstDay[m + 1] <= FirstDay[k]
          BY <4>1, MonthsInOrder
        <5> QED
          BY <1>2, <1>3, <1>4, <1>5, <1>11, <5>1
      <4>3. ~(k + 1 < m)
        <5>1. ASSUME k + 1 < m PROVE FALSE
          <6>1. k + 1 \in Rent!Month
            BY <4>1, <5>1, Calendar
          <6>2. FirstDay[(k + 1) + 1] <= FirstDay[m]
            BY <4>1, <5>1, <6>1, MonthsInOrder
          <6>3. FirstDay[(k + 1) + 1] >= FirstDay[k + 1] + 28 /\ FirstDay[(k + 1) + 1] \in Nat
            BY <6>1, Calendar
          <6> QED
            BY <1>2, <1>3, <1>4, <1>5, <1>11, <6>2, <6>3
        <5> QED
          BY <5>1
      <4> QED
        BY <2>3, <4>1, <4>2, <4>3
    <3>2. lease.dueDay <= 5 \/ due >= FirstDay[m] + 27
      <4>1. due >= FirstDay[m] + 27 \/ due = FirstDay[m] - 1 + lease.dueDay
        BY DueInItsMonth DEF due
      <4>2. d < FirstDay[m]
        BY <1>3, <3>1
      <4> QED
        BY <1>1, <1>2, <1>4, <1>5, <1>11, <2>1, <4>1, <4>2
    <3>3. d > Rent!DueInMonth(k)
      <4>1. /\ Rent!DueInMonth(k) <= FirstDay[k] - 1 + lease.dueDay
            /\ Rent!DueInMonth(k) \in Nat
        BY <1>3, DueInItsMonth DEF Rent!Day
      <4>2. FirstDay[m] >= FirstDay[k] + 28
        BY <1>3, <3>1, Calendar
      <4>3. d < FirstDay[m]
        BY <1>3, <3>1
      <4> QED
        BY <1>1, <1>2, <1>3, <1>4, <1>5, <1>11, <2>1, <3>2, <4>1, <4>2, <4>3
    <3>4. ~(Rent!BeforeStart(k) /\ d <= lease.start)
      <4>1. ASSUME Rent!BeforeStart(k), d <= lease.start PROVE FALSE
        <5>1. d = lease.start
          BY <1>2, <4>1
        <5>2. Rent!EffectiveDue(k) = lease.start
          BY <4>1 DEF Rent!EffectiveDue
        <5> QED
          BY <1>11, <2>3, <5>1, <5>2
      <4> QED
        BY <4>1
    <3>5. next = eff
      BY <1>8, <2>1, <3>1, <3>3, <3>4 DEF due
    <3> QED
      BY <1>11, <3>5 DEF Decides, next, eff
  <2> QED
    BY <2>2, <2>3
<1> QED
  BY <1>9, <1>10, <1>11 DEF Rent!Chased, k, eff

------------------------------------------------------------------------------
Bill == [type : {"rent", "charge"}, due : Rent!Day, status : {"pending", "overdue", "paid"}]

BillingRun ==
    [at : {"find", "charges", "mark"}, kind : {"before", "due", "overdue"}, due : Rent!Day,
     bill : Nat, read : {"none", "pending", "overdue", "paid"}]

RentTypes ==
    /\ LeaseKnown /\ InLease
    /\ leaseStatus \in {"active", "near_expiration", "terminated"}
    /\ bills \in Seq(Bill)
    /\ billing \in {Rent!Idle} \cup BillingRun
    /\ billSweep \in {Rent!Idle, [at |-> "terminate"]}
    /\ ranToday \subseteq {"billing", "sweep"}
    /\ missed \in Nat

InMonth(type, m) == {i \in 1..Len(bills) : bills[i].type = type /\ Rent!MonthOf(bills[i].due) = m}

OneBill ==
    \A i, j \in 1..Len(bills) :
        bills[i].type = bills[j].type /\ Rent!MonthOf(bills[i].due) = Rent!MonthOf(bills[j].due)
            => i = j

\* What a run of the monthly cron knows: it looks at the due day its day
\* decides on, and past its first step the rent and then the charges of that
\* month are there.
RunKnows ==
    billing # Rent!Idle =>
        /\ "billing" \notin ranToday
        /\ Decides(billDay, billing.kind, billing.due)
        /\ billing.at \in {"charges", "mark"} => billing.bill \in InMonth("rent", Rent!MonthOf(billing.due))
        /\ billing.at = "mark" =>
            /\ billing.kind = "overdue" /\ billing.read = "pending"
            /\ InMonth("charge", Rent!MonthOf(billing.due)) # {}

BillInv == RentTypes /\ OneBill /\ RunKnows

LEMMA IdleRun == \A r \in BillingRun : r # Rent!Idle
  BY DEF BillingRun, Rent!Idle

\* Bills are added; what they are for and when they are due stays.
BillsGrow ==
    /\ bills' \in Seq(Bill) /\ Len(bills) <= Len(bills')
    /\ \A i \in 1..Len(bills) : bills'[i].type = bills[i].type /\ bills'[i].due = bills[i].due

LEMMA MonthsGrow ==
    ASSUME RentTypes, BillsGrow, NEW type, NEW m
    PROVE  InMonth(type, m) \subseteq InMonth(type, m)'
  BY DEF RentTypes, BillsGrow, InMonth

LEMMA FoundInMonth ==
    ASSUME RentTypes, NEW type, NEW due
    PROVE  Rent!FindMonthly(type, due) = InMonth(type, Rent!MonthOf(due))
  BY DEF RentTypes, Rent!FindMonthly, InMonth

\* The due day a run looks at is in the calendar.
LEMMA DecisionInCalendar ==
    ASSUME LeaseKnown, InLease
    PROVE  /\ Rent!MonthOf(billDay) \in Rent!Month
           /\ Rent!MonthlyDueDate(billDay) \in Rent!Day
           /\ Rent!EffectiveDue(Rent!MonthOf(billDay)) \in Rent!Day
<1> DEFINE k == Rent!MonthOf(billDay)
<1>1. /\ lease.start \in Rent!Day /\ End \in Rent!Day /\ End < FirstDay[Rent!LastMonth]
  BY ServicesAssumption
     DEF LeaseKnown, Rent!Leases, ServicesAssumption, Rent!CalendarAssumption
<1>2. billDay \in Rent!Day /\ billDay < FirstDay[Rent!LastMonth]
  <2>1. FirstDay[Len(FirstDay)] \in Nat /\ FirstDay[Rent!LastMonth] \in Nat
    BY Calendar DEF Rent!LastMonth
  <2> QED
    BY <1>1, <2>1 DEF InLease, Rent!Day
<1>3. k \in Rent!Month /\ FirstDay[k] <= billDay
  BY <1>2, MonthOfDay
<1> HIDE DEF k
<1>4. k + 1 \in Rent!Month
  <2>1. k # Rent!LastMonth
    <3>1. FirstDay[k] \in Nat /\ billDay \in Nat
      BY <1>2, <1>3, Calendar DEF Rent!Day
    <3> QED
      BY <1>2, <1>3, <3>1
  <2> QED
    BY <1>3, <2>1, Calendar DEF Rent!LastMonth
<1> QED
  BY <1>1, <1>3, <1>4, DueInItsMonth DEF Rent!MonthlyDueDate, k

\* A run starts on what its day decides, or there is nothing to decide.
LEMMA RunDecides ==
    ASSUME RentTypes, Rent!MonthlyPayment
    PROVE  \/ /\ ranToday' = ranToday
              /\ billing' \in BillingRun /\ billing'.at = "find"
              /\ Decides(billDay, billing'.kind, billing'.due)
           \/ /\ billing' = billing
              /\ ranToday' = ranToday \cup {"billing"}
              /\ leaseStatus = "active" =>
                    \A kind \in {"before", "due", "overdue"}, due \in Rent!Day : ~Decides(billDay, kind, due)
<1> DEFINE next == Rent!MonthlyDueDate(billDay)
           past == Rent!EffectiveDue(Rent!MonthOf(billDay))
           Started(kind, due) == Rent!RunAt("find", kind, due, 0, "none")
<1>1. next \in Rent!Day /\ past \in Rent!Day
  BY DecisionInCalendar DEF RentTypes
<1>2. \A kind \in {"before", "due", "overdue"}, due \in Rent!Day :
        /\ Started(kind, due) \in BillingRun /\ Started(kind, due).at = "find"
        /\ Started(kind, due).kind = kind /\ Started(kind, due).due = due
  BY DEF Rent!RunAt, BillingRun
<1>3. lease.start <= billDay /\ billDay <= End
  BY DEF RentTypes, InLease
<1>4. \/ leaseStatus # "active" /\ billing' = billing /\ ranToday' = ranToday \cup {"billing"}
      \/ billDay = next - 5 /\ billing' = Started("before", next) /\ ranToday' = ranToday
      \/ billDay # next - 5 /\ billDay = next /\ billing' = Started("due", next) /\ ranToday' = ranToday
      \/ /\ billDay # next - 5 /\ billDay # next /\ billDay > past
         /\ billing' = Started("overdue", past) /\ ranToday' = ranToday
      \/ /\ billDay # next - 5 /\ billDay # next /\ ~(billDay > past)
         /\ billing' = billing /\ ranToday' = ranToday \cup {"billing"}
  BY <1>3, Zenon DEF Rent!MonthlyPayment
<1> HIDE DEF Started
<1> QED
  BY <1>1, <1>2, <1>4 DEF Decides

\* The bills of a month after a step.
Later(type, m) == {i \in 1..Len(bills') : bills'[i].type = type /\ Rent!MonthOf(bills'[i].due) = m}

\* A bill for a month that has none.
LEMMA BillAdded ==
    ASSUME RentTypes, OneBill, NEW type \in {"rent", "charge"}, NEW due \in Rent!Day,
           InMonth(type, Rent!MonthOf(due)) = {}, bills' = Append(bills, Rent!NewBill(type, due))
    PROVE  /\ BillsGrow /\ OneBill'
           /\ Len(bills') = Len(bills) + 1
           /\ bills'[Len(bills) + 1] = [type |-> type, due |-> due, status |-> "pending"]
           /\ \A i \in 1..Len(bills) : bills'[i] = bills[i]
           /\ Len(bills) + 1 \in Later(type, Rent!MonthOf(due))
<1> DEFINE bill == [type |-> type, due |-> due, status |-> "pending"]
<1>1. bill \in Bill /\ bills \in Seq(Bill) /\ Len(bills) \in Nat
  BY DEF Bill, RentTypes
<1>2. bills' = Append(bills, bill)
  BY DEF Rent!NewBill
<1> HIDE DEF bill
<1>3. /\ bills' \in Seq(Bill) /\ Len(bills') = Len(bills) + 1
      /\ bills'[Len(bills) + 1] = bill
      /\ \A i \in 1..Len(bills) : bills'[i] = bills[i]
  BY <1>1, <1>2
<1>4. bill.type = type /\ bill.due = due
  BY DEF bill
<1>5. BillsGrow /\ Len(bills) + 1 \in Later(type, Rent!MonthOf(due))
  BY <1>1, <1>3, <1>4 DEF BillsGrow, Later
<1>6. OneBill'
  <2>1. \A i \in 1..Len(bills) : ~(bills[i].type = type /\ Rent!MonthOf(bills[i].due) = Rent!MonthOf(due))
    BY DEF InMonth
  <2> QED
    BY <1>1, <1>3, <1>4, <2>1 DEF OneBill
<1> QED
  BY <1>3, <1>5, <1>6 DEF bill

\* The status of a bill changes.
LEMMA BillMarked ==
    ASSUME RentTypes, OneBill, NEW i \in 1..Len(bills), NEW s \in {"pending", "overdue", "paid"},
           bills' = [bills EXCEPT ![i].status = s]
    PROVE  /\ BillsGrow /\ OneBill' /\ Len(bills') = Len(bills)
           /\ bills'[i].status = s
           /\ \A j \in 1..Len(bills) : j # i => bills'[j] = bills[j]
<1>1. bills \in Seq(Bill) /\ Len(bills) \in Nat /\ bills[i] \in Bill
  BY DEF RentTypes
<1>2. /\ bills' \in Seq(Bill) /\ Len(bills') = Len(bills)
      /\ bills'[i] = [type |-> bills[i].type, due |-> bills[i].due, status |-> s]
      /\ \A j \in 1..Len(bills) : j # i => bills'[j] = bills[j]
  BY <1>1 DEF Bill
<1>3. ASSUME NEW j \in 1..Len(bills)
      PROVE  bills'[j].type = bills[j].type /\ bills'[j].due = bills[j].due
  <2>1. CASE j = i
    BY <1>2, <2>1
  <2>2. CASE j # i
    BY <1>2, <2>2
  <2> QED
    BY <2>1, <2>2
<1>4. bills'[i].status = s
  BY <1>2
<1> QED
  BY <1>1, <1>2, <1>3, <1>4 DEF BillsGrow, OneBill

\* What the first two writes of a run do: the rent of its month, and then the
\* charges, are there.
LEMMA RentFound ==
    ASSUME BillInv, Rent!FindOrCreateRent
    PROVE  /\ BillsGrow /\ OneBill'
           /\ billing \in BillingRun /\ billing.at = "find"
           /\ \E i \in Later("rent", Rent!MonthOf(billing.due)) :
                /\ billing' = [at |-> "charges", kind |-> billing.kind, due |-> billing.due,
                               bill |-> i, read |-> bills'[i].status]
                /\ \/ bills' = bills
                   \/ /\ InMonth("rent", Rent!MonthOf(billing.due)) = {}
                      /\ Len(bills') = Len(bills) + 1 /\ i = Len(bills) + 1
                      /\ bills'[i].status = "pending" /\ bills'[i].due = billing.due
                      /\ \A j \in 1..Len(bills) : bills'[j] = bills[j]
<1> DEFINE M == Rent!MonthOf(billing.due)
<1>1. RentTypes /\ OneBill
  BY DEF BillInv
<1>2. billing \in BillingRun /\ billing.at = "find" /\ billing.due \in Rent!Day
  BY <1>1 DEF RentTypes, Rent!FindOrCreateRent, Rent!Idle, BillingRun
<1>3. Rent!FindMonthly("rent", billing.due) = InMonth("rent", M)
  BY <1>1, FoundInMonth
<1>4. CASE InMonth("rent", M) # {}
  <2>1. PICK i \in InMonth("rent", M) :
            /\ billing' = [at |-> "charges", kind |-> billing.kind, due |-> billing.due,
                           bill |-> i, read |-> bills[i].status]
            /\ bills' = bills
    BY <1>3, <1>4 DEF Rent!FindOrCreateRent, Rent!RunAt
  <2>2. BillsGrow /\ OneBill' /\ InMonth("rent", M) \subseteq Later("rent", M)
    BY <1>1, <2>1 DEF RentTypes, BillsGrow, OneBill, InMonth, Later
  <2> QED
    BY <1>2, <2>1, <2>2
<1>5. CASE InMonth("rent", M) = {}
  <2>1. /\ bills' = Append(bills, Rent!NewBill("rent", billing.due))
        /\ billing' = [at |-> "charges", kind |-> billing.kind, due |-> billing.due,
                       bill |-> Len(bills) + 1, read |-> "pending"]
    BY <1>3, <1>5 DEF Rent!FindOrCreateRent, Rent!RunAt
  <2> DEFINE new == Len(bills) + 1
  <2>2. /\ BillsGrow /\ OneBill' /\ Len(bills') = new
        /\ bills'[new] = [type |-> "rent", due |-> billing.due, status |-> "pending"]
        /\ \A j \in 1..Len(bills) : bills'[j] = bills[j]
        /\ new \in Later("rent", M)
    <3>1. "rent" \in {"rent", "charge"}
      OBVIOUS
    <3> QED
      BY <1>1, <1>2, <1>5, <2>1, <3>1, BillAdded
  <2>3. bills'[new].status = "pending" /\ bills'[new].due = billing.due
    BY <2>2
  <2> HIDE DEF M
  <2>4. /\ billing' = [at |-> "charges", kind |-> billing.kind, due |-> billing.due,
                       bill |-> new, read |-> bills'[new].status]
        /\ InMonth("rent", M) = {}
        /\ Len(bills') = Len(bills) + 1 /\ new = Len(bills) + 1
    BY <1>5, <2>1, <2>2, <2>3
  <2> HIDE DEF new
  <2> QED
    BY <1>2, <2>2, <2>3, <2>4 DEF M
<1> QED
  BY <1>4, <1>5

LEMMA ChargesEnsured ==
    ASSUME BillInv, Rent!EnsureCharges
    PROVE  /\ BillsGrow /\ OneBill'
           /\ billing \in BillingRun /\ billing.at = "charges"
           /\ \A j \in 1..Len(bills) : bills'[j] = bills[j]
           /\ \A j \in 1..Len(bills') : bills'[j].type = "rent" => j \in 1..Len(bills)
           /\ Later("charge", Rent!MonthOf(billing.due)) # {}
           /\ \/ /\ billing.kind = "overdue" /\ billing.read = "pending"
                 /\ billing' = [at |-> "mark", kind |-> billing.kind, due |-> billing.due,
                                bill |-> billing.bill, read |-> billing.read]
                 /\ ranToday' = ranToday
              \/ /\ ~(billing.kind = "overdue" /\ billing.read = "pending")
                 /\ billing' = Rent!Idle
                 /\ ranToday' = (ranToday \cup {"billing"}) \ {"sweep"}
<1> DEFINE M == Rent!MonthOf(billing.due)
<1>1. RentTypes /\ OneBill
  BY DEF BillInv
<1>2. billing \in BillingRun /\ billing.at = "charges" /\ billing.due \in Rent!Day
  BY <1>1 DEF RentTypes, Rent!EnsureCharges, Rent!Idle, BillingRun
<1>3. Rent!FindMonthly("charge", billing.due) = InMonth("charge", M)
  BY <1>1, FoundInMonth
<1>4. \/ /\ billing.kind = "overdue" /\ billing.read = "pending"
         /\ billing' = [at |-> "mark", kind |-> billing.kind, due |-> billing.due,
                        bill |-> billing.bill, read |-> billing.read]
         /\ ranToday' = ranToday
      \/ /\ ~(billing.kind = "overdue" /\ billing.read = "pending")
         /\ billing' = Rent!Idle
         /\ ranToday' = (ranToday \cup {"billing"}) \ {"sweep"}
  BY Zenon DEF Rent!EnsureCharges, Rent!RunAt
<1>5. /\ BillsGrow /\ OneBill'
      /\ \A j \in 1..Len(bills) : bills'[j] = bills[j]
      /\ \A j \in 1..Len(bills') : bills'[j].type = "rent" => j \in 1..Len(bills)
      /\ Later("charge", Rent!MonthOf(billing.due)) # {}
  <2>1. CASE InMonth("charge", M) # {}
    <3>1. bills' = bills
      BY <1>3, <2>1 DEF Rent!EnsureCharges
    <3>2. Later("charge", Rent!MonthOf(billing.due)) # {}
      <4>1. PICK j \in InMonth("charge", M) : TRUE
        BY <2>1
      <4> QED
        BY <3>1, <4>1 DEF InMonth, Later
    <3> QED
      BY <1>1, <3>1, <3>2 DEF RentTypes, BillsGrow, OneBill
  <2>2. CASE InMonth("charge", M) = {}
    <3>1. bills' = Append(bills, Rent!NewBill("charge", billing.due))
      BY <1>3, <2>2 DEF Rent!EnsureCharges
    <3> DEFINE new == Len(bills) + 1
    <3>2. /\ BillsGrow /\ OneBill' /\ Len(bills') = new
          /\ bills'[new] = [type |-> "charge", due |-> billing.due, status |-> "pending"]
          /\ \A j \in 1..Len(bills) : bills'[j] = bills[j]
          /\ new \in Later("charge", M)
      <4>1. "charge" \in {"rent", "charge"}
        OBVIOUS
      <4> QED
        BY <1>1, <1>2, <2>2, <3>1, <4>1, BillAdded
    <3>3. bills'[new].type = "charge" /\ Len(bills) \in Nat
      BY <1>1, <3>2 DEF RentTypes
    <3>4. \A j \in 1..Len(bills') : bills'[j].type = "rent" => j \in 1..Len(bills)
      BY <3>2, <3>3
    <3> QED
      BY <3>2, <3>4
  <2> QED
    BY <2>1, <2>2
<1> QED
  BY <1>2, <1>4, <1>5

LEMMA BillsInitially == Rent!Init => BillInv
<1> SUFFICES ASSUME Rent!Init PROVE BillInv
  OBVIOUS
<1> DEFINE due == Rent!FirstRentDue(lease, Rent!DueInMonth(Rent!MonthOf(lease.start)))
           bill == [type |-> "rent", due |-> due, status |-> "pending"]
<1>1. LeaseKnown /\ lease.start \in Rent!Day /\ End \in Rent!Day /\ lease.start < End
  BY ServicesAssumption
     DEF LeaseKnown, Rent!Init, Rent!Leases, ServicesAssumption, Rent!CalendarAssumption
<1>2. due \in Rent!Day
  BY <1>1, MonthOfDay, DueInItsMonth DEF Rent!FirstRentDue
<1> HIDE DEF due
<1>3. bill \in Bill
  BY <1>2 DEF Bill
<1>4. bills = <<bill>>
  BY DEF Rent!Init, Rent!NewBill, due
<1> HIDE DEF bill
<1>5. bills \in Seq(Bill) /\ Len(bills) = 1
  BY <1>3, <1>4
<1>6. InLease
  BY <1>1, Calendar DEF Rent!Init, InLease, Rent!Day
<1> QED
  BY <1>1, <1>5, <1>6 DEF Rent!Init, BillInv, RentTypes, OneBill, RunKnows

LEMMA BillsKept == BillInv /\ [Rent!Next]_(Rent!vars) => BillInv'
<1> SUFFICES ASSUME BillInv, [Rent!Next]_(Rent!vars) PROVE BillInv'
  OBVIOUS
<1> USE DEF BillInv
<1>1. /\ LeaseKnown /\ InLease /\ bills \in Seq(Bill) /\ Len(bills) \in Nat
      /\ billing \in {Rent!Idle} \cup BillingRun
      /\ missed \in Nat /\ ranToday \subseteq {"billing", "sweep"}
      /\ leaseStatus \in {"active", "near_expiration", "terminated"}
      /\ billSweep \in {Rent!Idle, [at |-> "terminate"]}
  BY DEF RentTypes
\* A step of another actor leaves the run what it knows.
<1>2. ASSUME BillsGrow, billing' = billing, ranToday' = ranToday, billDay' = billDay, lease' = lease
      PROVE  RunKnows'
  <2>1. InMonth("rent", Rent!MonthOf(billing.due)) \subseteq InMonth("rent", Rent!MonthOf(billing.due))'
    BY <1>1, <1>2, MonthsGrow
  <2>2. InMonth("charge", Rent!MonthOf(billing.due)) \subseteq InMonth("charge", Rent!MonthOf(billing.due))'
    BY <1>1, <1>2, MonthsGrow
  <2> QED
    BY <1>2, <2>1, <2>2
       DEF RunKnows, Decides, Rent!MonthlyDueDate, Rent!EffectiveDue, Rent!BeforeStart,
           Rent!DueInMonth
<1>3. CASE Rent!MonthlyPayment
  <2>1. /\ UNCHANGED <<lease, leaseStatus, bills, billDay, billSweep, missed>>
        /\ billing.at = "idle" /\ "billing" \notin ranToday
    BY <1>3 DEF Rent!MonthlyPayment
  <2>2. billing = Rent!Idle
    BY <1>1, <2>1 DEF BillingRun
  <2>3. CASE /\ ranToday' = ranToday
             /\ billing' \in BillingRun /\ billing'.at = "find"
             /\ Decides(billDay, billing'.kind, billing'.due)
    <3>1. RunKnows'
      BY <2>1, <2>3
         DEF RunKnows, Decides, Rent!MonthlyDueDate, Rent!EffectiveDue, Rent!BeforeStart,
             Rent!DueInMonth
    <3> QED
      BY <1>1, <2>1, <2>3, <3>1 DEF RentTypes, LeaseKnown, InLease, OneBill
  <2>4. CASE billing' = billing /\ ranToday' = ranToday \cup {"billing"}
    BY <1>1, <2>1, <2>2, <2>4 DEF RentTypes, LeaseKnown, InLease, OneBill, RunKnows
  <2> QED
    BY <1>3, <2>3, <2>4, RunDecides
<1>4. CASE Rent!FindOrCreateRent
  <2>1. UNCHANGED <<lease, leaseStatus, billDay, billSweep, ranToday, missed>>
    BY <1>4 DEF Rent!FindOrCreateRent
  <2>2. BillsGrow /\ OneBill' /\ billing \in BillingRun
    BY <1>4, RentFound
  <2>3. PICK i \in Later("rent", Rent!MonthOf(billing.due)) :
            billing' = [at |-> "charges", kind |-> billing.kind, due |-> billing.due,
                        bill |-> i, read |-> bills'[i].status]
    BY <1>4, RentFound
  <2>4. i \in 1..Len(bills') /\ bills'[i] \in Bill /\ i \in Nat
    BY <2>2, <2>3 DEF Later, BillsGrow
  <2>5. billing' \in BillingRun
    BY <2>2, <2>3, <2>4 DEF BillingRun, Bill
  <2>6. RunKnows'
    BY <2>1, <2>2, <2>3, IdleRun
       DEF RunKnows, InMonth, Later, Decides, Rent!MonthlyDueDate, Rent!EffectiveDue,
           Rent!BeforeStart, Rent!DueInMonth
  <2> QED
    BY <1>1, <2>1, <2>2, <2>5, <2>6 DEF RentTypes, LeaseKnown, InLease, BillsGrow
<1>5. CASE Rent!EnsureCharges
  <2>1. UNCHANGED <<lease, leaseStatus, billDay, billSweep, missed>>
    BY <1>5 DEF Rent!EnsureCharges
  <2>2. BillsGrow /\ OneBill' /\ billing \in BillingRun /\ billing.at = "charges"
    BY <1>5, ChargesEnsured
  <2>3. CASE /\ billing.kind = "overdue" /\ billing.read = "pending"
             /\ billing' = [at |-> "mark", kind |-> billing.kind, due |-> billing.due,
                            bill |-> billing.bill, read |-> billing.read]
             /\ ranToday' = ranToday
    <3>1. billing' \in BillingRun
      BY <2>2, <2>3 DEF BillingRun
    <3>2. InMonth("rent", Rent!MonthOf(billing.due)) \subseteq Later("rent", Rent!MonthOf(billing.due))
      BY <1>1, <2>2 DEF BillsGrow, InMonth, Later
    <3>3. Later("charge", Rent!MonthOf(billing.due)) # {}
      BY <1>5, ChargesEnsured
    <3>4. RunKnows'
      BY <2>1, <2>2, <2>3, <3>2, <3>3, IdleRun
         DEF RunKnows, InMonth, Later, Decides, Rent!MonthlyDueDate, Rent!EffectiveDue,
             Rent!BeforeStart, Rent!DueInMonth
    <3> QED
      BY <1>1, <2>1, <2>2, <2>3, <3>1, <3>4 DEF RentTypes, LeaseKnown, InLease, BillsGrow
  <2>4. CASE billing' = Rent!Idle /\ ranToday' = (ranToday \cup {"billing"}) \ {"sweep"}
    BY <1>1, <2>1, <2>2, <2>4 DEF RentTypes, LeaseKnown, InLease, BillsGrow, RunKnows
  <2> QED
    BY <1>5, <2>3, <2>4, ChargesEnsured
<1>6. CASE Rent!MarkOverdue
  <2>1. /\ UNCHANGED <<lease, leaseStatus, billDay, billSweep, missed>>
        /\ billing.at = "mark" /\ billing' = Rent!Idle
        /\ ranToday' = (ranToday \cup {"billing"}) \ {"sweep"}
        /\ bills' = [bills EXCEPT ![billing.bill].status = "overdue"]
    BY <1>6 DEF Rent!MarkOverdue
  <2>2. billing.bill \in 1..Len(bills)
    BY <1>1, <2>1 DEF RunKnows, Rent!Idle, InMonth
  <2>3. BillsGrow /\ OneBill'
    BY <2>1, <2>2, BillMarked
  <2> QED
    BY <1>1, <2>1, <2>3 DEF RentTypes, LeaseKnown, InLease, BillsGrow, RunKnows
<1>7. CASE \E i \in DOMAIN bills : Rent!PayRent(i) \/ Rent!GiveUp(i)
  <2>1. PICK i \in 1..Len(bills), s \in {"pending", "overdue", "paid"} :
            bills' = [bills EXCEPT ![i].status = s]
    BY <1>1, <1>7 DEF Rent!PayRent, Rent!GiveUp
  <2>2. UNCHANGED <<lease, leaseStatus, billDay, billSweep, missed, billing, ranToday>>
    BY <1>7 DEF Rent!PayRent, Rent!GiveUp
  <2>3. BillsGrow /\ OneBill'
    BY <2>1, BillMarked
  <2>4. RunKnows'
    BY <1>2, <2>2, <2>3
  <2> QED
    BY <1>1, <2>2, <2>3, <2>4 DEF RentTypes, LeaseKnown, InLease, BillsGrow
<1>8. CASE Rent!LifecycleRun \/ Rent!TerminateNonPayment
  <2>1. /\ UNCHANGED <<lease, bills, billDay, billing, missed>>
        /\ ranToday' = ranToday \/ ranToday' = ranToday \cup {"sweep"}
        /\ leaseStatus' \in {"active", "near_expiration", "terminated"}
        /\ billSweep' \in {Rent!Idle, [at |-> "terminate"]}
    BY <1>1, <1>8 DEF Rent!LifecycleRun, Rent!TerminateNonPayment
  <2>2. BillsGrow /\ OneBill'
    BY <1>1, <2>1 DEF BillsGrow, OneBill
  <2>3. RunKnows'
    BY <1>1, <2>1
       DEF RunKnows, InMonth, Decides, Rent!MonthlyDueDate, Rent!EffectiveDue,
           Rent!BeforeStart, Rent!DueInMonth
  <2> QED
    BY <1>1, <2>1, <2>2, <2>3 DEF RentTypes, LeaseKnown, InLease
<1>9. CASE Rent!Crash
  BY <1>1, <1>9 DEF Rent!Crash, RentTypes, LeaseKnown, InLease, OneBill, RunKnows
<1>10. CASE Rent!NextDay
  <2>1. lease.start \in Int /\ End \in Int
    <3>1. lease.start \in Rent!Day /\ End \in Rent!Day
      BY <1>1, ServicesAssumption
         DEF LeaseKnown, Rent!Leases, ServicesAssumption, Rent!CalendarAssumption
    <3> QED
      BY <3>1 DEF Rent!Day
  <2>2. InLease'
    BY <1>1, <1>10, <2>1 DEF Rent!NextDay, InLease
  <2> QED
    BY <1>1, <1>10, <2>2 DEF Rent!NextDay, RentTypes, LeaseKnown, OneBill, RunKnows
<1>11. CASE UNCHANGED Rent!vars
  <2>1. UNCHANGED <<lease, leaseStatus, bills, billDay, billing, billSweep, ranToday, missed>>
    BY <1>11 DEF Rent!vars
  <2>2. BillsGrow /\ OneBill'
    BY <1>1, <2>1 DEF BillsGrow, OneBill
  <2> QED
    BY <1>1, <1>2, <2>1, <2>2 DEF RentTypes, LeaseKnown, InLease
<1> QED
  BY <1>3, <1>4, <1>5, <1>6, <1>7, <1>8, <1>9, <1>10, <1>11 DEF Rent!Next

\* No month of a lease is billed twice, for every calendar, due day and start
\* of the lease, whichever run of handleMonthlyPayment creates the bill and
\* however the first rent was dated.
THEOREM OneRentPerMonth == FairSpec => []OneBillPerMonth
<1>1. BillInv => OneBillPerMonth
  BY DEF BillInv, RentTypes, OneBill, OneBillPerMonth, Rent!OneBillPerMonth
<1> QED
  BY <1>1, BillsInitially, BillsKept, RentImplemented, PTL DEF Rent!Spec

------------------------------------------------------------------------------
\* The days so far on which the run of the monthly cron was to deal with the
\* bills of a month.
Behind(m, from) ==
    {d \in lease.start..billDay :
        Rent!Chased(m, from, d) /\ (d < billDay \/ "billing" \in ranToday)}

\* Missed runs excuse what has not been done in a month.
Excused(m, from) == Cardinality(Behind(m, from)) <= missed

Lacking(m) == InMonth("rent", m) = {} \/ InMonth("charge", m) = {}

\* The life-cycle cron has yet to end the lease for the rent of the month.
EndsSoon(m) ==
    billDay + (IF "sweep" \in ranToday THEN 1 ELSE 0) <= Rent!EffectiveDue(m) + 10 + missed

\* The run has read the rent of its month.
HasRead == billing # Rent!Idle /\ billing.at \in {"charges", "mark"}

DueInTime == \A m \in Rent!Month : \A i \in InMonth("rent", m) : bills[i].due <= Rent!EffectiveDue(m)

ReadRight == HasRead /\ billing.read # "pending" => bills[billing.bill].status # "pending"

\* What the cron owes a month of an active lease: its bills, and an overdue
\* mark on a rent that stays unpaid.
Turns(m) ==
    /\ Lacking(m) => Excused(m, "notice")
    /\ HasRead /\ billing.read = "pending" /\ Rent!MonthOf(billing.due) = m => Excused(m, "overdue")
    /\ \A i \in InMonth("rent", m) :
        bills[i].status # "paid" =>
            Excused(m, "overdue") \/ (bills[i].status = "overdue" /\ EndsSoon(m))

InTurn == leaseStatus = "active" => \A m \in Rent!Month \ {Rent!LastMonth} : Turns(m)

TurnInv == BillInv /\ DueInTime /\ ReadRight /\ InTurn

LEMMA LeaseDays ==
    ASSUME LeaseKnown, InLease
    PROVE  lease.start \in Nat /\ End \in Nat /\ billDay \in Nat /\ lease.start <= billDay
<1>1. lease.start \in Rent!Day /\ End \in Rent!Day
  BY ServicesAssumption
     DEF LeaseKnown, Rent!Leases, ServicesAssumption, Rent!CalendarAssumption
<1>2. lease.start \in Nat /\ End \in Nat
  BY <1>1 DEF Rent!Day
<1> QED
  BY <1>2 DEF InLease

LEMMA BehindFinite ==
    ASSUME RentTypes, NEW m, NEW from
    PROVE  IsFiniteSet(Behind(m, from)) /\ Cardinality(Behind(m, from)) \in Nat
<1>1. IsFiniteSet(lease.start..billDay)
  <2>1. lease.start \in Int /\ billDay \in Int
    BY LeaseDays DEF RentTypes
  <2> QED
    BY <2>1, FS_Interval
<1>2. IsFiniteSet(Behind(m, from))
  BY <1>1, FS_Subset DEF Behind
<1> QED
  BY <1>2, FS_CardinalityType

\* A set that has at most one element more than another.
LEMMA AtMostOneMore ==
    ASSUME NEW S, NEW T, NEW x, IsFiniteSet(S), T \subseteq S \cup {x}
    PROVE  /\ IsFiniteSet(T) /\ Cardinality(T) \in Nat /\ Cardinality(S) \in Nat
           /\ Cardinality(T) <= Cardinality(S) + 1
           /\ T \subseteq S => Cardinality(T) <= Cardinality(S)
<1>1. IsFiniteSet(S \cup {x}) /\ Cardinality(S \cup {x}) <= Cardinality(S) + 1
  <2>1. Cardinality(S) \in Nat
    BY FS_CardinalityType
  <2>2. /\ IsFiniteSet(S \cup {x})
        /\ \/ Cardinality(S \cup {x}) = Cardinality(S)
           \/ Cardinality(S \cup {x}) = Cardinality(S) + 1
    BY FS_AddElement
  <2> QED
    BY <2>1, <2>2
<1>2. IsFiniteSet(T) /\ Cardinality(T) <= Cardinality(S \cup {x})
  BY <1>1, FS_Subset
<1>3. T \subseteq S => Cardinality(T) <= Cardinality(S)
  BY FS_Subset
<1>4. Cardinality(T) \in Nat /\ Cardinality(S) \in Nat /\ Cardinality(S \cup {x}) \in Nat
  BY <1>1, <1>2, FS_CardinalityType
<1> QED
  BY <1>1, <1>2, <1>3, <1>4

\* The days of a lease that stays are chased as they were.
LEMMA SameChase ==
    ASSUME lease' = lease, NEW m, NEW from
    PROVE  /\ \A d : Rent!Chased(m, from, d)' <=> Rent!Chased(m, from, d)
           /\ Rent!EffectiveDue(m)' = Rent!EffectiveDue(m)
  BY DEF Rent!Chased, Rent!EffectiveDue, Rent!BeforeStart, Rent!DueInMonth

\* A step adds today at most to the days that count, and nothing when the run
\* goes on, was over already, or had nothing to do for the month.
LEMMA BehindGrows ==
    ASSUME RentTypes, lease' = lease, NEW m, NEW from,
           billDay' = billDay \/ (billDay' = billDay + 1 /\ ranToday' = {})
    PROVE  /\ Behind(m, from)' \subseteq Behind(m, from) \cup {billDay}
           /\ (billDay' = billDay /\ "billing" \notin ranToday') \/ "billing" \in ranToday
                 \/ ~Rent!Chased(m, from, billDay)
              => Behind(m, from)' \subseteq Behind(m, from)
<1>1. lease.start \in Nat /\ billDay \in Nat
  BY LeaseDays DEF RentTypes
<1>2. \A d : Rent!Chased(m, from, d)' <=> Rent!Chased(m, from, d)
  BY SameChase
<1>3. ASSUME NEW d \in Behind(m, from)'
      PROVE  /\ d \in lease.start..billDay' /\ Rent!Chased(m, from, d)
             /\ d < billDay' \/ "billing" \in ranToday'
  BY <1>2, <1>3 DEF Behind
<1>4. ASSUME NEW d \in Behind(m, from)'
      PROVE  d \in lease.start..billDay /\ Rent!Chased(m, from, d) /\ (d < billDay \/ d = billDay)
  BY <1>1, <1>3, <1>4
<1>5. Behind(m, from)' \subseteq Behind(m, from) \cup {billDay}
  BY <1>4 DEF Behind
<1>6. ASSUME \/ billDay' = billDay /\ "billing" \notin ranToday'
             \/ "billing" \in ranToday
             \/ ~Rent!Chased(m, from, billDay),
             NEW d \in Behind(m, from)'
      PROVE  d \in Behind(m, from)
  <2>1. d < billDay' \/ "billing" \in ranToday'
    BY <1>3
  <2> QED
    BY <1>1, <1>4, <1>6, <2>1 DEF Behind
<1> QED
  BY <1>5, <1>6

LEMMA StillExcused ==
    ASSUME RentTypes, lease' = lease, missed' \in Nat, NEW m, NEW from, Excused(m, from),
           \/ missed <= missed' /\ Behind(m, from)' \subseteq Behind(m, from)
           \/ missed' = missed + 1 /\ Behind(m, from)' \subseteq Behind(m, from) \cup {billDay}
    PROVE  Excused(m, from)'
<1> DEFINE S == Behind(m, from)
           T == Behind(m, from)'
<1>1. /\ IsFiniteSet(S) /\ missed \in Nat
  BY BehindFinite DEF RentTypes
<1>2. Cardinality(S) <= missed
  BY DEF Excused
<1>3. /\ T \subseteq S \cup {billDay}
      /\ (T \subseteq S /\ missed <= missed') \/ missed' = missed + 1
  OBVIOUS
<1> HIDE DEF S, T
<1>4. /\ Cardinality(T) \in Nat /\ Cardinality(S) \in Nat
      /\ Cardinality(T) <= Cardinality(S) + 1
      /\ T \subseteq S => Cardinality(T) <= Cardinality(S)
  BY <1>1, <1>3, AtMostOneMore
<1>5. Cardinality(T) <= missed'
  BY <1>1, <1>2, <1>3, <1>4
<1> QED
  BY <1>5 DEF Excused, T

LEMMA NoticeCovers ==
    ASSUME RentTypes, NEW m, Excused(m, "notice")
    PROVE  Excused(m, "overdue")
<1>1. Behind(m, "overdue") \subseteq Behind(m, "notice")
  BY DEF Behind, Rent!Chased
<1>2. Cardinality(Behind(m, "overdue")) <= Cardinality(Behind(m, "notice"))
  BY <1>1, BehindFinite, FS_Subset
<1> QED
  BY <1>2, BehindFinite DEF Excused, RentTypes

\* A day on which a month is chased is a day whose run is about that month.
LEMMA TodayDecides ==
    ASSUME RentTypes, NEW m \in Rent!Month, m # Rent!LastMonth,
           NEW from \in {"notice", "overdue"}, Rent!Chased(m, from, billDay),
           NEW kind, NEW due, Decides(billDay, kind, due)
    PROVE  /\ due = Rent!EffectiveDue(m) /\ Rent!MonthOf(due) = m
           /\ from = "overdue" => kind = "overdue"
<1>1. LeaseKnown /\ billDay \in lease.start..End
  BY DEF RentTypes, InLease
<1>2. PICK k \in {"before", "due", "overdue"} :
          /\ Decides(billDay, k, Rent!EffectiveDue(m))
          /\ from = "overdue" => Decides(billDay, "overdue", Rent!EffectiveDue(m))
  BY <1>1, ChaseDecides
<1>3. ASSUME NEW k1, NEW d1, Decides(billDay, k1, d1)
      PROVE  k1 = kind /\ d1 = due
  BY <1>3 DEF Decides
<1>4. due = Rent!EffectiveDue(m) /\ (from = "overdue" => kind = "overdue")
  BY <1>2, <1>3
<1> QED
  BY <1>1, <1>4, DueInItsMonth

\* The day a run looks at is no later than what its month is due.
LEMMA DecidedInTime ==
    ASSUME RentTypes, NEW kind, NEW due, Decides(billDay, kind, due)
    PROVE  due <= Rent!EffectiveDue(Rent!MonthOf(due))
<1> DEFINE k == Rent!MonthOf(billDay)
<1>1. LeaseKnown /\ lease.start \in Rent!Day
  BY ServicesAssumption
     DEF RentTypes, LeaseKnown, Rent!Leases, ServicesAssumption, Rent!CalendarAssumption
<1>2. /\ k \in Rent!Month /\ k + 1 \in Rent!Month
  <2>1. /\ End \in Rent!Day /\ End < FirstDay[Rent!LastMonth] /\ billDay \in lease.start..End
    BY ServicesAssumption
       DEF RentTypes, InLease, ServicesAssumption, Rent!CalendarAssumption
  <2>2. billDay \in Rent!Day /\ billDay < FirstDay[Rent!LastMonth]
    <3>1. FirstDay[Len(FirstDay)] \in Nat /\ FirstDay[Rent!LastMonth] \in Nat
      BY Calendar DEF Rent!LastMonth
    <3> QED
      BY <1>1, <2>1, <3>1 DEF Rent!Day
  <2>3. k \in Rent!Month /\ FirstDay[k] <= billDay /\ FirstDay[k] \in Nat /\ billDay \in Nat
    BY <2>2, MonthOfDay, Calendar DEF Rent!Day
  <2>4. k # Rent!LastMonth
    <3>1. FirstDay[Rent!LastMonth] \in Nat
      BY Calendar DEF Rent!LastMonth
    <3> QED
      BY <2>2, <2>3, <3>1
  <2> QED
    BY <2>3, <2>4, Calendar DEF Rent!LastMonth
<1> HIDE DEF k
<1>3. \A n \in Rent!Month :
        /\ Rent!DueInMonth(n) <= Rent!EffectiveDue(n) /\ Rent!MonthOf(Rent!DueInMonth(n)) = n
        /\ Rent!EffectiveDue(n) \in Nat /\ Rent!MonthOf(Rent!EffectiveDue(n)) = n
  BY <1>1, DueInItsMonth DEF Rent!Day
<1>4. due \in {Rent!EffectiveDue(k), Rent!DueInMonth(k), Rent!DueInMonth(k + 1)}
  <2>1. Rent!BeforeStart(k) => Rent!EffectiveDue(k) = lease.start
    BY DEF Rent!EffectiveDue
  <2>2. due = Rent!MonthlyDueDate(billDay) \/ due = Rent!EffectiveDue(k)
    BY DEF Decides, k
  <2> QED
    BY <2>1, <2>2 DEF Rent!MonthlyDueDate, k
<1> QED
  BY <1>2, <1>3, <1>4

\* The day on which an overdue rent is looked at follows its due day by at
\* most two more days than the month has been chased on.
LEMMA ChasedMostDays ==
    ASSUME RentTypes, "billing" \notin ranToday,
           NEW m \in Rent!Month, m # Rent!LastMonth, Rent!Chased(m, "overdue", billDay)
    PROVE  billDay <= Rent!EffectiveDue(m) + 2 + Cardinality(Behind(m, "overdue"))
<1> DEFINE eff == Rent!EffectiveDue(m)
           x == Rent!DueInMonth(m + 1) - 5
           S == Behind(m, "overdue")
           T == (eff + 1)..(billDay - 1)
<1>1. /\ LeaseKnown /\ lease.start \in Nat /\ billDay \in Nat /\ End \in Nat
      /\ lease.start <= billDay /\ lease.start \in Rent!Day /\ billDay \in Rent!Day
  <2>1. /\ LeaseKnown /\ InLease /\ lease.start \in Nat /\ billDay \in Nat /\ End \in Nat
        /\ lease.start <= billDay
    BY LeaseDays DEF RentTypes
  <2>2. lease.start \in Rent!Day /\ End \in Rent!Day
    BY <2>1, ServicesAssumption
       DEF LeaseKnown, Rent!Leases, ServicesAssumption, Rent!CalendarAssumption
  <2>3. FirstDay[Len(FirstDay)] \in Nat
    BY Calendar
  <2>4. billDay \in Rent!Day
    BY <2>1, <2>2, <2>3 DEF Rent!Day, InLease
  <2> QED
    BY <2>1, <2>2, <2>4
<1>2. /\ eff \in Nat /\ FirstDay[m] <= eff /\ eff < FirstDay[m + 1]
      /\ FirstDay[m] \in Nat /\ FirstDay[m + 1] \in Nat
      /\ FirstDay[m + 1] <= FirstDay[Len(FirstDay)] /\ FirstDay[Len(FirstDay)] \in Nat
      /\ FirstDay[m] >= 1
  <2>1. eff \in Rent!Day /\ Rent!DueInMonth(m) \in Rent!Day
    BY <1>1, DueInItsMonth
  <2>2. /\ FirstDay[m] <= eff /\ eff < FirstDay[m + 1]
    BY <1>1, DueInItsMonth
  <2>3. FirstDay[m] \in Nat /\ FirstDay[m + 1] \in Nat /\ FirstDay[Len(FirstDay)] \in Nat
    BY Calendar
  <2>4. FirstDay[m + 1] <= FirstDay[Len(FirstDay)]
    BY MonthsInOrder, Calendar
  <2>5. FirstDay[m] >= 1
    <3>1. 1 \in Rent!Month /\ m \in 1..Len(FirstDay) /\ FirstDay[1] = 1
      BY Calendar
    <3>2. CASE m = 1
      BY <3>1, <3>2
    <3>3. CASE m # 1
      <4>1. FirstDay[1 + 1] <= FirstDay[m] /\ FirstDay[1 + 1] >= FirstDay[1] + 28
        BY <3>1, <3>3, MonthsInOrder, Calendar
      <4>2. FirstDay[1 + 1] \in Nat
        BY <3>1, Calendar
      <4> QED
        BY <2>3, <3>1, <4>1, <4>2
    <3> QED
      BY <3>2, <3>3
  <2> QED
    BY <2>1, <2>2, <2>3, <2>4, <2>5 DEF Rent!Day
<1>3. /\ billDay > eff /\ Rent!MonthOf(billDay) = m /\ billDay < End - 5
  BY DEF Rent!Chased
<1>4. FirstDay[m] <= billDay /\ billDay < FirstDay[m + 1]
  BY <1>1, <1>3, MonthOfDay
<1>5. lease.start <= eff
  <2>1. ASSUME lease.start > eff PROVE FALSE
    <3>1. FirstDay[m] <= lease.start /\ lease.start < FirstDay[m + 1]
      BY <1>1, <1>2, <1>4, <2>1
    <3>2. Rent!MonthOf(lease.start) = m
      BY <1>1, <3>1, MonthOfDay
    <3>3. Rent!DueInMonth(m) \in Nat /\ Rent!DueInMonth(m) <= eff
      BY <1>1, DueInItsMonth DEF Rent!Day
    <3>4. Rent!BeforeStart(m)
      BY <1>1, <1>2, <2>1, <3>2, <3>3 DEF Rent!BeforeStart
    <3>5. eff = lease.start
      BY <3>4 DEF Rent!EffectiveDue
    <3> QED
      BY <1>1, <2>1, <3>5
  <2> QED
    BY <1>1, <1>2, <2>1
<1> HIDE DEF eff, x
<1>6. ASSUME NEW d \in T, d # x PROVE d \in S
  <2>1. /\ d \in Nat /\ eff < d /\ d < billDay /\ lease.start <= d
        /\ FirstDay[m] <= d /\ d < FirstDay[m + 1] /\ d < End - 5
    BY <1>1, <1>2, <1>3, <1>4, <1>5, <1>6
  <2>2. d \in Rent!Day
    BY <1>2, <2>1 DEF Rent!Day
  <2>3. Rent!MonthOf(d) = m
    BY <2>1, <2>2, MonthOfDay
  <2>4. Rent!Chased(m, "overdue", d)
    BY <1>6, <2>1, <2>3 DEF Rent!Chased, eff, x
  <2>5. d \in lease.start..billDay /\ d < billDay
    BY <1>1, <2>1
  <2> QED
    BY <2>4, <2>5 DEF Behind
<1>7. T \subseteq S \cup {x}
  BY <1>6
<1>8. IsFiniteSet(S)
  BY BehindFinite
<1>9. Cardinality(T) = billDay - 1 - eff
  <2>1. eff + 1 \in Int /\ billDay - 1 \in Int
    BY <1>1, <1>2
  <2>2. Cardinality(T) = IF eff + 1 > billDay - 1 THEN 0 ELSE (billDay - 1) - (eff + 1) + 1
    BY <2>1, FS_Interval
  <2> HIDE DEF T
  <2> QED
    BY <1>1, <1>2, <1>3, <2>2
<1> HIDE DEF S, T
<1>10. Cardinality(T) <= Cardinality(S) + 1 /\ Cardinality(S) \in Nat
  BY <1>7, <1>8, AtMostOneMore
<1> QED
  BY <1>1, <1>2, <1>9, <1>10 DEF eff, S

LEMMA TurnsInitially == Rent!Init => TurnInv
<1> SUFFICES ASSUME Rent!Init PROVE TurnInv
  OBVIOUS
<1> DEFINE m == Rent!MonthOf(lease.start)
           due == Rent!FirstRentDue(lease, Rent!DueInMonth(m))
<1>1. BillInv /\ RentTypes
  BY BillsInitially DEF BillInv
<1>2. LeaseKnown /\ lease.start \in Rent!Day /\ lease.start \in Nat
  <2>1. LeaseKnown /\ lease.start \in Rent!Day
    BY <1>1, ServicesAssumption
       DEF RentTypes, LeaseKnown, Rent!Leases, ServicesAssumption, Rent!CalendarAssumption
  <2> QED
    BY <2>1 DEF Rent!Day
<1>3. /\ m \in Rent!Month /\ Rent!MonthOf(Rent!DueInMonth(m)) = m
      /\ Rent!DueInMonth(m) \in Nat /\ Rent!EffectiveDue(m) \in Nat
      /\ Rent!DueInMonth(m) <= Rent!EffectiveDue(m)
  BY <1>2, MonthOfDay, DueInItsMonth DEF Rent!Day
<1> HIDE DEF m
<1>4. Rent!MonthOf(due) = m /\ due <= Rent!EffectiveDue(m)
  BY <1>2, <1>3 DEF Rent!FirstRentDue, Rent!EffectiveDue, Rent!BeforeStart, m
<1> HIDE DEF due
<1>5. bills = << [type |-> "rent", due |-> due, status |-> "pending"] >>
  BY DEF Rent!Init, Rent!NewBill, due, m
<1>6. DueInTime
  BY <1>4, <1>5 DEF DueInTime, InMonth
<1>7. \A n, from : Excused(n, from)
  <2> SUFFICES ASSUME NEW n, NEW from PROVE Excused(n, from)
    OBVIOUS
  <2>1. billDay = lease.start /\ ranToday = {} /\ missed = 0
    BY DEF Rent!Init
  <2>2. Behind(n, from) = {}
    BY <1>2, <2>1 DEF Behind
  <2> QED
    BY <2>1, <2>2, FS_EmptySet DEF Excused
<1>8. ~HasRead
  BY DEF HasRead, Rent!Init
<1> QED
  BY <1>1, <1>6, <1>7, <1>8 DEF TurnInv, InTurn, Turns, ReadRight

\* What a step may do to the days that count for a month: nothing, or one
\* more day and one more missed run.
NoTurnLost(m, from) ==
    /\ lease' = lease /\ missed' \in Nat
    /\ \/ missed' = missed /\ Behind(m, from)' \subseteq Behind(m, from)
       \/ missed' = missed + 1 /\ Behind(m, from)' \subseteq Behind(m, from) \cup {billDay}

LEMMA ExcusedStays ==
    ASSUME RentTypes, NEW m, NEW from, Excused(m, from), NoTurnLost(m, from)
    PROVE  Excused(m, from)'
<1>1. missed' \in Nat /\ missed \in Nat /\ lease' = lease
  BY DEF NoTurnLost, RentTypes
<1>2. CASE missed' = missed /\ Behind(m, from)' \subseteq Behind(m, from)
  BY <1>1, <1>2, StillExcused
<1>3. CASE missed' = missed + 1 /\ Behind(m, from)' \subseteq Behind(m, from) \cup {billDay}
  BY <1>1, <1>3, StillExcused
<1> QED
  BY <1>2, <1>3 DEF NoTurnLost

\* A month keeps what it is owed over a step that loses no turn, does not
\* start to rely on a rent read as pending, and marks no rent.
LEMMA TurnsStay ==
    ASSUME TurnInv, BillsGrow, leaseStatus = "active",
           NEW m \in Rent!Month \ {Rent!LastMonth},
           NoTurnLost(m, "overdue"),
           NoTurnLost(m, "notice") \/ (Later("rent", m) # {} /\ Later("charge", m) # {}),
           HasRead' => HasRead /\ billing' = [billing EXCEPT !.at = billing'.at],
           \A i \in Later("rent", m) :
              bills'[i].status # "paid" =>
                /\ i \in 1..Len(bills) /\ bills[i].status # "paid"
                /\ bills[i].status = "overdue" =>
                      bills'[i].status = "overdue" /\ (EndsSoon(m) => EndsSoon(m)')
    PROVE  Turns(m)'
<1>1. Turns(m) /\ RentTypes
  BY DEF TurnInv, InTurn, BillInv
<1>2. Lacking(m)' => Excused(m, "notice")'
  <2>1. InMonth("rent", m) \subseteq InMonth("rent", m)' /\ InMonth("charge", m) \subseteq InMonth("charge", m)'
    BY <1>1, MonthsGrow
  <2>2. Lacking(m)' => Lacking(m) /\ NoTurnLost(m, "notice")
    BY <2>1 DEF Lacking, Later, InMonth
  <2> QED
    BY <1>1, <2>2, ExcusedStays DEF Turns
<1>3. ASSUME Excused(m, "overdue") PROVE Excused(m, "overdue")'
  BY <1>1, <1>3, ExcusedStays
<1>4. HasRead' /\ billing'.read = "pending" /\ Rent!MonthOf(billing'.due) = m => Excused(m, "overdue")'
  <2>1. HasRead => billing \in BillingRun
    BY <1>1 DEF RentTypes, HasRead
  <2>2. HasRead' => HasRead /\ billing'.read = billing.read /\ billing'.due = billing.due
    BY <2>1 DEF BillingRun
  <2> QED
    BY <1>1, <1>3, <2>2 DEF Turns
<1>5. ASSUME NEW i \in Later("rent", m), bills'[i].status # "paid"
      PROVE  Excused(m, "overdue")' \/ (bills'[i].status = "overdue" /\ EndsSoon(m)')
  <2>1. /\ i \in 1..Len(bills) /\ bills[i].status # "paid"
        /\ bills[i].status = "overdue" =>
              bills'[i].status = "overdue" /\ (EndsSoon(m) => EndsSoon(m)')
    BY <1>5
  <2>2. i \in InMonth("rent", m)
    BY <1>5, <2>1 DEF Later, InMonth, BillsGrow
  <2> QED
    BY <1>1, <1>3, <2>1, <2>2 DEF Turns
<1> QED
  BY <1>2, <1>4, <1>5 DEF Turns, Later, InMonth

\* The rents stay due in time when the only new one is that of the run.
LEMMA DueStays ==
    ASSUME TurnInv, BillsGrow, lease' = lease,
           \A i \in 1..Len(bills') :
              bills'[i].type = "rent" =>
                 i \in 1..Len(bills) \/ (billing # Rent!Idle /\ bills'[i].due = billing.due)
    PROVE  DueInTime'
<1> SUFFICES ASSUME NEW m \in Rent!Month, NEW i \in Later("rent", m)
             PROVE  bills'[i].due <= Rent!EffectiveDue(m)'
  BY DEF DueInTime, InMonth, Later
<1>1. RentTypes /\ RunKnows /\ DueInTime
  BY DEF TurnInv, BillInv
<1>2. Rent!EffectiveDue(m)' = Rent!EffectiveDue(m)
  BY DEF Rent!EffectiveDue, Rent!BeforeStart, Rent!DueInMonth
<1>3. i \in 1..Len(bills') /\ bills'[i].type = "rent" /\ Rent!MonthOf(bills'[i].due) = m
  BY DEF Later
<1>4. CASE i \in 1..Len(bills)
  <2>1. i \in InMonth("rent", m) /\ bills'[i].due = bills[i].due
    BY <1>3, <1>4 DEF InMonth, BillsGrow
  <2> QED
    BY <1>1, <1>2, <2>1 DEF DueInTime
<1>5. CASE billing # Rent!Idle /\ bills'[i].due = billing.due
  <2>1. Decides(billDay, billing.kind, billing.due)
    BY <1>1, <1>5 DEF RunKnows
  <2>2. billing.due <= Rent!EffectiveDue(Rent!MonthOf(billing.due))
    BY <1>1, <2>1, DecidedInTime
  <2> QED
    BY <1>2, <1>3, <1>5, <2>2
<1> QED
  BY <1>3, <1>4, <1>5

\* The end of a run: the month it was about has its bills, and its rent, when
\* it was to be marked today, is overdue or paid.
LEMMA TurnOver ==
    ASSUME TurnInv, BillsGrow, OneBill', leaseStatus = "active",
           NEW m \in Rent!Month \ {Rent!LastMonth}, NEW M, M = Rent!MonthOf(billing.due),
           HasRead, billing' = Rent!Idle,
           lease' = lease, billDay' = billDay, missed' = missed,
           ranToday' = (ranToday \cup {"billing"}) \ {"sweep"},
           billing.bill \in Later("rent", M), Later("charge", M) # {},
           \A j \in Later("rent", m) : j \in 1..Len(bills) /\ (j # billing.bill => bills'[j] = bills[j]),
           m = M /\ bills'[billing.bill].status # "paid" =>
              \/ /\ bills'[billing.bill] = bills[billing.bill]
                 /\ billing.kind = "overdue" => bills'[billing.bill].status = "overdue"
              \/ bills'[billing.bill].status = "overdue" /\ Excused(M, "overdue")
    PROVE  Turns(m)'
<1>1. /\ Turns(m) /\ RentTypes /\ m \in Rent!Month /\ m # Rent!LastMonth
      /\ "billing" \notin ranToday /\ Decides(billDay, billing.kind, billing.due)
  BY DEF TurnInv, InTurn, BillInv, RunKnows, HasRead
<1>2. missed \in Nat /\ billDay \in Nat /\ Rent!EffectiveDue(m) \in Nat
  <2>1. billDay \in Nat /\ LeaseKnown
    BY <1>1, LeaseDays DEF RentTypes
  <2> QED
    BY <1>1, <2>1, DueInItsMonth DEF RentTypes, Rent!Day
<1>3. ASSUME NEW from \in {"notice", "overdue"}, ~Rent!Chased(m, from, billDay), Excused(m, from)
      PROVE  Excused(m, from)'
  <2>1. Behind(m, from)' \subseteq Behind(m, from)
    BY <1>1, <1>3, BehindGrows
  <2>2. NoTurnLost(m, from)
    BY <1>2, <2>1 DEF NoTurnLost
  <2> QED
    BY <1>1, <1>3, <2>2, ExcusedStays
<1>4. ASSUME NEW from \in {"notice", "overdue"}, Rent!Chased(m, from, billDay)
      PROVE  m = M /\ (from = "overdue" => billing.kind = "overdue")
  BY <1>1, <1>4, TodayDecides
<1>5. Lacking(m)' => Excused(m, "notice")'
  <2> SUFFICES ASSUME Lacking(m)' PROVE Excused(m, "notice")'
    OBVIOUS
  <2>1. InMonth("rent", m) \subseteq InMonth("rent", m)' /\ InMonth("charge", m) \subseteq InMonth("charge", m)'
    BY <1>1, MonthsGrow
  <2>2. Lacking(m) /\ ~(Later("rent", m) # {} /\ Later("charge", m) # {})
    BY <2>1 DEF Lacking, Later, InMonth
  <2>3. ~Rent!Chased(m, "notice", billDay)
    BY <1>4, <2>2
  <2> QED
    BY <1>1, <1>3, <2>2, <2>3 DEF Turns
<1>6. EndsSoon(m)' <=> billDay <= Rent!EffectiveDue(m) + 10 + missed
  <2>1. Rent!EffectiveDue(m)' = Rent!EffectiveDue(m)
    BY SameChase
  <2>2. "sweep" \notin ranToday'
    OBVIOUS
  <2> QED
    BY <1>2, <2>1, <2>2 DEF EndsSoon
<1>7. EndsSoon(m) => EndsSoon(m)'
  BY <1>2, <1>6 DEF EndsSoon
<1>8. ASSUME Rent!Chased(m, "overdue", billDay), Excused(m, "overdue")
      PROVE  EndsSoon(m)'
  <2>1. billDay <= Rent!EffectiveDue(m) + 2 + Cardinality(Behind(m, "overdue"))
    BY <1>1, <1>8, ChasedMostDays
  <2>2. Cardinality(Behind(m, "overdue")) <= missed /\ Cardinality(Behind(m, "overdue")) \in Nat
    BY <1>1, <1>8, BehindFinite DEF Excused
  <2> QED
    BY <1>2, <1>6, <2>1, <2>2
<1>9. ASSUME NEW i \in Later("rent", m), bills'[i].status # "paid"
      PROVE  Excused(m, "overdue")' \/ (bills'[i].status = "overdue" /\ EndsSoon(m)')
  <2>1. i \in 1..Len(bills) /\ i \in InMonth("rent", m) /\ (i # billing.bill => bills'[i] = bills[i])
    BY <1>9 DEF Later, InMonth, BillsGrow
  <2>2. CASE i = billing.bill
    <3>1. m = M
      BY <1>9, <2>2 DEF Later
    <3>2. CASE /\ bills'[i] = bills[i]
               /\ billing.kind = "overdue" => bills'[i].status = "overdue"
      <4>1. Excused(m, "overdue") \/ (bills'[i].status = "overdue" /\ EndsSoon(m))
        BY <1>1, <1>9, <2>1, <3>2 DEF Turns
      <4>2. Rent!Chased(m, "overdue", billDay) => bills'[i].status = "overdue"
        BY <1>4, <3>2
      <4> QED
        BY <1>3, <1>7, <1>8, <4>1, <4>2
    <3>3. CASE bills'[i].status = "overdue" /\ Excused(M, "overdue")
      BY <1>3, <1>8, <3>1, <3>3
    <3> QED
      BY <1>9, <2>2, <3>1, <3>2, <3>3
  <2>3. CASE i # billing.bill
    <3>1. m # M
      BY <1>9, <2>3 DEF Later, OneBill
    <3>2. ~Rent!Chased(m, "overdue", billDay)
      BY <1>4, <3>1
    <3>3. Excused(m, "overdue") \/ (bills'[i].status = "overdue" /\ EndsSoon(m))
      BY <1>1, <1>9, <2>1, <2>3 DEF Turns
    <3> QED
      BY <1>3, <1>7, <3>2, <3>3
  <2> QED
    BY <2>2, <2>3
<1>10. ~HasRead'
  BY DEF HasRead
<1> QED
  BY <1>5, <1>9, <1>10 DEF Turns, Later, InMonth

\* A step within a day that does not end a run loses no turn, and does not
\* bring the end of the lease nearer.
LEMMA WithinTheDay ==
    ASSUME RentTypes, NEW m \in Rent!Month, NEW from \in {"notice", "overdue"},
           lease' = lease, billDay' = billDay, missed' = missed,
           "billing" \in ranToday' => "billing" \in ranToday \/ ~Rent!Chased(m, from, billDay)
    PROVE  /\ NoTurnLost(m, from)
           /\ ("sweep" \in ranToday' => "sweep" \in ranToday) /\ EndsSoon(m) => EndsSoon(m)'
<1>1. Behind(m, from)' \subseteq Behind(m, from)
  BY BehindGrows
<1>2. missed \in Nat /\ billDay \in Nat /\ Rent!EffectiveDue(m) \in Nat
  <2>1. billDay \in Nat /\ LeaseKnown
    BY LeaseDays DEF RentTypes
  <2> QED
    BY <2>1, DueInItsMonth DEF RentTypes, Rent!Day
<1>3. Rent!EffectiveDue(m)' = Rent!EffectiveDue(m)
  BY SameChase
<1>4. NoTurnLost(m, from)
  BY <1>1, <1>2 DEF NoTurnLost
<1>5. ("sweep" \in ranToday' => "sweep" \in ranToday) /\ EndsSoon(m) => EndsSoon(m)'
  BY <1>2, <1>3 DEF EndsSoon
<1> QED
  BY <1>4, <1>5

LEMMA PaymentKeepsTurns ==
    ASSUME TurnInv, Rent!MonthlyPayment
    PROVE  DueInTime' /\ ReadRight' /\ InTurn'
<1>1. /\ BillInv /\ RentTypes /\ DueInTime /\ InTurn
      /\ UNCHANGED <<lease, leaseStatus, bills, billDay, billSweep, missed>>
      /\ billing.at = "idle" /\ "billing" \notin ranToday
  BY DEF TurnInv, BillInv, Rent!MonthlyPayment
<1>2. BillsGrow
  BY <1>1 DEF BillsGrow, RentTypes
<1>3. billing = Rent!Idle
  BY <1>1 DEF RentTypes, BillingRun
<1>4. ~HasRead'
  <2>1. billing'.at = "find" \/ billing' = Rent!Idle
    BY <1>1, <1>3, RunDecides
  <2> QED
    BY <2>1 DEF HasRead
<1>5. DueInTime' /\ ReadRight'
  BY <1>1, <1>2, <1>4, DueStays DEF ReadRight
<1>6. ASSUME leaseStatus = "active", NEW m \in Rent!Month \ {Rent!LastMonth}
      PROVE  Turns(m)'
  <2>1. ASSUME NEW from \in {"notice", "overdue"}, "billing" \in ranToday'
        PROVE  ~Rent!Chased(m, from, billDay)
    <3>1. \A kind \in {"before", "due", "overdue"}, due \in Rent!Day : ~Decides(billDay, kind, due)
      BY <1>1, <1>6, <2>1, RunDecides
    <3>2. LeaseKnown /\ billDay \in lease.start..End
      BY <1>1 DEF RentTypes, InLease
    <3>3. Rent!EffectiveDue(m) \in Rent!Day
      BY <3>2, DueInItsMonth
    <3> QED
      BY <3>1, <3>2, <3>3, ChaseDecides
  <2>2. \A from \in {"notice", "overdue"} : NoTurnLost(m, from)
    BY <1>1, <2>1, WithinTheDay
  <2>3. EndsSoon(m) => EndsSoon(m)'
    <3>1. "sweep" \in ranToday' => "sweep" \in ranToday
      BY <1>1, RunDecides
    <3> QED
      BY <1>1, <2>1, <3>1, WithinTheDay
  <2>4. \A i \in Later("rent", m) : i \in 1..Len(bills) /\ bills'[i] = bills[i]
    BY <1>1 DEF Later
  <2> QED
    BY <1>2, <1>4, <1>6, <2>2, <2>3, <2>4, TurnsStay
<1> QED
  BY <1>1, <1>5, <1>6 DEF InTurn

LEMMA FindKeepsTurns ==
    ASSUME TurnInv, Rent!FindOrCreateRent
    PROVE  DueInTime' /\ ReadRight' /\ InTurn'
<1> DEFINE M == Rent!MonthOf(billing.due)
<1>1. /\ BillInv /\ RentTypes /\ DueInTime /\ InTurn
      /\ UNCHANGED <<lease, leaseStatus, billDay, billSweep, ranToday, missed>>
  BY DEF TurnInv, BillInv, Rent!FindOrCreateRent
<1>2. BillsGrow /\ billing \in BillingRun /\ billing.at = "find" /\ billing # Rent!Idle
  BY <1>1, RentFound, IdleRun
<1>3. "billing" \notin ranToday
  BY <1>1, <1>2 DEF BillInv, RunKnows
<1>4. PICK i \in Later("rent", M) :
          /\ billing' = [at |-> "charges", kind |-> billing.kind, due |-> billing.due,
                         bill |-> i, read |-> bills'[i].status]
          /\ \/ bills' = bills
             \/ /\ InMonth("rent", M) = {}
                /\ Len(bills') = Len(bills) + 1 /\ i = Len(bills) + 1
                /\ bills'[i].status = "pending" /\ bills'[i].due = billing.due
                /\ \A j \in 1..Len(bills) : bills'[j] = bills[j]
  BY <1>1, RentFound
<1> HIDE DEF M
<1>5. Len(bills) \in Nat
  BY <1>1 DEF RentTypes
<1>6. \A j \in 1..Len(bills') :
         \/ j \in 1..Len(bills) /\ bills'[j] = bills[j]
         \/ /\ j = i /\ InMonth("rent", M) = {} /\ bills'[i].status = "pending"
            /\ bills'[i].due = billing.due
  BY <1>4, <1>5
<1>7. DueInTime'
  BY <1>1, <1>2, <1>6, DueStays
<1>8. ReadRight'
  BY <1>4 DEF ReadRight
<1>9. ASSUME leaseStatus = "active", NEW m \in Rent!Month \ {Rent!LastMonth}
      PROVE  Turns(m)'
  <2>1. Turns(m)
    BY <1>1, <1>9 DEF InTurn
  <2>2. /\ \A from \in {"notice", "overdue"} : NoTurnLost(m, from)
        /\ EndsSoon(m) => EndsSoon(m)'
    BY <1>1, <1>3, WithinTheDay
  <2>3. \A from \in {"notice", "overdue"} : Excused(m, from) => Excused(m, from)'
    BY <1>1, <2>2, ExcusedStays
  <2>4. Lacking(m)' => Excused(m, "notice")'
    <3>1. InMonth("rent", m) \subseteq InMonth("rent", m)' /\ InMonth("charge", m) \subseteq InMonth("charge", m)'
      BY <1>1, <1>2, MonthsGrow
    <3> QED
      BY <2>1, <2>3, <3>1 DEF Lacking, Turns
  <2>5. InMonth("rent", m) = {} => Excused(m, "overdue")'
    BY <1>1, <2>1, <2>3, NoticeCovers DEF Turns, Lacking
  <2>6. ASSUME NEW j \in Later("rent", m), bills'[j].status # "paid"
        PROVE  Excused(m, "overdue")' \/ (bills'[j].status = "overdue" /\ EndsSoon(m)')
    <3>1. j \in 1..Len(bills') /\ bills'[j].type = "rent" /\ Rent!MonthOf(bills'[j].due) = m
      BY <2>6 DEF Later
    <3>2. CASE j \in 1..Len(bills) /\ bills'[j] = bills[j]
      <4>1. j \in InMonth("rent", m)
        BY <3>1, <3>2 DEF InMonth
      <4> QED
        BY <2>1, <2>2, <2>3, <2>6, <3>2, <4>1 DEF Turns
    <3>3. CASE InMonth("rent", M) = {} /\ bills'[j].due = billing.due
      BY <2>5, <3>1, <3>3 DEF M
    <3> QED
      BY <1>6, <3>1, <3>2, <3>3
  <2>7. HasRead' /\ billing'.read = "pending" /\ Rent!MonthOf(billing'.due) = m => Excused(m, "overdue")'
    <3> SUFFICES ASSUME billing'.read = "pending", Rent!MonthOf(billing'.due) = m
                 PROVE  Excused(m, "overdue")'
      OBVIOUS
    <3>1. M = m /\ bills'[i].status = "pending"
      BY <1>4 DEF M
    <3> QED
      BY <1>4, <2>6, <3>1
  <2> QED
    BY <2>4, <2>6, <2>7 DEF Turns, Later, InMonth
<1> QED
  BY <1>1, <1>7, <1>8, <1>9 DEF InTurn

LEMMA ChargesKeepTurns ==
    ASSUME TurnInv, Rent!EnsureCharges
    PROVE  DueInTime' /\ ReadRight' /\ InTurn'
<1> DEFINE M == Rent!MonthOf(billing.due)
<1>1. /\ BillInv /\ RentTypes /\ DueInTime /\ ReadRight /\ InTurn
      /\ UNCHANGED <<lease, leaseStatus, billDay, billSweep, missed>>
  BY DEF TurnInv, BillInv, Rent!EnsureCharges
<1>2. /\ BillsGrow /\ OneBill'
      /\ billing \in BillingRun /\ billing.at = "charges" /\ billing # Rent!Idle
      /\ \A j \in 1..Len(bills) : bills'[j] = bills[j]
      /\ \A j \in 1..Len(bills') : bills'[j].type = "rent" => j \in 1..Len(bills)
      /\ Later("charge", M) # {}
  BY <1>1, ChargesEnsured, IdleRun
<1>3. HasRead /\ "billing" \notin ranToday /\ billing.bill \in InMonth("rent", M)
  BY <1>1, <1>2 DEF BillInv, RunKnows, HasRead
<1>4. billing.bill \in Later("rent", M) /\ billing.bill \in 1..Len(bills)
  BY <1>2, <1>3 DEF InMonth, Later, BillsGrow
<1>5. \/ /\ billing.kind = "overdue" /\ billing.read = "pending"
         /\ billing' = [at |-> "mark", kind |-> billing.kind, due |-> billing.due,
                        bill |-> billing.bill, read |-> billing.read]
         /\ ranToday' = ranToday
      \/ /\ ~(billing.kind = "overdue" /\ billing.read = "pending")
         /\ billing' = Rent!Idle
         /\ ranToday' = (ranToday \cup {"billing"}) \ {"sweep"}
  BY <1>1, ChargesEnsured
<1> HIDE DEF M
<1>6. DueInTime'
  BY <1>1, <1>2, DueStays
<1>7. ReadRight'
  BY <1>5 DEF ReadRight, HasRead
<1>8. ASSUME leaseStatus = "active", NEW m \in Rent!Month \ {Rent!LastMonth}
      PROVE  Turns(m)'
  <2>1. \A j \in Later("rent", m) : j \in 1..Len(bills) /\ bills'[j] = bills[j]
    BY <1>2 DEF Later
  <2>2. CASE /\ billing.kind = "overdue" /\ billing.read = "pending"
             /\ billing' = [at |-> "mark", kind |-> billing.kind, due |-> billing.due,
                            bill |-> billing.bill, read |-> billing.read]
             /\ ranToday' = ranToday
    <3>1. /\ \A from \in {"notice", "overdue"} : NoTurnLost(m, from)
          /\ EndsSoon(m) => EndsSoon(m)'
      BY <1>1, <2>2, WithinTheDay
    <3>2. HasRead /\ billing' = [billing EXCEPT !.at = billing'.at]
      BY <1>2, <1>3, <2>2 DEF BillingRun
    <3> QED
      BY <1>2, <1>8, <2>1, <3>1, <3>2, TurnsStay
  <2>3. CASE /\ ~(billing.kind = "overdue" /\ billing.read = "pending")
             /\ billing' = Rent!Idle
             /\ ranToday' = (ranToday \cup {"billing"}) \ {"sweep"}
    <3>1. bills'[billing.bill] = bills[billing.bill] /\ bills[billing.bill] \in Bill
      BY <1>1, <1>2, <1>4 DEF RentTypes
    <3>2. ASSUME bills'[billing.bill].status # "paid", billing.kind = "overdue"
          PROVE  bills'[billing.bill].status = "overdue"
      <4>1. bills[billing.bill].status # "pending"
        BY <1>1, <1>3, <2>3, <3>2 DEF ReadRight
      <4> QED
        BY <3>1, <3>2, <4>1 DEF Bill
    <3> QED
      BY <1>1, <1>2, <1>3, <1>4, <1>8, <2>1, <2>3, <3>1, <3>2, TurnOver DEF M
  <2> QED
    BY <1>5, <2>2, <2>3
<1> QED
  BY <1>1, <1>6, <1>7, <1>8 DEF InTurn

LEMMA MarkKeepsTurns ==
    ASSUME TurnInv, Rent!MarkOverdue
    PROVE  DueInTime' /\ ReadRight' /\ InTurn'
<1> DEFINE M == Rent!MonthOf(billing.due)
           k == billing.bill
<1>1. /\ BillInv /\ RentTypes /\ OneBill /\ DueInTime /\ InTurn
      /\ UNCHANGED <<lease, leaseStatus, billDay, billSweep, missed>>
      /\ billing.at = "mark" /\ billing' = Rent!Idle
      /\ ranToday' = (ranToday \cup {"billing"}) \ {"sweep"}
      /\ bills' = [bills EXCEPT ![k].status = "overdue"]
  BY DEF TurnInv, BillInv, Rent!MarkOverdue
<1>2. billing # Rent!Idle
  BY <1>1 DEF Rent!Idle
<1>3. /\ HasRead /\ "billing" \notin ranToday
      /\ billing.kind = "overdue" /\ billing.read = "pending"
      /\ k \in InMonth("rent", M) /\ InMonth("charge", M) # {}
  BY <1>1, <1>2 DEF BillInv, RunKnows, HasRead
<1>4. k \in 1..Len(bills)
  BY <1>3 DEF InMonth
<1>5. /\ BillsGrow /\ OneBill' /\ Len(bills') = Len(bills)
      /\ bills'[k].status = "overdue"
      /\ \A j \in 1..Len(bills) : j # k => bills'[j] = bills[j]
  BY <1>1, <1>4, BillMarked
<1> HIDE DEF M, k
<1>6. k \in Later("rent", M) /\ Later("charge", M) # {}
  <2>1. InMonth("rent", M) \subseteq Later("rent", M) /\ InMonth("charge", M) \subseteq Later("charge", M)
    BY <1>5 DEF InMonth, Later, BillsGrow
  <2> QED
    BY <1>3, <2>1
<1>7. DueInTime'
  BY <1>1, <1>5, DueStays
<1>8. ReadRight'
  BY <1>1 DEF ReadRight, HasRead
<1>9. ASSUME leaseStatus = "active", NEW m \in Rent!Month \ {Rent!LastMonth}
      PROVE  Turns(m)'
  <2>1. m = M => Excused(M, "overdue")
    BY <1>1, <1>3, <1>9 DEF InTurn, Turns, M
  <2>2. \A j \in Later("rent", m) : j \in 1..Len(bills) /\ (j # k => bills'[j] = bills[j])
    BY <1>5 DEF Later
  <2> QED
    BY <1>1, <1>3, <1>5, <1>6, <1>9, <2>1, <2>2, TurnOver DEF M, k
<1> QED
  BY <1>1, <1>7, <1>8, <1>9 DEF InTurn

LEMMA PaidKeepsTurns ==
    ASSUME TurnInv, \E i \in DOMAIN bills : Rent!PayRent(i) \/ Rent!GiveUp(i)
    PROVE  DueInTime' /\ ReadRight' /\ InTurn'
<1>1. /\ BillInv /\ RentTypes /\ OneBill /\ DueInTime /\ ReadRight /\ InTurn
      /\ UNCHANGED <<lease, leaseStatus, billDay, billing, billSweep, ranToday, missed>>
  BY DEF TurnInv, BillInv, Rent!PayRent, Rent!GiveUp
<1>2. PICK i \in 1..Len(bills), s \in {"overdue", "paid"} :
          /\ bills' = [bills EXCEPT ![i].status = s]
          /\ s = "overdue" => bills[i].status = "pending"
          /\ bills[i].status # "paid"
  <2>1. DOMAIN bills = 1..Len(bills)
    BY <1>1 DEF RentTypes
  <2> QED
    BY <2>1 DEF Rent!PayRent, Rent!GiveUp
<1>3. /\ BillsGrow /\ Len(bills') = Len(bills) /\ bills'[i].status = s
      /\ \A j \in 1..Len(bills) : j # i => bills'[j] = bills[j]
  BY <1>1, <1>2, BillMarked
<1>4. DueInTime'
  BY <1>1, <1>3, DueStays
<1>5. ReadRight'
  <2>1. HasRead => billing.bill \in 1..Len(bills)
    BY <1>1 DEF BillInv, RunKnows, HasRead, InMonth
  <2>2. HasRead /\ bills[billing.bill].status # "pending" => bills'[billing.bill].status # "pending"
    BY <1>2, <1>3, <2>1
  <2> QED
    BY <1>1, <2>2 DEF ReadRight, HasRead
<1>6. ASSUME leaseStatus = "active", NEW m \in Rent!Month \ {Rent!LastMonth}
      PROVE  Turns(m)'
  <2>1. /\ \A from \in {"notice", "overdue"} : NoTurnLost(m, from)
        /\ EndsSoon(m) => EndsSoon(m)'
    BY <1>1, WithinTheDay
  <2>2. ASSUME NEW j \in Later("rent", m), bills'[j].status # "paid"
        PROVE  /\ j \in 1..Len(bills) /\ bills[j].status # "paid"
               /\ bills[j].status = "overdue" => bills'[j].status = "overdue"
    <3>1. j \in 1..Len(bills)
      BY <1>3 DEF Later
    <3> QED
      BY <1>2, <1>3, <2>2, <3>1
  <2>3. HasRead' => HasRead /\ billing' = [billing EXCEPT !.at = billing'.at]
    BY <1>1 DEF HasRead, RentTypes, BillingRun
  <2> QED
    BY <1>3, <1>6, <2>1, <2>2, <2>3, TurnsStay
<1> QED
  BY <1>1, <1>4, <1>5, <1>6 DEF InTurn

\* The life-cycle cron reports its run done when no rent is ten days late.
LEMMA SweepKeepsTurns ==
    ASSUME TurnInv, Rent!LifecycleRun
    PROVE  DueInTime' /\ ReadRight' /\ InTurn'
<1>1. /\ BillInv /\ RentTypes /\ OneBill /\ DueInTime /\ ReadRight /\ InTurn
      /\ UNCHANGED <<lease, bills, billDay, billing, missed>>
      /\ ranToday' = ranToday \/ ranToday' = ranToday \cup {"sweep"}
      /\ leaseStatus' = "active" => leaseStatus = "active"
  BY DEF TurnInv, BillInv, Rent!LifecycleRun
<1>2. BillsGrow
  BY <1>1 DEF BillsGrow, RentTypes
<1>3. DueInTime'
  BY <1>1, <1>2, DueStays
<1>4. ReadRight'
  BY <1>1 DEF ReadRight, HasRead
<1>5. ASSUME leaseStatus' = "active", NEW m \in Rent!Month \ {Rent!LastMonth}
      PROVE  Turns(m)'
  <2>1. /\ \A from \in {"notice", "overdue"} : NoTurnLost(m, from)
        /\ ("sweep" \in ranToday' => "sweep" \in ranToday) /\ EndsSoon(m) => EndsSoon(m)'
    BY <1>1, WithinTheDay
  <2>2. ASSUME NEW i \in Later("rent", m), bills[i].status = "overdue", EndsSoon(m)
        PROVE  EndsSoon(m)'
    <3>1. CASE ranToday' = ranToday
      BY <2>1, <2>2, <3>1
    <3>2. CASE ranToday' # ranToday
      <4>1. /\ i \in DOMAIN bills /\ bills[i].type = "rent" /\ bills[i] \in Bill
            /\ i \in InMonth("rent", m)
        BY <1>1, <2>2 DEF Later, InMonth, RentTypes
      <4>2. ~(bills[i].due <= billDay - 10)
        BY <1>5, <2>2, <3>2, <4>1 DEF Rent!LifecycleRun
      <4>3. bills[i].due <= Rent!EffectiveDue(m)
        BY <1>1, <4>1 DEF DueInTime
      <4>4. /\ bills[i].due \in Nat /\ billDay \in Nat /\ missed \in Nat
            /\ Rent!EffectiveDue(m) \in Nat
        <5>1. billDay \in Nat /\ LeaseKnown /\ missed \in Nat
          BY <1>1, LeaseDays DEF RentTypes
        <5>2. Rent!EffectiveDue(m) \in Rent!Day /\ bills[i].due \in Rent!Day
          BY <4>1, <5>1, DueInItsMonth DEF Bill
        <5> QED
          BY <5>1, <5>2 DEF Rent!Day
      <4>5. billDay + 1 <= Rent!EffectiveDue(m) + 10 + missed
        BY <4>2, <4>3, <4>4
      <4>6. Rent!EffectiveDue(m)' = Rent!EffectiveDue(m)
        BY <1>1, SameChase
      <4> QED
        BY <1>1, <4>4, <4>5, <4>6 DEF EndsSoon
    <3> QED
      BY <3>1, <3>2
  <2>3. \A i \in Later("rent", m) : i \in 1..Len(bills) /\ bills'[i] = bills[i]
    BY <1>1 DEF Later
  <2>4. HasRead' => HasRead /\ billing' = [billing EXCEPT !.at = billing'.at]
    BY <1>1 DEF HasRead, RentTypes, BillingRun
  <2> QED
    BY <1>1, <1>2, <1>5, <2>1, <2>2, <2>3, <2>4, TurnsStay
<1> QED
  BY <1>1, <1>3, <1>4, <1>5 DEF InTurn

\* A run that an outage swallows, and midnight.
LEMMA NightKeepsTurns ==
    ASSUME TurnInv, Rent!Crash \/ Rent!NextDay
    PROVE  DueInTime' /\ ReadRight' /\ InTurn'
<1>1. /\ BillInv /\ RentTypes /\ OneBill /\ DueInTime /\ ReadRight /\ InTurn
      /\ UNCHANGED <<lease, leaseStatus, bills>>
      /\ billing' = Rent!Idle
  BY DEF TurnInv, BillInv, Rent!Crash, Rent!NextDay
<1>2. BillsGrow
  BY <1>1 DEF BillsGrow, RentTypes
<1>3. DueInTime'
  BY <1>1, <1>2, DueStays
<1>4. ReadRight' /\ ~HasRead'
  BY <1>1 DEF ReadRight, HasRead
<1>5. \/ /\ billDay' = billDay /\ missed' = missed + 1
         /\ ranToday' = ranToday \cup {"billing"} \/ ranToday' = ranToday
      \/ /\ billDay' = billDay + 1 /\ ranToday' = {}
         /\ missed' = missed + 1 \/ (missed' = missed /\ ranToday = {"billing", "sweep"})
  <2>1. CASE Rent!Crash
    BY <2>1 DEF Rent!Crash
  <2>2. CASE Rent!NextDay
    BY <2>2 DEF Rent!NextDay
  <2> QED
    BY <2>1, <2>2
<1>6. missed \in Nat /\ missed' \in Nat
  BY <1>1, <1>5 DEF RentTypes
<1>7. ASSUME leaseStatus = "active", NEW m \in Rent!Month \ {Rent!LastMonth}
      PROVE  Turns(m)'
  <2>1. ASSUME NEW from PROVE NoTurnLost(m, from)
    <3>1. /\ Behind(m, from)' \subseteq Behind(m, from) \cup {billDay}
          /\ "billing" \in ranToday => Behind(m, from)' \subseteq Behind(m, from)
      BY <1>1, <1>5, BehindGrows
    <3> QED
      BY <1>1, <1>5, <1>6, <3>1 DEF NoTurnLost
  <2>2. EndsSoon(m) => EndsSoon(m)'
    <3>1. billDay \in Nat /\ Rent!EffectiveDue(m) \in Nat
      <4>1. billDay \in Nat /\ LeaseKnown
        BY <1>1, LeaseDays DEF RentTypes
      <4> QED
        BY <4>1, DueInItsMonth DEF Rent!Day
    <3>2. Rent!EffectiveDue(m)' = Rent!EffectiveDue(m)
      BY <1>1, SameChase
    <3>3. CASE billDay' = billDay /\ missed' = missed + 1
      BY <1>5, <1>6, <3>1, <3>2, <3>3 DEF EndsSoon
    <3>4. CASE billDay' = billDay + 1 /\ ranToday' = {} /\ missed' = missed + 1
      BY <1>6, <3>1, <3>2, <3>4 DEF EndsSoon
    <3>5. CASE billDay' = billDay + 1 /\ ranToday' = {} /\ missed' = missed
               /\ ranToday = {"billing", "sweep"}
      BY <1>6, <3>1, <3>2, <3>5 DEF EndsSoon
    <3> QED
      BY <1>5, <3>3, <3>4, <3>5
  <2>3. \A i \in Later("rent", m) : i \in 1..Len(bills) /\ bills'[i] = bills[i]
    BY <1>1 DEF Later
  <2> QED
    BY <1>2, <1>4, <1>7, <2>1, <2>2, <2>3, TurnsStay
<1> QED
  BY <1>1, <1>3, <1>4, <1>7 DEF InTurn

LEMMA TurnsKept == TurnInv /\ [Rent!Next]_(Rent!vars) => TurnInv'
<1> SUFFICES ASSUME TurnInv, [Rent!Next]_(Rent!vars) PROVE TurnInv'
  OBVIOUS
<1>1. BillInv' /\ BillInv
  BY BillsKept DEF TurnInv
<1>2. DueInTime' /\ ReadRight' /\ InTurn'
  <2>1. CASE Rent!TerminateNonPayment
    <3>1. /\ UNCHANGED <<lease, bills, billDay, billing, missed>> /\ leaseStatus' # "active"
      BY <2>1 DEF Rent!TerminateNonPayment
    <3>2. BillsGrow
      BY <1>1, <3>1 DEF BillInv, BillsGrow, RentTypes
    <3>3. DueInTime'
      BY <3>1, <3>2, DueStays
    <3> QED
      BY <3>1, <3>3 DEF TurnInv, ReadRight, HasRead, InTurn
  <2>2. CASE UNCHANGED Rent!vars
    <3>1. UNCHANGED <<lease, leaseStatus, bills, billDay, billing, billSweep, ranToday, missed>>
      BY <2>2 DEF Rent!vars
    <3>2. DueInTime' /\ ReadRight'
      BY <3>1
         DEF TurnInv, DueInTime, ReadRight, HasRead, InMonth, Rent!EffectiveDue,
             Rent!BeforeStart, Rent!DueInMonth
    <3>3. ASSUME NEW m \in Rent!Month, Turns(m) PROVE Turns(m)'
      BY <3>1, <3>3
         DEF Turns, HasRead, Lacking, Excused, Behind, EndsSoon, InMonth, Rent!Chased,
             Rent!EffectiveDue, Rent!BeforeStart, Rent!DueInMonth
    <3> QED
      BY <3>1, <3>2, <3>3 DEF TurnInv, InTurn
  <2> QED
    BY <2>1, <2>2, PaymentKeepsTurns, FindKeepsTurns, ChargesKeepTurns, MarkKeepsTurns,
       PaidKeepsTurns, SweepKeepsTurns, NightKeepsTurns DEF Rent!Next
<1> QED
  BY <1>1, <1>2 DEF TurnInv

\* The days the property counts are among those that have had their run.
LEMMA CountedDays ==
    ASSUME RentTypes, NEW m, NEW from, Excused(m, from)
    PROVE  ~(Rent!Cardinality(Rent!ChasedOn(m, from)) > missed)
<1>1. lease.start \in Nat /\ billDay \in Nat
  BY LeaseDays DEF RentTypes
<1>2. Rent!ChasedOn(m, from) \subseteq Behind(m, from)
  BY <1>1 DEF Rent!ChasedOn, Behind
<1> DEFINE S == Rent!ChasedOn(m, from)
           T == Behind(m, from)
<1>3. IsFiniteSet(T) /\ Cardinality(T) <= missed
  BY BehindFinite DEF Excused
<1>4. missed \in Nat
  BY DEF RentTypes
<1>5. Rent!Cardinality(S) = Cardinality(S)
  BY DEF Rent!Cardinality, Cardinality
<1> HIDE DEF S, T
<1>6. S \subseteq T
  BY <1>2 DEF S, T
<1>7. Cardinality(S) \in Nat /\ Cardinality(T) \in Nat /\ Cardinality(S) <= Cardinality(T)
  BY <1>3, <1>6, FS_Subset, FS_CardinalityType
<1> QED
  BY <1>3, <1>4, <1>5, <1>7 DEF S

\* Every month of an active lease has its rent and its charges, unless the
\* cron missed all the runs that would have created them: for every calendar,
\* due day, start and end of the lease and number of missed runs.
THEOREM EveryMonthBilled == FairSpec => []MonthBilled
<1>1. TurnInv => MonthBilled
  <2> SUFFICES ASSUME TurnInv, leaseStatus = "active", NEW m \in Rent!Month \ {Rent!LastMonth},
                      Rent!Cardinality(Rent!ChasedOn(m, "notice")) > missed
               PROVE  /\ Rent!FindMonthly("rent", Rent!EffectiveDue(m)) # {}
                      /\ Rent!FindMonthly("charge", Rent!EffectiveDue(m)) # {}
    BY DEF MonthBilled, Rent!MonthBilled
  <2>1. RentTypes /\ Turns(m) /\ LeaseKnown
    BY DEF TurnInv, InTurn, BillInv, RentTypes
  <2>2. ~Lacking(m)
    BY <2>1, CountedDays DEF Turns
  <2>3. Rent!MonthOf(Rent!EffectiveDue(m)) = m
    BY <2>1, DueInItsMonth
  <2> QED
    BY <2>1, <2>2, <2>3, FoundInMonth DEF Lacking
<1> QED
  BY <1>1, TurnsInitially, TurnsKept, RentImplemented, PTL DEF Rent!Spec

\* A lease whose rent stays unpaid is ended ten days after the due day, and as
\* many days later as runs were missed, once the cron has had a day to mark
\* the rent overdue (handleOverdue and autoTerminateContract).
THEOREM UnpaidIsEnded == FairSpec => []UnpaidEndsLease
<1>1. TurnInv => UnpaidEndsLease
  <2> SUFFICES ASSUME TurnInv, leaseStatus = "active", NEW i \in DOMAIN bills, NEW m,
                      m = Rent!MonthOf(bills[i].due),
                      bills[i].type = "rent", bills[i].status # "paid",
                      Rent!Cardinality(Rent!ChasedOn(m, "overdue")) > missed
               PROVE  billDay <= Rent!EffectiveDue(m) + 10 + missed
    BY DEF UnpaidEndsLease, Rent!UnpaidEndsLease
  <2>1. RentTypes /\ InTurn /\ LeaseKnown
    BY DEF TurnInv, BillInv, RentTypes
  <2>2. i \in 1..Len(bills) /\ bills[i] \in Bill /\ i \in InMonth("rent", m)
    BY <2>1 DEF RentTypes, InMonth
  <2>3. m \in Rent!Month
    BY <2>2, MonthOfDay DEF Bill
  <2>4. m # Rent!LastMonth
    <3> SUFFICES ASSUME m = Rent!LastMonth PROVE FALSE
      OBVIOUS
    <3>1. Rent!ChasedOn(m, "overdue") = {}
      <4> SUFFICES ASSUME NEW d \in lease.start..(billDay - 1), Rent!Chased(m, "overdue", d)
                   PROVE  FALSE
        BY DEF Rent!ChasedOn
      <4>1. Rent!MonthOf(d) = m /\ d < End - 5
        BY DEF Rent!Chased
      <4>2. /\ lease.start \in Rent!Day /\ End \in Rent!Day /\ End < FirstDay[Rent!LastMonth]
            /\ lease.start \in Nat /\ End \in Nat /\ billDay \in Nat
        BY <2>1, ServicesAssumption, LeaseDays
           DEF RentTypes, LeaseKnown, Rent!Leases, ServicesAssumption, Rent!CalendarAssumption
      <4>3. d \in Rent!Day
        <5>1. FirstDay[Len(FirstDay)] \in Nat
          BY Calendar
        <5> QED
          BY <4>1, <4>2, <5>1 DEF Rent!Day
      <4>4. FirstDay[m] <= d /\ FirstDay[m] \in Nat
        BY <2>3, <4>1, <4>3, MonthOfDay, Calendar
      <4> QED
        BY <4>1, <4>2, <4>4
    <3>2. Rent!Cardinality({}) = 0
      <4>1. Rent!Cardinality({}) = Cardinality({})
        BY DEF Rent!Cardinality, Cardinality
      <4> QED
        BY <4>1, FS_EmptySet
    <3>3. Rent!Cardinality(Rent!ChasedOn(m, "overdue")) = 0
      BY <3>1, <3>2
    <3>4. ~(0 > missed)
      BY <2>1 DEF RentTypes
    <3> QED
      BY <3>3, <3>4
  <2>5. Turns(m) /\ ~Excused(m, "overdue")
    BY <2>1, <2>3, <2>4, CountedDays DEF InTurn
  <2>6. EndsSoon(m)
    BY <2>2, <2>5 DEF Turns
  <2>7. billDay \in Nat /\ missed \in Nat /\ Rent!EffectiveDue(m) \in Nat
    <3>1. billDay \in Nat /\ missed \in Nat
      BY <2>1, LeaseDays DEF RentTypes
    <3> QED
      BY <2>1, <2>3, <3>1, DueInItsMonth DEF Rent!Day
  <2> QED
    BY <2>6, <2>7 DEF EndsSoon
<1> QED
  BY <1>1, TurnsInitially, TurnsKept, RentImplemented, PTL DEF Rent!Spec

=============================================================================
