-------------------------------- MODULE Search --------------------------------
(***************************************************************************)
(* Paging through the public listings (estate-service, property.service).  *)
(* searchProperties and searchAuthProperties sort by creation, price or    *)
(* area and resume after a cursor, the sort key and the id of the last     *)
(* listing of the page; the first of them can page by number as well.      *)
(* While a reader turns the pages, listings appear, are hidden, and are    *)
(* edited, which takes them off until an administrator approves them.      *)
(* A listing is a number, its place in the order of the ids.  Price stands *)
(* for area too.                                                           *)
(***************************************************************************)
EXTENDS Integers, FiniteSets

CONSTANTS
    Listing,      \* the listings, as numbers: their ids in order
    Price,        \* the prices
    Limit,        \* listings on a page
    MaxEdits      \* bound: changes to the listings while the pages are read

SearchAssumption ==
    /\ Listing \subseteq Nat /\ IsFiniteSet(Listing)
    /\ Price \subseteq Nat /\ Price # {}
    /\ Limit \in Nat \ {0}
    /\ MaxEdits \in Nat

VARIABLES
    created,      \* createdAt; 0 until the listing is created
    price,
    listed,       \* the listings that are active and approved
    matching,     \* the listings the reader's keyword is found in; fixed
    query,        \* what the reader asked for
    cursor,       \* the sort key and the id of the last listing seen
    page,         \* pages read so far
    more,         \* hasMore of the last answer
    times,        \* how often each listing was shown to the reader
    changed,      \* listings hidden, edited or created since the first page
    edits         \* changes made, up to MaxEdits

vars == <<created, price, listed, matching, query, cursor, page, more, times, changed, edits>>

Sorts == {"newest", "oldest", "price_asc", "price_desc"}

\* path: the public search or the one for a user who has logged in.
Queries ==
    {q \in [path : {"public", "auth"}, by : {"cursor", "page"}, sort : Sorts, keyword : BOOLEAN] :
        q.by = "page" => q.path = "public"}

------------------------------------------------------------------------------
SortKey(l) == IF query.sort \in {"newest", "oldest"} THEN created[l] ELSE price[l]

\* orderBy: by the key, then by the id, both in the direction of the sort.
Precedes(k, a, m, b) ==
    IF query.sort \in {"oldest", "price_asc"}
    THEN k < m \/ (k = m /\ a < b)
    ELSE k > m \/ (k = m /\ a > b)

\* Mutant: the cursor compares the keys and not the ids.
AfterCursorKeyOnly(l) ==
    IF query.sort \in {"oldest", "price_asc"}
    THEN cursor.key < SortKey(l) ELSE cursor.key > SortKey(l)

\* The condition on the rows that the cursor puts in place of where.AND.
AfterCursor(l) == Precedes(cursor.key, cursor.id, SortKey(l), l)

\* The rows that fit the where clause.  The keyword of a public search is in
\* where.AND, which the cursor of the next page replaces; that of a search
\* by a user is in where.OR.
Fitting ==
    LET resumed == query.by = "cursor" /\ page > 0
        wanted  == query.keyword /\ ~(query.path = "public" /\ resumed)
    IN  {l \in listed : (wanted => l \in matching) /\ (resumed => AfterCursor(l))}

\* skip and take over the sorted rows.
Skipped == IF query.by = "page" THEN page * Limit ELSE 0

Rank(l) == Cardinality({k \in Fitting : Precedes(SortKey(k), k, SortKey(l), l)})

OnPage == {l \in Fitting : Skipped <= Rank(l) /\ Rank(l) < Skipped + Limit}

HasMore == Cardinality(Fitting) > Skipped + Limit

LastOn(P) == CHOOSE l \in P : \A k \in P : Rank(k) <= Rank(l)

------------------------------------------------------------------------------
\* searchProperties, searchAuthProperties: one page.
NextPage ==
    /\ page = 0 \/ more
    /\ page' = page + 1
    /\ more' = HasMore
    /\ times' = [l \in Listing |-> IF l \in OnPage THEN times[l] + 1 ELSE times[l]]
    /\ cursor' = IF HasMore THEN [key |-> SortKey(LastOn(OnPage)), id |-> LastOn(OnPage)]
                 ELSE cursor
    /\ changed' = IF page = 0 THEN Listing \ listed ELSE changed
    /\ UNCHANGED <<created, price, listed, matching, query, edits>>

Change(l) ==
    /\ edits < MaxEdits
    /\ edits' = edits + 1
    /\ changed' = changed \cup {l}
    /\ UNCHANGED <<matching, query, cursor, page, more, times>>

\* A new listing, approved; listings imported together share their time.
Appear(l) ==
    /\ created[l] = 0
    /\ created' = [created EXCEPT ![l] = 2]
    /\ \E p \in Price : price' = [price EXCEPT ![l] = p]
    /\ listed' = listed \cup {l}
    /\ Change(l)

\* Hidden, rented or expired; or edited, which may change the price.
TakeOff(l) ==
    /\ l \in listed
    /\ listed' = listed \ {l}
    /\ \E p \in Price : price' = [price EXCEPT ![l] = p]
    /\ UNCHANGED created
    /\ Change(l)

\* Shown again or approved.
PutBack(l) ==
    /\ created[l] > 0 /\ l \notin listed
    /\ listed' = listed \cup {l}
    /\ UNCHANGED <<created, price>>
    /\ Change(l)

NoPrice == CHOOSE p \in Price : TRUE

Init ==
    /\ created \in [Listing -> 0..1]
    /\ price \in [Listing -> Price]
    /\ \A l \in Listing : created[l] = 0 => price[l] = NoPrice
    /\ listed = {l \in Listing : created[l] > 0}
    /\ matching \in SUBSET Listing
    /\ query \in Queries
    /\ ~query.keyword => matching = {}
    /\ cursor = [key |-> 0, id |-> 0]
    /\ page = 0 /\ more = FALSE
    /\ times = [l \in Listing |-> 0]
    /\ changed = {}
    /\ edits = 0

Next ==
    \/ NextPage
    \/ \E l \in Listing : Appear(l) \/ TakeOff(l) \/ PutBack(l)

Spec == Init /\ [][Next]_vars

------------------------------------------------------------------------------
Finished == page > 0 /\ ~more

\* A reader who goes on to the last page with the cursor has seen every
\* listing that matches and stayed as it was exactly once, and none of them
\* twice on the way, whatever listings appeared, went and came back meanwhile.
EachListingOnce ==
    query.by = "cursor" =>
        \A l \in Listing \ changed :
            /\ times[l] <= 1
            /\ Finished /\ l \in listed /\ (query.keyword => l \in matching)
                  => times[l] = 1

\* Violated by the public search: what it shows contains the keyword.
ShownMatchesKeyword ==
    query.keyword => \A l \in Listing : times[l] > 0 => l \in matching

=============================================================================
