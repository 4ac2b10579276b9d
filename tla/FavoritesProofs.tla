---------------------------- MODULE FavoritesProofs ----------------------------
(***************************************************************************)
(* The count shown with a property never falls below the number of users   *)
(* who saved it, and exceeds it by no more than the removals that crashes  *)
(* have cut short, for any number of users, requests and crashes.          *)
(***************************************************************************)
EXTENDS Favorites, FiniteSetTheorems, TLAPS

Leaving == {h \in Handler : handler[h].op = "uncount"}

Typed ==
    /\ favorites \in SUBSET Visitor
    /\ favoriteCount \in Int
    /\ DOMAIN handler = Handler
    /\ \A h \in Handler : handler[h].op = "add" => handler[h].visitor \in Visitor
    /\ crashes \in Nat

FavoritesInv == Typed /\ FavoriteCountMatches

\* The sets the count is compared with are finite.
LEMMA Finite ==
    ASSUME FavoritesAssumption, Typed
    PROVE  /\ IsFiniteSet(favorites) /\ Cardinality(favorites) \in Nat
           /\ IsFiniteSet(Leaving) /\ Cardinality(Leaving) \in Nat
           /\ Cardinality(Handler) \in Nat /\ Cardinality(Leaving) <= Cardinality(Handler)
<1>1. IsFiniteSet(favorites) /\ IsFiniteSet(Leaving) /\ Cardinality(Leaving) <= Cardinality(Handler)
  BY FS_Subset DEF FavoritesAssumption, Typed, Leaving
<1> QED
  BY <1>1, FS_CardinalityType DEF FavoritesAssumption

\* The property, with its sets named.
LEMMA Counts ==
    FavoriteCountMatches <=>
        /\ favoriteCount >= Cardinality(favorites) + Cardinality(Leaving)
        /\ favoriteCount <= Cardinality(favorites) + Cardinality(Leaving)
                            + crashes * Cardinality(Handler)
BY DEF FavoriteCountMatches, Leaving

LEMMA FavoritesInvInit == FavoritesAssumption /\ Init => FavoritesInv
<1> SUFFICES ASSUME FavoritesAssumption, Init PROVE FavoritesInv
  OBVIOUS
<1>1. Typed
  BY DEF Init, Typed, Free
<1>2. favorites = {} /\ Leaving = {} /\ favoriteCount = 0 /\ crashes = 0
  BY DEF Init, Leaving, Free
<1>3. FavoriteCountMatches
  BY <1>1, <1>2, Counts, Finite, FS_EmptySet
<1> QED
  BY <1>1, <1>3 DEF FavoritesInv

\* Each request, and each crash, keeps the count within its bounds.
LEMMA FavoritesInvNext == FavoritesAssumption /\ FavoritesInv /\ [Next]_vars => FavoritesInv'
<1> SUFFICES ASSUME FavoritesAssumption, FavoritesInv, [Next]_vars PROVE FavoritesInv'
  OBVIOUS
<1> DEFINE Extra == crashes * Cardinality(Handler)
<1>1. Extra \in Nat
  BY Finite DEF FavoritesInv, Typed
<1>2. CASE UNCHANGED vars
  BY <1>2 DEF vars, FavoritesInv, Typed, FavoriteCountMatches
<1>3. ASSUME NEW h \in Handler, NEW v \in Visitor, AddFavoriteRead(h, v) PROVE FavoritesInv'
  <2>1. Typed'
    BY <1>3 DEF AddFavoriteRead, FavoritesInv, Typed
  <2>2. Leaving' = Leaving
    BY <1>3 DEF AddFavoriteRead, FavoritesInv, Typed, Leaving, Free
  <2> QED
    BY <1>3, <2>1, <2>2, Counts DEF AddFavoriteRead, FavoritesInv, FavoriteCountMatches, Leaving
<1>4. ASSUME NEW h \in Handler, AddFavorite(h) PROVE FavoritesInv'
  <2>1. Typed'
    BY <1>4 DEF AddFavorite, FavoritesInv, Typed, Free
  <2>2. Leaving' = Leaving
    BY <1>4 DEF AddFavorite, FavoritesInv, Typed, Leaving, Free
  <2>3. favoriteCount' - favoriteCount = Cardinality(favorites') - Cardinality(favorites)
    BY <1>4, Finite, FS_AddElement DEF AddFavorite, FavoritesInv, Typed
  <2>4. Cardinality(favorites') \in Nat
    BY <1>4, Finite, FS_AddElement, FS_CardinalityType DEF AddFavorite, FavoritesInv, Typed
  <2>5. /\ favoriteCount' >= Cardinality(favorites') + Cardinality(Leaving)
        /\ favoriteCount' <= Cardinality(favorites') + Cardinality(Leaving) + Extra
    BY <1>1, <2>1, <2>3, <2>4, Counts, Finite DEF FavoritesInv, Typed
  <2> QED
    BY <1>4, <2>1, <2>2, <2>5 DEF AddFavorite, FavoritesInv, FavoriteCountMatches, Leaving
<1>5. ASSUME NEW h \in Handler, NEW v \in Visitor, RemoveFavorite(h, v) PROVE FavoritesInv'
  <2>1. Typed'
    BY <1>5 DEF RemoveFavorite, FavoritesInv, Typed, Free
  <2>2. h \notin Leaving
    BY <1>5 DEF RemoveFavorite, Leaving, Free
  <2>3. CASE v \in favorites
    <3>1. Leaving' = Leaving \cup {h}
      BY <1>5, <2>3 DEF RemoveFavorite, FavoritesInv, Typed, Leaving
    <3>2. Cardinality(Leaving') = Cardinality(Leaving) + 1
      BY <2>2, <3>1, Finite, FS_AddElement DEF FavoritesInv
    <3>3. Cardinality(favorites') = Cardinality(favorites) - 1
      BY <1>5, <2>3, Finite, FS_RemoveElement DEF RemoveFavorite, FavoritesInv
    <3>4. /\ favoriteCount >= Cardinality(favorites') + Cardinality(Leaving')
          /\ favoriteCount <= Cardinality(favorites') + Cardinality(Leaving') + Extra
      BY <1>1, <3>2, <3>3, Counts, Finite DEF FavoritesInv, Typed
    <3> QED
      BY <1>5, <2>1, <3>4 DEF RemoveFavorite, FavoritesInv, FavoriteCountMatches, Leaving
  <2>4. CASE v \notin favorites
    <3>1. Leaving' = Leaving /\ favorites' = favorites
      BY <1>5, <2>4 DEF RemoveFavorite, FavoritesInv, Typed, Leaving, Free
    <3> QED
      BY <1>5, <2>1, <3>1 DEF RemoveFavorite, FavoritesInv, FavoriteCountMatches, Leaving
  <2> QED
    BY <2>3, <2>4
<1>6. ASSUME NEW h \in Handler, Uncount(h) PROVE FavoritesInv'
  <2>1. Typed'
    BY <1>6 DEF Uncount, FavoritesInv, Typed, Free
  <2>2. h \in Leaving /\ Leaving' = Leaving \ {h}
    BY <1>6 DEF Uncount, FavoritesInv, Typed, Leaving, Free
  <2>3. Cardinality(Leaving') = Cardinality(Leaving) - 1
    BY <2>2, Finite, FS_RemoveElement DEF FavoritesInv
  <2>4. /\ favoriteCount' >= Cardinality(favorites) + Cardinality(Leaving')
        /\ favoriteCount' <= Cardinality(favorites) + Cardinality(Leaving') + Extra
    BY <1>1, <1>6, <2>3, Counts, Finite DEF Uncount, FavoritesInv, Typed
  <2> QED
    BY <1>6, <2>1, <2>4 DEF Uncount, FavoritesInv, FavoriteCountMatches, Leaving
<1>7. ASSUME Restart PROVE FavoritesInv'
  <2>1. Typed'
    BY <1>7 DEF Restart, FavoritesInv, Typed, Free
  <2>2. Leaving' = {}
    BY <1>7 DEF Restart, Leaving, Free
  <2>3. crashes' * Cardinality(Handler) = Extra + Cardinality(Handler)
    <3>1. crashes' = crashes + 1 /\ crashes \in Nat
      BY <1>7 DEF Restart, FavoritesInv, Typed
    <3>2. Cardinality(Handler) \in Nat
      BY Finite DEF FavoritesInv
    <3> QED
      BY <3>1, <3>2
  <2>4. /\ favoriteCount >= Cardinality(favorites) + Cardinality(Leaving')
        /\ favoriteCount <= Cardinality(favorites) + Cardinality(Leaving')
                            + crashes' * Cardinality(Handler)
    BY <1>1, <2>2, <2>3, Counts, Finite, FS_EmptySet DEF FavoritesInv, Typed
  <2> QED
    BY <1>7, <2>1, <2>4 DEF Restart, FavoritesInv, FavoriteCountMatches, Leaving
<1> QED
  BY <1>2, <1>3, <1>4, <1>5, <1>6, <1>7 DEF Next

\* addFavorite and removeFavorite keep the count of a property, crashes aside.
THEOREM CountsKept == FavoritesAssumption => (Spec => []FavoriteCountMatches)
<1> SUFFICES ASSUME FavoritesAssumption PROVE Spec => []FavoriteCountMatches
  OBVIOUS
<1>1. FavoritesInv => FavoriteCountMatches
  BY DEF FavoritesInv
<1>2. Init => FavoritesInv
  BY FavoritesInvInit
<1>3. FavoritesInv /\ [Next]_vars => FavoritesInv'
  BY FavoritesInvNext
<1> QED
  BY <1>1, <1>2, <1>3, PTL DEF Spec
=============================================================================
