---------------------------- MODULE CachesProofs ----------------------------
(***************************************************************************)
(* The two caches: the server's window of tracks and the web site's cache  *)
(* of searches, with the panel that uses it.                               *)
(*                                                                         *)
(* Both caches are lists in which the oldest is to be found by its place,  *)
(* and both throw away what is at some places.  What is left keeps its     *)
(* order (Leaves): the places are numbered by how many of them come no     *)
(* later (PlacesInOrder), and that every number has a place follows from   *)
(* the least number that would not, without an induction.  From the same   *)
(* numbers it follows how many are evicted, and that they are the oldest   *)
(* (OldestOf).                                                             *)
(*                                                                         *)
(* What the evictions mean to others are invariants of their own: the      *)
(* files of the queued tracks (FilesInv), the answers that are still fresh *)
(* (MapInv) and the page that the panel waits for (PanelInv).              *)
(***************************************************************************)
EXTENDS TrackCache, SearchPage, FiniteSetTheorems, SequenceTheorems,
        WellFoundedInduction, TLAPS

-----------------------------------------------------------------------------
(* What is left of a list.                                                 *)

\* The numbers in their order have no infinite descent: a set of them has a least.
Less == {ss \in Nat \X Nat : ss[1] < ss[2]}

LEMMA LessWF == IsWellFoundedOn(Less, Nat)
BY NatLessThanWellFounded DEF OpToRel, Less

LEMMA Least ==
    ASSUME NEW S, S \subseteq Nat, S # {}
    PROVE  \E n \in S : \A m \in S : n <= m
<1>1. PICK n \in S : \A m \in S : <<m, n>> \notin Less
  BY LessWF, WFMin
<1>2. ASSUME NEW m \in S PROVE n <= m
  <2>1. m \in Nat /\ n \in Nat /\ <<m, n>> \notin Less
    BY <1>1
  <2>2. ~(m < n)
    BY <2>1 DEF Less
  <2> QED BY <2>1, <2>2
<1> QED BY <1>2

\* Membership in an interval, in the form that arithmetic needs.
LEMMA PlacesAreNumbers ==
    ASSUME NEW L \in Nat, NEW P, P \subseteq 1..L, NEW p \in P
    PROVE  p \in Nat /\ 1 <= p /\ p <= L
<1>1. p \in 1..L
  OBVIOUS
<1> QED BY <1>1

(* Places are counted. *)
LEMMA CountPlaces ==
    ASSUME NEW L \in Nat, NEW P, P \subseteq 1..L
    PROVE  /\ IsFiniteSet(P) /\ Cardinality(P) \in Nat /\ Cardinality(P) <= L
           /\ \A Q : Q \subseteq P =>
                /\ IsFiniteSet(Q) /\ Cardinality(Q) \in Nat
                /\ Cardinality(Q) <= Cardinality(P)
                /\ Cardinality(Q) = Cardinality(P) => Q = P
<1>1. IsFiniteSet(1..L) /\ Cardinality(1..L) = L
  BY FS_Interval
<1>2. IsFiniteSet(P) /\ Cardinality(P) <= L
  BY <1>1, FS_Subset
<1>3. Cardinality(P) \in Nat
  BY <1>2, FS_CardinalityType
<1>4. ASSUME NEW Q, Q \subseteq P
      PROVE  /\ IsFiniteSet(Q) /\ Cardinality(Q) \in Nat
             /\ Cardinality(Q) <= Cardinality(P)
             /\ Cardinality(Q) = Cardinality(P) => Q = P
  <2>1. /\ IsFiniteSet(Q) /\ Cardinality(Q) <= Cardinality(P)
        /\ Cardinality(Q) = Cardinality(P) => Q = P
    BY <1>2, <1>4, FS_Subset
  <2> QED BY <2>1, FS_CardinalityType
<1> QED BY <1>2, <1>3, <1>4

(* A later place has no fewer places before it, and more if it is one itself. *)
LEMMA UpToGrows ==
    ASSUME NEW L \in Nat, NEW P, P \subseteq 1..L, NEW m \in Nat, NEW n \in Nat, m <= n
    PROVE  /\ Cardinality(UpTo(P, m)) \in Nat /\ Cardinality(UpTo(P, n)) \in Nat
           /\ Cardinality(UpTo(P, m)) <= Cardinality(UpTo(P, n))
           /\ n \in P /\ m # n => Cardinality(UpTo(P, m)) < Cardinality(UpTo(P, n))
<1>0. \A p \in P : p \in Nat
  BY PlacesAreNumbers
<1>1. UpTo(P, m) \subseteq UpTo(P, n) /\ UpTo(P, n) \subseteq 1..L
  <2>1. \A p \in P : p <= m => p <= n
    BY <1>0
  <2>2. UpTo(P, n) \subseteq P
    BY DEF UpTo
  <2>3. UpTo(P, m) \subseteq UpTo(P, n)
    BY <2>1 DEF UpTo
  <2> QED BY <2>2, <2>3
<1>2. /\ Cardinality(UpTo(P, n)) \in Nat /\ Cardinality(UpTo(P, m)) \in Nat
      /\ Cardinality(UpTo(P, m)) <= Cardinality(UpTo(P, n))
      /\ Cardinality(UpTo(P, m)) = Cardinality(UpTo(P, n)) => UpTo(P, m) = UpTo(P, n)
  BY <1>1, CountPlaces
<1>3. ASSUME n \in P, m # n PROVE Cardinality(UpTo(P, m)) # Cardinality(UpTo(P, n))
  <2>1. n \in UpTo(P, n) /\ n \notin UpTo(P, m)
    BY <1>3 DEF UpTo
  <2> QED BY <2>1, <1>2
<1> QED BY <1>2, <1>3

(* Every place has a number, and every number a place. *)
LEMMA EveryPlaceIsNumbered ==
    ASSUME NEW L \in Nat, NEW P, P \subseteq 1..L, NEW n \in P
    PROVE  Cardinality(UpTo(P, n)) \in 1..Cardinality(P)
<1>1. UpTo(P, n) \subseteq P /\ n \in UpTo(P, n) /\ UpTo(P, n) \subseteq 1..L
  <2>1. n <= n
    BY PlacesAreNumbers
  <2>2. UpTo(P, n) \subseteq P
    BY DEF UpTo
  <2>3. n \in UpTo(P, n)
    BY <2>1 DEF UpTo
  <2> QED BY <2>2, <2>3
<1>2. IsFiniteSet(UpTo(P, n)) /\ Cardinality(UpTo(P, n)) \in Nat
      /\ Cardinality(UpTo(P, n)) <= Cardinality(P) /\ Cardinality(P) \in Nat
  BY <1>1, CountPlaces
<1>3. Cardinality(UpTo(P, n)) # 0
  BY <1>1, <1>2, FS_EmptySet
<1> QED BY <1>2, <1>3

(* The place of a number is the first that has so many up to it. *)
LEMMA EveryNumberHasAPlace ==
    ASSUME NEW L \in Nat, NEW P, P \subseteq 1..L, NEW k \in 1..Cardinality(P)
    PROVE  \E n \in P : Cardinality(UpTo(P, n)) = k
<1> DEFINE count(x) == Cardinality(UpTo(P, x))
           enough == {x \in 0..L : count(x) >= k}
<1>0. /\ \A x \in Nat : count(x) \in Nat /\ IsFiniteSet(UpTo(P, x))
      /\ Cardinality(P) \in Nat
  <2>1. \A x \in Nat : UpTo(P, x) \subseteq P
    BY DEF UpTo
  <2> QED BY <2>1, CountPlaces
<1>1. L \in enough
  <2>1. UpTo(P, L) = P
    BY PlacesAreNumbers DEF UpTo
  <2> QED BY <2>1, <1>0
<1>2. PICK n \in enough : \A x \in enough : n <= x
  <2>1. enough \subseteq Nat /\ enough # {}
    BY <1>1
  <2> HIDE DEF enough
  <2> QED BY <2>1, Least
<1>3. n # 0
  <2>1. UpTo(P, 0) = {}
    <3>1. \A p \in P : ~(p <= 0)
      BY PlacesAreNumbers
    <3> QED BY <3>1 DEF UpTo
  <2>2. count(0) = 0
    BY <2>1, FS_EmptySet
  <2> QED BY <2>2
<1>4. n - 1 \in 0..L /\ count(n - 1) < k
  <2>1. n - 1 \in 0..L /\ n - 1 \notin enough
    BY <1>2, <1>3
  <2>2. count(n - 1) \in Nat
    BY <2>1, <1>0
  <2> QED BY <2>1, <2>2
<1>5. UpTo(P, n) = IF n \in P THEN UpTo(P, n - 1) \cup {n} ELSE UpTo(P, n - 1)
  <2>1. n \in 0..L /\ P \subseteq 1..L
    BY <1>2
  <2>2. \A m \in P : m <= n <=> m <= n - 1 \/ m = n
    BY <2>1
  <2>3. \A m \in P : m \in Nat
    OBVIOUS
  <2>4. CASE n \in P
    <3>1. UpTo(P, n) \subseteq UpTo(P, n - 1) \cup {n}
      BY <2>2 DEF UpTo
    <3>2. UpTo(P, n - 1) \cup {n} \subseteq UpTo(P, n)
      BY <2>2, <2>4 DEF UpTo
    <3> QED BY <3>1, <3>2, <2>4
  <2>5. CASE n \notin P
    <3>1. UpTo(P, n) \subseteq UpTo(P, n - 1)
      BY <2>2, <2>5 DEF UpTo
    <3>2. UpTo(P, n - 1) \subseteq UpTo(P, n)
      BY <2>2 DEF UpTo
    <3> QED BY <3>1, <3>2, <2>5
  <2> QED BY <2>4, <2>5
<1>6. n \in P
  BY <1>2, <1>4, <1>5, <1>0
<1>7. count(n) = count(n - 1) + 1
  <2>1. IsFiniteSet(UpTo(P, n - 1))
    BY <1>0, <1>4
  <2>3. n \notin UpTo(P, n - 1)
    <3>1. n \in Nat /\ ~(n <= n - 1)
      BY <1>2
    <3> QED BY <3>1 DEF UpTo
  <2>2. UpTo(P, n) = UpTo(P, n - 1) \cup {n}
    BY <1>5, <1>6
  <2> QED BY <2>1, <2>2, <2>3, FS_AddElement
<1>8. count(n) = k
  <2>1. n \in Nat /\ n - 1 \in Nat /\ count(n) >= k
    BY <1>2, <1>4
  <2>2. count(n - 1) \in Nat /\ count(n) \in Nat
    BY <2>1, <1>0
  <2> HIDE DEF count
  <2> QED BY <2>1, <2>2, <1>4, <1>7
<1> QED BY <1>6, <1>8

(* PlaceOf numbers the places, all of them and in their order. *)
LEMMA PlacesInOrder ==
    ASSUME NEW L \in Nat, NEW P, P \subseteq 1..L
    PROVE  /\ \A k \in 1..Cardinality(P) :
                PlaceOf(P, k) \in P /\ Cardinality(UpTo(P, PlaceOf(P, k))) = k
           /\ \A j, k \in 1..Cardinality(P) : j < k => PlaceOf(P, j) < PlaceOf(P, k)
           /\ \A n \in P : \E k \in 1..Cardinality(P) : PlaceOf(P, k) = n
<1>0. Cardinality(P) \in Nat /\ \A n \in P : n \in Nat
  <2>1. \A n \in P : n \in Nat
    BY PlacesAreNumbers
  <2> QED BY <2>1, CountPlaces
<1>1. ASSUME NEW k \in 1..Cardinality(P)
      PROVE  PlaceOf(P, k) \in P /\ Cardinality(UpTo(P, PlaceOf(P, k))) = k
  <2>1. \E n \in P : Cardinality(UpTo(P, n)) = k
    BY EveryNumberHasAPlace
  <2> QED BY <2>1 DEF PlaceOf
<1>2. ASSUME NEW j \in 1..Cardinality(P), NEW k \in 1..Cardinality(P), j < k
      PROVE  PlaceOf(P, j) < PlaceOf(P, k)
  <2> DEFINE m == PlaceOf(P, j)
             n == PlaceOf(P, k)
  <2>1. m \in P /\ n \in P /\ Cardinality(UpTo(P, m)) = j /\ Cardinality(UpTo(P, n)) = k
    BY <1>1
  <2>2. m \in Nat /\ n \in Nat
    BY <2>1, <1>0
  <2> HIDE DEF m, n
  <2>3. ASSUME n <= m PROVE FALSE
    <3>1. Cardinality(UpTo(P, n)) <= Cardinality(UpTo(P, m))
      BY <2>2, <2>3, UpToGrows
    <3> QED BY <3>1, <2>1, <1>2, <1>0
  <2>4. m < n
    BY <2>2, <2>3
  <2> QED BY <2>4 DEF m, n
<1>3. ASSUME NEW n \in P
      PROVE  \E k \in 1..Cardinality(P) : PlaceOf(P, k) = n
  <2> DEFINE k == Cardinality(UpTo(P, n))
             m == PlaceOf(P, k)
  <2>1. k \in 1..Cardinality(P)
    BY EveryPlaceIsNumbered
  <2>2. m \in P /\ Cardinality(UpTo(P, m)) = k
    BY <2>1, <1>1
  <2>3. m \in Nat /\ n \in Nat
    BY <2>2, <1>0
  <2>4. m = n
    <3> HIDE DEF m
    <3>1. CASE m < n
      <4>1. Cardinality(UpTo(P, m)) < Cardinality(UpTo(P, n))
        <5>1. m <= n /\ m # n /\ n \in P
          BY <2>2, <2>3, <3>1
        <5> QED BY <5>1, <2>3, UpToGrows
      <4> QED BY <4>1, <2>2, <2>1, <1>0
    <3>2. CASE n < m
      <4>1. Cardinality(UpTo(P, n)) < Cardinality(UpTo(P, m))
        <5>1. n <= m /\ n # m /\ m \in P
          BY <2>2, <2>3, <3>2
        <5> QED BY <5>1, <2>3, UpToGrows
      <4> QED BY <4>1, <2>2, <2>1, <1>0
    <3> QED BY <3>1, <3>2, <2>3
  <2> QED BY <2>1, <2>4
<1> QED BY <1>1, <1>2, <1>3

(* r has the elements of s at the places P, in their order. *)
LeftOf(S, s, P, r) ==
    /\ r \in Seq(S) /\ Len(r) = Cardinality(P) /\ Len(r) \in Nat /\ Len(r) <= Len(s)
    /\ \A k \in 1..Len(r) : \E n \in P : r[k] = s[n]
    /\ \A n \in P : \E k \in 1..Len(r) : r[k] = s[n]
    /\ \A j, k \in 1..Len(r) : j < k => \E m, n \in P : m < n /\ r[j] = s[m] /\ r[k] = s[n]

(* What AtPlaces leaves of a list is what was at the places. *)
LEMMA Leaves ==
    ASSUME NEW S, NEW s \in Seq(S), NEW P, P \subseteq 1..Len(s)
    PROVE  LeftOf(S, s, P, AtPlaces(s, P))
<1> DEFINE r == AtPlaces(s, P)
           N == Cardinality(P)
           place(k) == PlaceOf(P, k)
<1>0. Len(s) \in Nat
  OBVIOUS
<1>1. N \in Nat /\ N <= Len(s)
  BY <1>0, CountPlaces
<1>2. /\ \A k \in 1..N : place(k) \in P
      /\ \A j, k \in 1..N : j < k => place(j) < place(k)
      /\ \A n \in P : \E k \in 1..N : place(k) = n
  BY <1>0, PlacesInOrder
<1>3. r = [k \in 1..N |-> s[place(k)]]
  BY DEF AtPlaces
<1>4. \A n \in P : s[n] \in S
  OBVIOUS
<1> HIDE DEF r, N, place
<1>5. r \in [1..N -> S]
  BY <1>2, <1>3, <1>4
<1>6. r \in Seq(S) /\ Len(r) = N
  BY <1>1, <1>5
<1>7. \A k \in 1..N : r[k] = s[place(k)]
  BY <1>3
<1>8. \A n \in P : \E k \in 1..Len(r) : r[k] = s[n]
  <2> TAKE n \in P
  <2>1. PICK k \in 1..N : place(k) = n
    BY <1>2
  <2> QED BY <2>1, <1>6, <1>7
<1>9. \A j, k \in 1..Len(r) : j < k => \E m, n \in P : m < n /\ r[j] = s[m] /\ r[k] = s[n]
  BY <1>2, <1>6, <1>7
<1>10. \A k \in 1..Len(r) : \E n \in P : r[k] = s[n]
  BY <1>2, <1>6, <1>7
<1> QED BY <1>1, <1>6, <1>8, <1>9, <1>10 DEF r, N, LeftOf

(* Of the places P, those with fewer than x of P after them: they are x of them,
   or as many as there are, and come after all the others. *)
LEMMA OldestOf ==
    ASSUME NEW L \in Nat, NEW P, P \subseteq 1..L, NEW x \in Int
    PROVE  LET G == {n \in P : Cardinality({m \in P : m > n}) < x}
           IN  /\ G # {} => Cardinality(G) <= x
               /\ P \ G # {} => x <= Cardinality(G)
               /\ \A m \in G, n \in P \ G : n < m
<1> DEFINE N == Cardinality(P)
           rank(n) == Cardinality(UpTo(P, n))
           G == {n \in P : Cardinality({m \in P : m > n}) < x}
           R == {n \in P : rank(n) <= N - x}
<1>1. /\ N \in Nat /\ IsFiniteSet(P) /\ IsFiniteSet(G) /\ Cardinality(G) \in Nat
      /\ \A n \in P : n \in Nat
  <2>1. \A n \in P : n \in Nat
    BY PlacesAreNumbers
  <2>2. G \subseteq P
    OBVIOUS
  <2> QED BY <2>1, <2>2, CountPlaces
<1>2. \A n \in P : rank(n) \in 1..N
  BY EveryPlaceIsNumbered
<1>3. ASSUME NEW n \in P PROVE Cardinality({m \in P : m > n}) = N - rank(n)
  <2>1. {m \in P : m > n} = P \ UpTo(P, n) /\ UpTo(P, n) = P \cap UpTo(P, n)
    <3>1. \A m \in P : m > n <=> ~(m <= n)
      BY <1>1
    <3> QED BY <3>1 DEF UpTo
  <2> QED BY <2>1, <1>1, FS_Difference
<1>4. G = {n \in P : N - rank(n) < x}
  BY <1>3
<1>5. R = P \ G
  <2>1. \A n \in P : rank(n) <= N - x <=> ~(N - rank(n) < x)
    BY <1>1, <1>2
  <2> HIDE DEF rank, N
  <2> QED BY <2>1, <1>4
<1>6. ASSUME NEW m \in G, NEW n \in R PROVE n < m
  <2>1. m \in Nat /\ n \in Nat /\ m \in P /\ n \in P
    BY <1>1
  <2>2. rank(n) < rank(m)
    <3>1. rank(m) \in Nat /\ rank(n) \in Nat /\ N - rank(m) < x /\ rank(n) <= N - x
      BY <2>1, <1>2, <1>4
    <3> QED BY <3>1, <1>1
  <2>3. ASSUME m <= n PROVE FALSE
    <3>1. rank(m) <= rank(n) /\ rank(m) \in Nat /\ rank(n) \in Nat
      BY <2>1, <2>3, UpToGrows
    <3> QED BY <3>1, <2>2
  <2> QED BY <2>1, <2>3
<1>7. Cardinality(G) = N - Cardinality(R)
  <2>1. G = P \ R /\ R = P \cap R
    BY <1>5
  <2> HIDE DEF G, R
  <2> QED BY <2>1, <1>1, FS_Difference
<1>8. ASSUME x <= 0 PROVE G = {}
  <2>1. \A n \in P : ~(N - rank(n) < x)
    BY <1>1, <1>2, <1>8
  <2> HIDE DEF rank, N
  <2> QED BY <2>1, <1>4
<1>9. ASSUME x > N PROVE P \ G = {} /\ Cardinality(G) <= x
  <2>1. \A n \in P : ~(rank(n) <= N - x)
    BY <1>1, <1>2, <1>9
  <2>2. R = {}
    BY <2>1
  <2>3. G = P
    BY <2>2, <1>5
  <2> HIDE DEF G
  <2> QED BY <2>3, <1>1, <1>9
<1>10. ASSUME x > 0, x <= N PROVE Cardinality(G) = x
  <2> DEFINE c == N - x
  <2>1. c \in 0..(N - 1)
    BY <1>1, <1>10
  <2>2. Cardinality(R) = c
    <3>1. CASE c = 0
      <4>1. \A n \in P : ~(rank(n) <= N - x)
        BY <1>1, <1>2, <3>1
      <4>2. R = {}
        BY <4>1
      <4> QED BY <4>2, <3>1, FS_EmptySet
    <3>2. CASE c # 0
      <4> DEFINE p == PlaceOf(P, c)
      <4>1. c \in 1..N
        BY <2>1, <3>2, <1>1
      <4>2. p \in P /\ rank(p) = c
        BY <4>1, PlacesInOrder
      <4>3. p \in Nat
        BY <4>2, <1>1
      <4> HIDE DEF p
      <4>4. ASSUME NEW n \in P PROVE rank(n) <= c <=> n <= p
        <5>1. n \in Nat /\ rank(n) \in Nat /\ c \in Nat
          BY <1>1, <1>2, <2>1
        <5>2. CASE n <= p
          BY <5>1, <5>2, <4>2, <4>3, UpToGrows
        <5>3. CASE p < n
          <6>1. p <= n /\ p # n
            BY <5>1, <5>3, <4>3
          <6>2. rank(p) < rank(n)
            BY <6>1, <5>1, <4>3, UpToGrows
          <6>3. ~(n <= p) /\ ~(rank(n) <= c)
            BY <5>1, <5>3, <6>2, <4>2, <4>3
          <6> QED BY <6>3
        <5> QED BY <5>1, <5>2, <5>3, <4>3
      <4>5. R = UpTo(P, p)
        BY <4>4 DEF UpTo
      <4> QED BY <4>2, <4>5
    <3> QED BY <3>1, <3>2
  <2> HIDE DEF G, R, rank
  <2> QED BY <2>2, <1>7, <1>1
<1>11. (G # {} => Cardinality(G) <= x) /\ (P \ G # {} => x <= Cardinality(G))
  <2> HIDE DEF G, N
  <2>1. x <= 0 \/ x > N \/ (x > 0 /\ x <= N)
    BY <1>1
  <2> QED BY <2>1, <1>1, <1>8, <1>9, <1>10
<1> HIDE DEF R
<1> QED BY <1>5, <1>6, <1>11

-----------------------------------------------------------------------------
(* The window of the track cache.                                          *)

\* No track is in the list twice.
Distinct(s) == \A m, n \in 1..Len(s) : s[m] = s[n] => m = n

(* What is left of a list without duplicates has none. *)
LEMMA WithoutIsTyped ==
    ASSUME NEW S, NEW s \in Seq(S), Distinct(s), NEW P, P \subseteq 1..Len(s)
    PROVE  AtPlaces(s, P) \in Seq(S) /\ Distinct(AtPlaces(s, P))
<1> DEFINE r == AtPlaces(s, P)
<1>1. /\ r \in Seq(S) /\ Len(r) \in Nat
      /\ \A j, k \in 1..Len(r) : j < k => \E m, n \in P : m < n /\ r[j] = s[m] /\ r[k] = s[n]
  <2>1. LeftOf(S, s, P, r)
    BY Leaves
  <2> HIDE DEF r
  <2> QED BY <2>1 DEF LeftOf
<1> HIDE DEF r
<1>2. ASSUME NEW j \in 1..Len(r), NEW k \in 1..Len(r), j < k PROVE r[j] # r[k]
  <2>1. PICK m \in P, n \in P : m < n /\ r[j] = s[m] /\ r[k] = s[n]
    BY <1>1, <1>2
  <2>2. m \in 1..Len(s) /\ n \in 1..Len(s) /\ m # n
    BY <2>1, PlacesAreNumbers
  <2> QED BY <2>1, <2>2 DEF Distinct
<1>3. Distinct(r)
  <2> SUFFICES ASSUME NEW j \in 1..Len(r), NEW k \in 1..Len(r), r[j] = r[k]
               PROVE  j = k
    BY DEF Distinct
  <2>1. j \in Nat /\ k \in Nat
    BY <1>1
  <2> QED BY <2>1, <1>2
<1> QED BY <1>1, <1>3 DEF r

(* A track that moves to the front of the window, or comes there. *)
LEMMA FrontIsTyped ==
    ASSUME NEW S, NEW s \in Seq(S), Distinct(s), NEW t \in S
    PROVE  LET w == <<t>> \o Without(s, t)
           IN  w \in Seq(S) /\ Distinct(w)
<1> DEFINE P == {n \in 1..Len(s) : s[n] # t}
           r == AtPlaces(s, P)
           w == <<t>> \o r
<1>1. P \subseteq 1..Len(s) /\ r = Without(s, t)
  BY DEF Without
<1>2. /\ r \in Seq(S) /\ Len(r) \in Nat
      /\ \A k \in 1..Len(r) : \E n \in P : r[k] = s[n]
  <2>1. LeftOf(S, s, P, r)
    BY <1>1, Leaves
  <2> HIDE DEF r, P
  <2> QED BY <2>1 DEF LeftOf
<1>3. Distinct(r)
  BY <1>1, WithoutIsTyped
<1>4. \A k \in 1..Len(r) : r[k] # t
  BY <1>2
<1> HIDE DEF r, P
<1>5. <<t>> \in Seq(S) /\ Len(<<t>>) = 1 /\ <<t>>[1] = t
  OBVIOUS
<1>6. /\ w \in Seq(S) /\ Len(w) = 1 + Len(r)
      /\ \A i \in 1..1 + Len(r) : w[i] = IF i <= 1 THEN t ELSE r[i - 1]
  <2>1. /\ w \in Seq(S) /\ Len(w) = Len(<<t>>) + Len(r)
        /\ \A i \in 1..Len(<<t>>) + Len(r) :
             w[i] = IF i <= Len(<<t>>) THEN <<t>>[i] ELSE r[i - Len(<<t>>)]
    BY <1>2, <1>5, ConcatProperties
  <2>2. ASSUME NEW i \in 1..1 + Len(r)
        PROVE  w[i] = IF i <= 1 THEN t ELSE r[i - 1]
    <3>1. i = 1 \/ ~(i <= 1)
      BY <1>2
    <3> HIDE DEF w
    <3> QED BY <3>1, <2>1, <1>2
  <2>3. Len(w) = 1 + Len(r)
    BY <2>1, <1>2
  <2> QED BY <2>1, <2>2, <2>3
<1> HIDE DEF w
<1>7. ASSUME NEW m \in 1..Len(w), NEW n \in 1..Len(w), w[m] = w[n], m < n PROVE FALSE
  <2>1. m \in Nat /\ n \in Nat /\ n - 1 \in 1..Len(r) /\ w[n] = r[n - 1]
    BY <1>2, <1>6, <1>7
  <2>2. CASE m = 1
    BY <2>1, <2>2, <1>4, <1>6, <1>7
  <2>3. CASE m # 1
    <3>1. m - 1 \in 1..Len(r) /\ w[m] = r[m - 1]
      BY <2>1, <2>3, <1>2, <1>6, <1>7
    <3>2. m - 1 = n - 1
      BY <3>1, <2>1, <1>3, <1>7 DEF Distinct
    <3> QED BY <3>2, <2>1, <1>7
  <2> QED BY <2>2, <2>3
<1>8. Distinct(w)
  <2> SUFFICES ASSUME NEW m \in 1..Len(w), NEW n \in 1..Len(w), w[m] = w[n]
               PROVE  m = n
    BY DEF Distinct
  <2>1. m \in Nat /\ n \in Nat
    BY <1>2, <1>6
  <2> QED BY <2>1, <1>7
<1> QED BY <1>1, <1>6, <1>8 DEF w

LEMMA MoreRows ==
    ASSUME NEW S, NEW T, S \subseteq T, NEW s \in Seq(S)
    PROVE  s \in Seq(T)
OBVIOUS

\* The places of a call whose track has a row.
HasRow == {"stat", "enqueue", "snapshot", "touchRow", "touch"}

(* The type, with what it rests on: the window and a call speak of tracks with rows. *)
TypeInv ==
    /\ TypeOK
    /\ \A a \in Adds : pc[a] \in HasRow => track[a] \in rows

LEMMA InitTyped == Init => TypeInv
<1> SUFFICES ASSUME Init PROVE TypeInv
  OBVIOUS
<1>1. PICK n \in 0..CacheWindow : window \in [1..n -> rows]
  BY DEF Init
<1>2. n \in Nat /\ window \in Seq(rows) /\ Len(window) = n
  BY <1>1, CacheAssumption
<1>3. window \in Injection(1..n, Elements(window))
  <2>1. window \in Surjection(1..n, Elements(window))
    BY <1>1, <1>2 DEF Elements, Surjection
  <2>2. Cardinality(1..n) = n /\ IsFiniteSet(1..n)
    BY <1>2, FS_Interval
  <2>3. Cardinality(Elements(window)) = n
    BY <1>2 DEF Init, Hydrated
  <2> QED BY <2>1, <2>2, <2>3, FS_SurjSameCardinalityImpliesInj
<1>4. \A i, j \in 1..Len(window) : window[i] = window[j] => i = j
  BY <1>2, <1>3 DEF Injection, IsInjective
<1> QED BY <1>2, <1>4 DEF Init, TypeInv, TypeOK, Places, HasRow, Holding, Evicting

\* The steps that leave the window alone.
LEMMA QuietKeepsType ==
    ASSUME TypeInv, NEW a \in Adds, NEW l \in Places, Goto(a, l),
           UNCHANGED <<track, window>>,
           files' \subseteq Tracks, rows \subseteq rows', rows' \subseteq Tracks,
           queued' \subseteq Adds, inUse' \in [Adds -> SUBSET Tracks], raced' \subseteq Adds,
           l \in HasRow => pc[a] \in HasRow \/ track[a] \in rows'
    PROVE  TypeInv'
<1>1. pc' = [pc EXCEPT ![a] = l] /\ pc' \in [Adds -> Places]
  BY DEF Goto, TypeInv, TypeOK
<1>2. window' \in Seq(rows')
  <2>1. window \in Seq(rows)
    BY DEF TypeInv, TypeOK
  <2>2. window \in Seq(rows')
    BY <2>1, MoreRows
  <2> QED BY <2>2
<1>3. TypeOK'
  BY <1>1, <1>2 DEF TypeInv, TypeOK
<1>4. \A b \in Adds : pc'[b] \in HasRow => track'[b] \in rows'
  <2> TAKE b \in Adds
  <2>1. CASE b = a
    BY <1>1, <2>1 DEF TypeInv, TypeOK
  <2>2. CASE b # a
    BY <1>1, <2>2 DEF TypeInv, TypeOK
  <2> QED BY <2>1, <2>2
<1> QED BY <1>3, <1>4 DEF TypeInv

LEMMA CacheHitKeepsType ==
    ASSUME TypeInv, NEW a \in Adds, CacheHit(a)
    PROVE  TypeInv'
<1>1. track[a] \in rows /\ window \in Seq(rows) /\ Distinct(window)
  <2>1. window \in Seq(rows) /\ Distinct(window)
    BY DEF TypeInv, TypeOK, Distinct
  <2>2. PICK n \in 1..Len(window) : track[a] = window[n]
    BY DEF CacheHit, Elements
  <2> QED BY <2>1, <2>2
<1>2. window' \in Seq(rows) /\ Distinct(window')
  BY <1>1, FrontIsTyped DEF CacheHit
<1>3. pc' = [pc EXCEPT ![a] = "stat"] /\ UNCHANGED <<track, files, rows, queued, inUse, raced>>
  BY DEF CacheHit, Goto
<1>4. TypeOK'
  BY <1>2, <1>3 DEF TypeInv, TypeOK, Distinct, Places
<1>5. \A b \in Adds : pc'[b] \in HasRow => track'[b] \in rows'
  BY <1>1, <1>3 DEF TypeInv, TypeOK
<1> QED BY <1>4, <1>5 DEF TypeInv

\* The window of a Touch before and after its evictions.
KeptPlaces(w, used) == {n \in 1..Len(w) : w[n] \notin Victims(w, used)}

(* Touch moves its track to the front, and keeps what is not a victim. *)
LEMMA TouchIs ==
    ASSUME TypeInv, NEW a \in Adds, Touch(a)
    PROVE  /\ Touched(track[a]) \in Seq(rows) /\ Distinct(Touched(track[a]))
           /\ window' = AtPlaces(Touched(track[a]), KeptPlaces(Touched(track[a]), inUse[a]))
           /\ window' \in Seq(rows) /\ Distinct(window')
<1> DEFINE w == Touched(track[a])
<1>1. window \in Seq(rows) /\ Distinct(window) /\ track[a] \in rows
  BY DEF TypeInv, TypeOK, Distinct, Touch, HasRow
<1>2. w \in Seq(rows) /\ Distinct(w)
  BY <1>1, FrontIsTyped DEF Touched
<1>3. window' = AtPlaces(w, KeptPlaces(w, inUse[a]))
  BY DEF Touch, KeptPlaces
<1> HIDE DEF w
<1>4. KeptPlaces(w, inUse[a]) \subseteq 1..Len(w)
  BY DEF KeptPlaces
<1>5. window' \in Seq(rows) /\ Distinct(window')
  BY <1>2, <1>3, <1>4, WithoutIsTyped
<1> QED BY <1>2, <1>3, <1>5 DEF w

LEMMA TouchKeepsType ==
    ASSUME TypeInv, NEW a \in Adds, Touch(a)
    PROVE  TypeInv'
<1>1. window' \in Seq(rows) /\ Distinct(window')
  BY TouchIs
<1>2. /\ pc' = [pc EXCEPT ![a] = "done"] /\ UNCHANGED <<track, rows, queued, inUse>>
      /\ files' \subseteq files /\ raced' \subseteq Adds
  <2>1. pc' = [pc EXCEPT ![a] = "done"] /\ UNCHANGED <<track, rows, queued, inUse>>
    BY DEF Touch, Goto
  <2>2. files' \subseteq files
    BY DEF Touch
  <2>3. raced' \subseteq Adds
    BY DEF Touch, TypeInv, TypeOK
  <2> QED BY <2>1, <2>2, <2>3
<1>3. TypeOK'
  BY <1>1, <1>2 DEF TypeInv, TypeOK, Distinct, Places
<1>4. \A b \in Adds : pc'[b] \in HasRow => track'[b] \in rows'
  BY <1>2 DEF TypeInv, TypeOK, HasRow
<1> QED BY <1>3, <1>4 DEF TypeInv

LEMMA NextTyped == TypeInv /\ [Next]_vars => TypeInv'
<1> SUFFICES ASSUME TypeInv, [Next]_vars PROVE TypeInv'
  OBVIOUS
<1>0. /\ files \subseteq Tracks /\ rows \subseteq Tracks /\ queued \subseteq Adds
      /\ inUse \in [Adds -> SUBSET Tracks] /\ raced \subseteq Adds
      /\ track \in [Adds -> Tracks]
  BY DEF TypeInv, TypeOK
<1>1. ASSUME NEW a \in Adds, AddTrack(a) PROVE TypeInv'
  <2>1. CASE CacheHit(a)
    BY <2>1, CacheHitKeepsType
  <2>2. CASE CacheMiss(a)
    BY <2>2, <1>0, QuietKeepsType DEF CacheMiss, Places, HasRow
  <2>3. CASE Stat(a)
    <3>1. PICK l \in {"enqueue", "download"} : Goto(a, l)
      BY <2>3 DEF Stat
    <3>2. pc[a] \in HasRow
      BY <2>3 DEF Stat, HasRow
    <3> QED BY <2>3, <3>1, <3>2, <1>0, QuietKeepsType DEF Stat, Places, Holding
  <2>4. CASE Download(a)
    BY <2>4, <1>0, QuietKeepsType DEF Download, Places, HasRow
  <2>5. CASE ReadTags(a)
    <3>1. PICK l \in {"row", "failed"} : Goto(a, l)
      BY <2>5 DEF ReadTags
    <3> QED BY <2>5, <3>1, <1>0, QuietKeepsType DEF ReadTags, Places, Holding, HasRow
  <2>6. CASE FindRow(a)
    BY <2>6, <1>0, QuietKeepsType DEF FindRow, Places, Holding, HasRow
  <2>7. CASE InsertRow(a)
    BY <2>7, <1>0, QuietKeepsType DEF InsertRow, Places, Holding, HasRow
  <2>8. CASE Panic(a)
    BY <2>8, <1>0, QuietKeepsType DEF Panic, Places, HasRow
  <2>9. CASE Fail(a)
    BY <2>9, <1>0, QuietKeepsType DEF Fail, Places, HasRow
  <2>10. CASE Enqueue(a)
    <3>1. raced' \subseteq Adds /\ queued' \subseteq Adds
      BY <2>10, <1>0 DEF Enqueue
    <3> QED BY <2>10, <3>1, <1>0, QuietKeepsType DEF Enqueue, Places, HasRow
  <2>11. CASE Snapshot(a)
    <3>1. InUseTrackIDs(a) \in SUBSET Tracks
      BY <1>0 DEF InUseTrackIDs
    <3>2. inUse' \in [Adds -> SUBSET Tracks]
      BY <2>11, <3>1, <1>0 DEF Snapshot
    <3> QED BY <2>11, <3>2, <1>0, QuietKeepsType DEF Snapshot, Places, Evicting, HasRow
  <2>12. CASE TouchRow(a)
    BY <2>12, <1>0, QuietKeepsType DEF TouchRow, Places, Evicting, HasRow
  <2>13. CASE Touch(a)
    BY <2>13, TouchKeepsType
  <2> QED BY <1>1, <2>1, <2>2, <2>3, <2>4, <2>5, <2>6, <2>7, <2>8, <2>9, <2>10, <2>11,
             <2>12, <2>13 DEF AddTrack
<1>2. ASSUME NEW a \in Adds, Leave(a) PROVE TypeInv'
  BY <1>2 DEF Leave, TypeInv, TypeOK
<1>3. CASE UNCHANGED vars
  BY <1>3 DEF vars, TypeInv, TypeOK
<1> QED BY <1>1, <1>2, <1>3 DEF Next

(* For any calls, tracks and window, and from any database and directory: the
   window has no track twice and none without a row, whatever moves to its
   front or is evicted from it. *)
THEOREM CacheTypeCorrect == Spec => []TypeOK
<1>1. TypeInv => TypeOK
  BY DEF TypeInv
<1> QED BY <1>1, InitTyped, NextTyped, PTL DEF Spec

-----------------------------------------------------------------------------
(* What Touch evicts.                                                      *)

(* The victims are the oldest of the tracks not in use, and as many as the window
   is too long by, unless there are not so many. *)
LEMMA EvictionIsJustEnough ==
    ASSUME NEW S, NEW w \in Seq(S), Distinct(w), NEW used, NEW w2,
           w2 = AtPlaces(w, KeptPlaces(w, used))
    PROVE  JustEnough(w, w2, used)
<1> DEFINE L == Len(w)
           U == {n \in 1..L : w[n] \notin used}
           x == L - CacheWindow
           G == {n \in U : Cardinality({m \in U : m > n}) < x}
           K == KeptPlaces(w, used)
           kept == Elements(w2)
           dropped == Elements(w) \ kept
<1>1. L \in Nat /\ U \subseteq 1..L /\ x \in Int /\ CacheWindow \in Nat
  BY CacheAssumption
<1>2. /\ G # {} => Cardinality(G) <= x
      /\ U \ G # {} => x <= Cardinality(G)
      /\ \A m \in G, n \in U \ G : n < m
  <2> HIDE DEF U, x, L
  <2> QED BY <1>1, OldestOf
<1>3. Victims(w, used) = {w[n] : n \in G}
  BY DEF Victims
<1>4. G \subseteq U
  OBVIOUS
<1> HIDE DEF G
<1>5. K = (1..L) \ G
  <2>1. ASSUME NEW n \in 1..L PROVE w[n] \in Victims(w, used) <=> n \in G
    <3>1. ASSUME w[n] \in Victims(w, used) PROVE n \in G
      <4>1. PICK g \in G : w[n] = w[g]
        BY <3>1, <1>3
      <4>2. g \in 1..L
        BY <1>1, <1>4
      <4>3. n = g
        BY <4>1, <4>2 DEF Distinct
      <4> QED BY <4>3
    <3> QED BY <3>1, <1>3
  <2> QED BY <2>1 DEF KeptPlaces
<1>6. Cardinality(K) = L - Cardinality(G) /\ Cardinality(G) \in Nat
  <2> HIDE DEF L
  <2>1. IsFiniteSet(1..L) /\ Cardinality(1..L) = L
    BY <1>1, FS_Interval
  <2>2. (1..L) \cap G = G
    BY <1>1, <1>4
  <2>3. Cardinality(G) \in Nat
    <3> HIDE DEF U
    <3> QED BY <1>1, <1>4, CountPlaces
  <2>4. Cardinality((1..L) \ G) = Cardinality(1..L) - Cardinality((1..L) \cap G)
    BY <2>1, FS_Difference
  <2> HIDE DEF K, U
  <2> QED BY <2>1, <2>2, <2>3, <2>4, <1>5
<1>7. LeftOf(S, w, K, w2)
  <2>1. K \subseteq 1..Len(w)
    BY DEF KeptPlaces
  <2> QED BY <2>1, Leaves
<1> HIDE DEF K
<1>8. Len(w2) = L - Cardinality(G)
  BY <1>6, <1>7 DEF LeftOf
<1>9. \A n \in 1..L : w[n] \in kept <=> n \in K
  <2>1. ASSUME NEW n \in 1..L, w[n] \in kept PROVE n \in K
    <3>1. PICK k \in 1..Len(w2) : w2[k] = w[n]
      BY <2>1 DEF Elements
    <3>2. PICK m \in K : w2[k] = w[m]
      BY <3>1, <1>7 DEF LeftOf
    <3>3. m \in 1..L
      BY <1>5
    <3>4. m = n
      BY <3>1, <3>2, <3>3 DEF Distinct
    <3> QED BY <3>4
  <2>2. ASSUME NEW n \in K PROVE w[n] \in kept
    BY <1>7 DEF LeftOf, Elements
  <2> QED BY <2>1, <2>2
<1>10. kept \subseteq Elements(w)
  <2>1. ASSUME NEW t \in kept PROVE t \in Elements(w)
    <3>1. PICK k \in 1..Len(w2) : w2[k] = t
      BY DEF Elements
    <3>2. PICK m \in K : w2[k] = w[m]
      BY <3>1, <1>7 DEF LeftOf
    <3>3. m \in 1..L
      BY <1>5
    <3> QED BY <3>1, <3>2, <3>3 DEF Elements
  <2> QED BY <2>1
<1> HIDE DEF kept
<1>11. \A t \in dropped : \E n \in G : t = w[n]
  <2> TAKE t \in dropped
  <2>1. PICK n \in 1..L : t = w[n]
    BY DEF Elements
  <2>2. n \in G
    BY <2>1, <1>5, <1>9
  <2> QED BY <2>1, <2>2
<1>12. \A t \in kept \ used : \E n \in U \ G : t = w[n]
  <2> TAKE t \in kept \ used
  <2>1. PICK n \in 1..L : t = w[n]
    BY <1>10 DEF Elements
  <2>2. n \in K /\ n \in U
    BY <2>1, <1>9
  <2> QED BY <2>1, <2>2, <1>5
<1> HIDE DEF dropped
<1>13. dropped \cap used = {}
  BY <1>11, <1>4
<1>14. dropped # {} => Len(w2) >= CacheWindow
  <2> SUFFICES ASSUME dropped # {} PROVE Len(w2) >= CacheWindow
    OBVIOUS
  <2>1. G # {}
    BY <1>11
  <2>2. Cardinality(G) <= L - CacheWindow
    BY <2>1, <1>2
  <2> QED BY <2>2, <1>1, <1>6, <1>8
<1>15. Len(w2) > CacheWindow => kept \subseteq used
  <2> SUFFICES ASSUME Len(w2) > CacheWindow, kept \ used # {} PROVE FALSE
    OBVIOUS
  <2>1. U \ G # {}
    BY <1>12
  <2>2. L - CacheWindow <= Cardinality(G)
    BY <2>1, <1>2
  <2> QED BY <2>2, <1>1, <1>6, <1>8
<1>16. ASSUME NEW m \in 1..L, NEW n \in 1..L, w[m] \in dropped, w[n] \in kept \ used
       PROVE  n < m
  <2>1. PICK g \in G : w[m] = w[g]
    BY <1>11, <1>16
  <2>2. PICK h \in U \ G : w[n] = w[h]
    BY <1>12, <1>16
  <2>3. m = g /\ n = h
    <3>1. g \in 1..L /\ h \in 1..L
      BY <1>1, <1>4
    <3> QED BY <3>1, <2>1, <2>2 DEF Distinct
  <2> QED BY <2>3, <1>2
<1> QED BY <1>13, <1>14, <1>15, <1>16 DEF kept, dropped, JustEnough

\* A call that goes from touch to done has touched the cache.
LEMMA OnlyTouchLeavesTouch ==
    ASSUME TypeInv, [Next]_vars, NEW a \in Adds, pc[a] = "touch", pc'[a] = "done"
    PROVE  Touch(a)
<1>1. pc \in [Adds -> Places]
  BY DEF TypeInv, TypeOK
<1>2. PICK b \in Adds : AddTrack(b)
  <2>1. ~UNCHANGED vars
    BY DEF vars
  <2>2. ASSUME NEW b \in Adds, Leave(b) PROVE FALSE
    BY <2>2 DEF Leave
  <2> QED BY <2>1, <2>2 DEF Next
<1>3. \E l : Goto(b, l)
  <2>1. CASE CacheHit(b) \/ CacheMiss(b) \/ Stat(b) \/ Download(b) \/ ReadTags(b)
    BY <2>1, Zenon DEF CacheHit, CacheMiss, Stat, Download, ReadTags
  <2>2. CASE FindRow(b) \/ InsertRow(b) \/ Panic(b) \/ Fail(b)
    BY <2>2, Zenon DEF FindRow, InsertRow, Panic, Fail
  <2>3. CASE Enqueue(b) \/ Snapshot(b) \/ TouchRow(b) \/ Touch(b)
    BY <2>3, Zenon DEF Enqueue, Snapshot, TouchRow, Touch
  <2> QED BY <1>2, <2>1, <2>2, <2>3 DEF AddTrack
<1>4. b = a
  BY <1>1, <1>3 DEF Goto
<1> QED BY <1>2, <1>4 DEF AddTrack, CacheHit, CacheMiss, Stat, Download, ReadTags, FindRow,
                          InsertRow, Panic, Fail, Enqueue, Snapshot, TouchRow

(* For any calls, tracks and size of the window, from any window a restart
   leaves and however the calls interleave: Touch spares the tracks of its
   snapshot, evicts the oldest others, no more than it must, and leaves too many
   only when all of them are in use. *)
THEOREM EvictsJustEnough == Spec => TouchEvictsJustEnough
<1>1. TypeInv /\ [Next]_vars =>
        [\A a \in Adds : pc[a] = "touch" /\ pc'[a] = "done" =>
           JustEnough(Touched(track[a]), window', inUse[a])]_vars
  <2> SUFFICES ASSUME TypeInv, [Next]_vars, NEW a \in Adds, pc[a] = "touch", pc'[a] = "done"
               PROVE  JustEnough(Touched(track[a]), window', inUse[a])
    OBVIOUS
  <2> DEFINE w == Touched(track[a])
  <2>1. Touch(a)
    BY OnlyTouchLeavesTouch
  <2>2. w \in Seq(rows) /\ Distinct(w) /\ window' = AtPlaces(w, KeptPlaces(w, inUse[a]))
    BY <2>1, TouchIs
  <2> HIDE DEF w
  <2> QED BY <2>2, EvictionIsJustEnough DEF w
<1> QED BY <1>1, InitTyped, NextTyped, PTL DEF Spec, TouchEvictsJustEnough

-----------------------------------------------------------------------------
(* The files of the queued tracks.                                         *)

\* The part of the type that the proofs need.
Typed ==
    /\ pc \in [Adds -> Places]
    /\ inUse \in [Adds -> SUBSET Tracks]
    /\ track \in [Adds -> Tracks]

(* A call that is about to queue its track has seen the file. *)
HeldHasItsFile ==
    \A a \in Adds : pc[a] \in Holding /\ track[a] \notin files => a \in raced

(* A call that is about to evict has every queued track in its snapshot. *)
SnapshotsCoverTheQueues ==
    \A a \in queued, b \in Adds :
        pc[b] \in Evicting /\ track[a] \notin inUse[b] => a \in raced

(* What an eviction may hit: it spares its snapshot, and what is neither in a
   snapshot nor in the window any more has been noted in raced. *)
FilesInv ==
    /\ Typed
    /\ queued \subseteq Adds
    /\ FileLossNeedsARace
    /\ HeldHasItsFile
    /\ SnapshotsCoverTheQueues

\* An eviction spares the tracks of its snapshot.
LEMMA VictimsAreUnused ==
    ASSUME NEW w, NEW used, NEW t \in Victims(w, used)
    PROVE  t \notin used
BY DEF Victims

LEMMA InitFiles == Init => FilesInv
BY DEF Init, FilesInv, Typed, Places, FileLossNeedsARace, HeldHasItsFile, SnapshotsCoverTheQueues,
       Holding, Evicting

(* The steps that leave the queues, the snapshots and the files as they are,
   or add files, and neither begin to hold nor to evict. *)
LEMMA QuietKeepsFiles ==
    ASSUME FilesInv, NEW a \in Adds, NEW l \in Places, Goto(a, l),
           files \subseteq files', UNCHANGED <<track, queued, inUse, raced>>,
           l \in Holding => pc[a] \in Holding \/ track[a] \in files,
           l \in Evicting => pc[a] \in Evicting
    PROVE  FilesInv'
<1>1. pc' = [pc EXCEPT ![a] = l] /\ Typed'
  BY DEF Goto, FilesInv, Typed
<1>2. FileLossNeedsARace'
  BY DEF FilesInv, FileLossNeedsARace
<1>3. HeldHasItsFile'
  BY <1>1 DEF FilesInv, Typed, HeldHasItsFile
<1>4. SnapshotsCoverTheQueues'
  BY <1>1 DEF FilesInv, Typed, SnapshotsCoverTheQueues
<1> QED BY <1>1, <1>2, <1>3, <1>4 DEF FilesInv

LEMMA EnqueueKeepsFiles ==
    ASSUME FilesInv, NEW a \in Adds, Enqueue(a)
    PROVE  FilesInv'
<1>1. pc' = [pc EXCEPT ![a] = "snapshot"] /\ Typed' /\ (queued \subseteq Adds)'
  BY DEF Enqueue, Goto, FilesInv, Typed, Places
<1>2. raced \subseteq raced' /\ UNCHANGED <<track, files, inUse>>
  BY DEF Enqueue
<1>3. FileLossNeedsARace'
  <2>1. pc[a] \in Holding
    BY DEF Enqueue, Holding
  <2> QED BY <1>2, <2>1 DEF Enqueue, FilesInv, FileLossNeedsARace, HeldHasItsFile
<1>4. HeldHasItsFile'
  BY <1>1, <1>2 DEF FilesInv, Typed, HeldHasItsFile, Holding
<1>5. SnapshotsCoverTheQueues'
  <2> SUFFICES ASSUME NEW c \in queued', NEW b \in Adds,
                      pc'[b] \in Evicting, track[c] \notin inUse[b]
               PROVE  c \in raced'
    BY <1>2 DEF SnapshotsCoverTheQueues
  <2>1. pc[b] \in Evicting
    BY <1>1 DEF FilesInv, Typed, Evicting
  <2>2. CASE c = a
    BY <2>1, <2>2 DEF Enqueue
  <2>3. CASE c \in queued
    BY <2>1, <2>3, <1>2 DEF FilesInv, SnapshotsCoverTheQueues
  <2> QED BY <2>2, <2>3 DEF Enqueue
<1> QED BY <1>1, <1>3, <1>4, <1>5 DEF FilesInv

LEMMA SnapshotKeepsFiles ==
    ASSUME FilesInv, NEW a \in Adds, Snapshot(a)
    PROVE  FilesInv'
<1>1. pc' = [pc EXCEPT ![a] = "touchRow"] /\ UNCHANGED <<track, files, queued, raced>>
  BY DEF Snapshot, Goto
<1>2. inUse' = [inUse EXCEPT ![a] = {track[b] : b \in queued}]
  BY DEF Snapshot, InUseTrackIDs
<1>3. Typed'
  BY <1>1, <1>2 DEF FilesInv, Typed, Places, Evicting
<1>4. FileLossNeedsARace' /\ (queued \subseteq Adds)'
  BY <1>1 DEF FilesInv, FileLossNeedsARace
<1>5. HeldHasItsFile'
  BY <1>1 DEF FilesInv, Typed, HeldHasItsFile, Holding
<1>6. SnapshotsCoverTheQueues'
  BY <1>1, <1>2 DEF FilesInv, Typed, SnapshotsCoverTheQueues
<1> QED BY <1>3, <1>4, <1>5, <1>6 DEF FilesInv

LEMMA TouchKeepsFiles ==
    ASSUME FilesInv, NEW a \in Adds, Touch(a)
    PROVE  FilesInv'
<1> DEFINE victims == Victims(Touched(track[a]), inUse[a])
<1>1. pc' = [pc EXCEPT ![a] = "done"] /\ UNCHANGED <<track, queued, inUse>>
  BY DEF Touch, Goto
<1>2. files \ victims \subseteq files'
  BY DEF Touch
<1>3. raced' = raced \cup {b \in Adds : pc[b] \in Holding /\ track[b] \in victims}
  BY DEF Touch
<1>4. Typed'
  BY <1>1 DEF FilesInv, Typed, Places
<1>5. \A t \in victims : t \notin inUse[a]
  BY VictimsAreUnused
<1> HIDE DEF victims
<1>6. FileLossNeedsARace' /\ (queued \subseteq Adds)'
  <2>1. pc[a] \in Evicting
    BY DEF Touch, Evicting
  <2> QED BY <1>1, <1>2, <1>3, <1>5, <2>1
          DEF FilesInv, FileLossNeedsARace, SnapshotsCoverTheQueues
<1>7. HeldHasItsFile'
  BY <1>1, <1>2, <1>3 DEF FilesInv, Typed, HeldHasItsFile, Holding
<1>8. SnapshotsCoverTheQueues'
  BY <1>1, <1>3 DEF FilesInv, Typed, SnapshotsCoverTheQueues, Evicting
<1> QED BY <1>4, <1>6, <1>7, <1>8 DEF FilesInv

LEMMA NextFiles == FilesInv /\ [Next]_vars => FilesInv'
<1> SUFFICES ASSUME FilesInv, [Next]_vars PROVE FilesInv'
  OBVIOUS
<1>1. ASSUME NEW a \in Adds, AddTrack(a) PROVE FilesInv'
  <2>1. CASE CacheHit(a)
    BY <2>1, QuietKeepsFiles DEF CacheHit, Places, Holding, Evicting
  <2>2. CASE CacheMiss(a)
    BY <2>2, QuietKeepsFiles DEF CacheMiss, Places, Holding, Evicting
  <2>3. CASE Stat(a)
    <3>1. CASE track[a] \in files
      BY <2>3, <3>1, QuietKeepsFiles DEF Stat, Places, Holding, Evicting
    <3>2. CASE track[a] \notin files
      BY <2>3, <3>2, QuietKeepsFiles DEF Stat, Places, Holding, Evicting
    <3> QED BY <3>1, <3>2
  <2>4. CASE Download(a)
    BY <2>4, QuietKeepsFiles DEF Download, Places, Holding, Evicting
  <2>5. CASE ReadTags(a)
    <3>1. CASE track[a] \in files
      BY <2>5, <3>1, QuietKeepsFiles DEF ReadTags, Places, Holding, Evicting
    <3>2. CASE track[a] \notin files
      BY <2>5, <3>2, QuietKeepsFiles DEF ReadTags, Places, Holding, Evicting
    <3> QED BY <3>1, <3>2
  <2>6. CASE FindRow(a)
    BY <2>6, QuietKeepsFiles DEF FindRow, Places, Holding, Evicting
  <2>7. CASE InsertRow(a)
    BY <2>7, QuietKeepsFiles DEF InsertRow, Places, Holding, Evicting
  <2>8. CASE Panic(a)
    BY <2>8, QuietKeepsFiles DEF Panic, Places, Holding, Evicting
  <2>9. CASE Fail(a)
    BY <2>9, QuietKeepsFiles DEF Fail, Places, Holding, Evicting
  <2>10. CASE Enqueue(a)
    BY <2>10, EnqueueKeepsFiles
  <2>11. CASE Snapshot(a)
    BY <2>11, SnapshotKeepsFiles
  <2>12. CASE TouchRow(a)
    BY <2>12, QuietKeepsFiles DEF TouchRow, Places, Holding, Evicting
  <2>13. CASE Touch(a)
    BY <2>13, TouchKeepsFiles
  <2> QED BY <1>1, <2>1, <2>2, <2>3, <2>4, <2>5, <2>6, <2>7, <2>8, <2>9, <2>10, <2>11,
             <2>12, <2>13 DEF AddTrack
<1>2. ASSUME NEW a \in Adds, Leave(a) PROVE FilesInv'
  BY <1>2 DEF Leave, FilesInv, Typed, FileLossNeedsARace, HeldHasItsFile,
              SnapshotsCoverTheQueues
<1>3. CASE UNCHANGED vars
  BY <1>3 DEF vars, FilesInv, Typed, FileLossNeedsARace, HeldHasItsFile,
              SnapshotsCoverTheQueues
<1> QED BY <1>1, <1>2, <1>3 DEF Next

(* For any calls, tracks and window, and from any database and directory that
   a restart may find, a queued track is without its file only by one of the
   two races that raced notes. *)
THEOREM FilesAreLostByRaces == Spec => []FileLossNeedsARace
<1>1. FilesInv => FileLossNeedsARace
  BY DEF FilesInv
<1> QED BY <1>1, InitFiles, NextFiles, PTL DEF Spec

-----------------------------------------------------------------------------
(* The requests of the search route.                                       *)

(* A request of the panel that the route has, or whose answer is on its way. *)
OpenFor(req, key) ==
    \/ \E s \in {"sent", "fetching"} : req = [stage |-> s, key |-> key, awaited |-> TRUE]
    \/ \E n \in Statuses : req = [stage |-> "answered", key |-> key, status |-> n]

\* What a request may be.
Held == Unserved \cup Served \cup {Closed}

\* What the route makes of a request keeps what the panel waits for.
Carried(req, req2) ==
    /\ req2 \in Held
    /\ \A k \in Keys : OpenFor(req, k) => OpenFor(req2, k)

\* What the panel waits for, if it waits for req, is key.
IsFor(req, key, awaited) ==
    \A k \in Keys : OpenFor(req, k) => key = k /\ awaited = TRUE

\* A request that the route has is of one key.
LEMMA UnservedIs ==
    ASSUME NEW req \in Held, req.stage \in {"sent", "fetching"}
    PROVE  /\ req.key \in Keys /\ req.awaited \in BOOLEAN
           /\ IsFor(req, req.key, req.awaited)
<1>1. req \in Unserved
  BY DEF Held, Served, Closed
<1>2. req.key \in Keys /\ req.awaited \in BOOLEAN
  BY <1>1 DEF Unserved
<1>3. ASSUME NEW k \in Keys, OpenFor(req, k) PROVE req.key = k /\ req.awaited = TRUE
  BY <1>3 DEF OpenFor
<1> QED BY <1>2, <1>3 DEF IsFor

\* The panel does not wait for a request that is closed.
LEMMA ClosedIsNotOpen ==
    ASSUME NEW k
    PROVE  ~OpenFor(Closed, k)
<1>1. \A s \in {"sent", "fetching"} : [stage |-> s, key |-> k, awaited |-> TRUE].stage = s
  OBVIOUS
<1>2. \A n : [stage |-> "answered", key |-> k, status |-> n].stage = "answered"
  OBVIOUS
<1>3. Closed.stage = "closed"
  BY DEF Closed
<1> QED BY <1>1, <1>2, <1>3 DEF OpenFor

\* Any step of the route on one request.
LEMMA RespondCarries ==
    ASSUME NEW req \in Held, NEW key \in Keys, NEW awaited \in BOOLEAN, NEW status \in Statuses,
           IsFor(req, key, awaited)
    PROVE  Carried(req, IF awaited
                        THEN [stage |-> "answered", key |-> key, status |-> status]
                        ELSE Closed)
<1> DEFINE answer == [stage |-> "answered", key |-> key, status |-> status]
<1>1. CASE awaited
  <2>1. answer \in Held /\ OpenFor(answer, key)
    BY DEF Held, Served, OpenFor
  <2> HIDE DEF answer
  <2>2. Carried(req, answer)
    BY <2>1 DEF Carried, IsFor
  <2> QED BY <2>2, <1>1 DEF answer
<1>2. CASE ~awaited
  <2>1. Closed \in Held /\ \A k \in Keys : ~OpenFor(req, k)
    BY <1>2 DEF Held, IsFor
  <2> QED BY <2>1, <1>2 DEF Carried
<1> QED BY <1>1, <1>2

\* A miss that goes on to ask YouTube.
LEMMA FetchCarries ==
    ASSUME NEW req \in Held, NEW key \in Keys, NEW awaited \in BOOLEAN,
           IsFor(req, key, awaited)
    PROVE  Carried(req, [stage |-> "fetching", key |-> key, awaited |-> awaited])
<1> DEFINE fetching == [stage |-> "fetching", key |-> key, awaited |-> awaited]
<1>1. fetching \in Held
  BY DEF Held, Unserved
<1>2. ASSUME NEW k \in Keys, OpenFor(req, k) PROVE OpenFor(fetching, k)
  <2>1. fetching = [stage |-> "fetching", key |-> k, awaited |-> TRUE]
    BY <1>2 DEF IsFor
  <2> HIDE DEF fetching
  <2> QED BY <2>1 DEF OpenFor
<1> HIDE DEF fetching
<1>3. Carried(req, fetching)
  BY <1>1, <1>2 DEF Carried
<1> QED BY <1>3 DEF fetching

(* What a step of the route does to the cache: nothing, or the entry of a key
   that is not fresh leaves, or an answer is stored. *)
CacheStep ==
    /\ UNCHANGED apiKey
    /\ \/ UNCHANGED <<cache, history, refreshed>> /\ now' \in {now, now + 1} /\ now' <= MaxTime
       \/ \E key \in Keys :
            /\ ~Fresh(key) /\ cache' = Drop(key) /\ refreshed' = refreshed \ {key}
            /\ UNCHANGED <<now, history>>
       \/ \E key \in Keys :
            setCache(key, [key |-> key, expiresAt |-> now + CACHE_TTL]) /\ UNCHANGED now

\* A step of the route on one request: what is fresh is not asked for.
RequestGoes(r, new) ==
    /\ request' = [request EXCEPT ![r] = new] /\ Carried(request[r], new)
    /\ new.stage = "fetching" => ~Fresh(new.key)

RequestStep == \E r \in Requests : \E new \in Held : RequestGoes(r, new)

LEMMA ResponseStep ==
    ASSUME NEW r \in Requests, request[r] \in Held,
           NEW key \in Keys, NEW awaited \in BOOLEAN, NEW status \in Statuses,
           IsFor(request[r], key, awaited),
           Respond(r, key, awaited, status)
    PROVE  RequestStep
<1> DEFINE new == IF awaited
                  THEN [stage |-> "answered", key |-> key, status |-> status]
                  ELSE Closed
<1>1. Carried(request[r], new)
  BY RespondCarries
<1>2. request' = [request EXCEPT ![r] = new]
  BY DEF Respond
<1>3. new.stage # "fetching"
  <2>1. [stage |-> "answered", key |-> key, status |-> status].stage = "answered"
    OBVIOUS
  <2>2. Closed.stage = "closed"
    BY DEF Closed
  <2> QED BY <2>1, <2>2
<1> HIDE DEF new
<1> QED BY <1>1, <1>2, <1>3 DEF RequestStep, RequestGoes, Carried

(* Any step of the route is one on the cache, and on one request at most. *)
LEMMA RouteStep ==
    ASSUME CacheTypeOK, RouteNext
    PROVE  CacheStep /\ (RequestStep \/ UNCHANGED request)
<1>0. /\ now \in Nat /\ now <= MaxTime
      /\ \A r \in Requests : request[r] \in Held
  BY SearchAssumption DEF CacheTypeOK, Held
<1>1. ASSUME NEW r \in Requests, NEW key \in Keys, NEW awaited \in BOOLEAN,
             IsFor(request[r], key, awaited),
             Hit(r, key, awaited)
      PROVE  CacheStep /\ RequestStep
  <2>1. CacheStep
    BY <1>1, <1>0 DEF Hit, CacheStep
  <2>2. RequestStep
    BY <1>1, <1>0, ResponseStep DEF Hit, Statuses
  <2> QED BY <2>1, <2>2
<1>2. ASSUME NEW r \in Requests, NEW key \in Keys, NEW awaited \in BOOLEAN,
             IsFor(request[r], key, awaited),
             Miss(r, key, awaited)
      PROVE  CacheStep /\ RequestStep
  <2>1. CacheStep
    BY <1>2 DEF Miss, CacheStep
  <2>2. CASE apiKey
    <3> DEFINE new == [stage |-> "fetching", key |-> key, awaited |-> awaited]
    <3>1. Carried(request[r], new)
      BY <1>2, <1>0, FetchCarries
    <3>2. request' = [request EXCEPT ![r] = new]
      BY <2>2, <1>2 DEF Miss
    <3>4. new.key = key /\ ~Fresh(key)
      BY <1>2 DEF Miss
    <3> HIDE DEF new
    <3>3. RequestStep
      BY <3>1, <3>2, <3>4 DEF RequestStep, RequestGoes, Carried
    <3> QED BY <2>1, <3>3
  <2>3. CASE ~apiKey
    <3>1. Respond(r, key, awaited, 503)
      BY <2>3, <1>2 DEF Miss
    <3>2. RequestStep
      BY <3>1, <1>2, <1>0, ResponseStep DEF Statuses
    <3> QED BY <2>1, <3>2
  <2> QED BY <2>1, <2>2, <2>3
<1>3. CASE Tick
  BY <1>3, <1>0, SearchAssumption DEF Tick, CacheStep
<1>4. ASSUME NEW r \in Requests, GET(r) PROVE CacheStep /\ RequestStep
  <2>1. request[r].key \in Keys /\ request[r].awaited \in BOOLEAN
        /\ IsFor(request[r], request[r].key, request[r].awaited)
    BY <1>0, <1>4, UnservedIs DEF GET
  <2> QED BY <2>1, <1>1, <1>2, <1>4 DEF GET
<1>5. ASSUME NEW r \in Requests, NEW k \in Keys, OtherGET(r, k) PROVE CacheStep /\ RequestStep
  <2>1. IsFor(request[r], k, FALSE)
    BY <1>5, ClosedIsNotOpen DEF OtherGET, IsFor
  <2> QED BY <2>1, <1>1, <1>2, <1>5 DEF OtherGET
<1>6. ASSUME NEW r \in Requests, NEW status \in Statuses, request[r].stage = "fetching",
             Respond(r, request[r].key, request[r].awaited, status)
      PROVE  RequestStep /\ request[r].key \in Keys
  <2>1. request[r].key \in Keys /\ request[r].awaited \in BOOLEAN
        /\ IsFor(request[r], request[r].key, request[r].awaited)
    BY <1>0, <1>6, UnservedIs
  <2> QED BY <2>1, <1>0, <1>6, ResponseStep
<1>7. ASSUME NEW r \in Requests, Fetched(r) PROVE CacheStep /\ RequestStep
  BY <1>6, <1>7 DEF Fetched, CacheStep, Statuses
<1>8. ASSUME NEW r \in Requests, NEW status \in Statuses, Refused(r, status)
      PROVE  CacheStep /\ RequestStep
  BY <1>0, <1>6, <1>8 DEF Refused, CacheStep
<1> QED BY <1>3, <1>4, <1>5, <1>7, <1>8 DEF RouteNext, QuotaExceeded, SearchFailed, Statuses, Tick

-----------------------------------------------------------------------------
(* The cache of searches.                                                  *)

\* The cache is a map.
KeyedOnce(c) == \A i, j \in 1..Len(c) : c[i].key = c[j].key => i = j

\* An entry of a cache, by its fields.
LEMMA EntryTyped ==
    ASSUME NEW c \in Seq(Entries), NEW i \in 1..Len(c)
    PROVE  c[i] \in Entries /\ c[i].key \in Keys /\ c[i].expiresAt \in Nat
<1>1. c[i] \in Entries
  OBVIOUS
<1> QED BY <1>1 DEF Entries

(* left is the cache, or the cache without its first entry. *)
RoomIn(left, d) ==
    /\ d \in {0, 1}
    /\ left \in Seq(Entries) /\ KeyedOnce(left)
    /\ Len(left) < CACHE_MAX_ENTRIES
    /\ Len(cache) = Len(left) + d
    /\ \A i \in 1..Len(left) : left[i] = cache[i + d]

(* MakeRoom takes the first entry, or none. *)
LEMMA RoomIsMade ==
    ASSUME CacheTypeOK
    PROVE  \E d \in {0, 1} : RoomIn(MakeRoom, d)
<1>1. /\ cache \in Seq(Entries) /\ Len(cache) \in Nat /\ Len(cache) <= CACHE_MAX_ENTRIES
      /\ CACHE_MAX_ENTRIES \in Nat \ {0}
      /\ \A i, j \in 1..Len(cache) : cache[i].key = cache[j].key => i = j
  BY SearchAssumption DEF CacheTypeOK
<1>2. CASE Len(cache) >= CACHE_MAX_ENTRIES
  <2> DEFINE left == Tail(cache)
  <2>1. /\ left \in Seq(Entries) /\ Len(left) = Len(cache) - 1
        /\ \A i \in 1..Len(left) : left[i] = cache[i + 1]
    BY <1>1, <1>2
  <2>2. MakeRoom = left
    BY <1>2 DEF MakeRoom
  <2> HIDE DEF left
  <2>3. KeyedOnce(left)
    <3> SUFFICES ASSUME NEW i \in 1..Len(left), NEW j \in 1..Len(left), left[i].key = left[j].key
                 PROVE  i = j
      BY DEF KeyedOnce
    <3>1. i + 1 \in 1..Len(cache) /\ j + 1 \in 1..Len(cache)
      BY <1>1, <2>1
    <3>2. i + 1 = j + 1
      BY <3>1, <1>1, <2>1
    <3> QED BY <3>2
  <2>4. RoomIn(left, 1)
    BY <1>1, <2>1, <2>3 DEF RoomIn
  <2> QED BY <2>2, <2>4
<1>3. CASE Len(cache) < CACHE_MAX_ENTRIES
  <2>1. MakeRoom = cache
    BY <1>1, <1>3 DEF MakeRoom
  <2>2. \A i \in 1..Len(cache) : cache[i] = cache[i + 0]
    BY <1>1
  <2>3. RoomIn(cache, 0)
    BY <1>1, <1>3, <2>2 DEF RoomIn, KeyedOnce
  <2> QED BY <2>1, <2>3
<1> QED BY <1>1, <1>2, <1>3

(* map with the entry of key set, in its place or at the end. *)
SetTo(map, key, entry, map2) ==
    /\ map2 \in Seq(Entries) /\ KeyedOnce(map2)
    /\ Len(map2) \in Len(map)..Len(map) + 1
    /\ \A i \in 1..Len(map) : map2[i] = IF map[i].key = key THEN entry ELSE map[i]
    /\ Len(map2) = Len(map) + 1 => map2[Len(map2)] = entry
    /\ \E i \in 1..Len(map2) : map2[i] = entry

(* SetIn sets. *)
LEMMA SetInSets ==
    ASSUME NEW map \in Seq(Entries), KeyedOnce(map), NEW key \in Keys,
           NEW entry \in Entries, entry.key = key
    PROVE  SetTo(map, key, entry, SetIn(map, key, entry))
<1>0. Len(map) \in Nat /\ \A i \in 1..Len(map) : map[i] \in Entries
  OBVIOUS
<1>1. CASE \E i \in 1..Len(map) : map[i].key = key
  <2> DEFINE map2 == [i \in 1..Len(map) |-> IF map[i].key = key THEN entry ELSE map[i]]
  <2>1. SetIn(map, key, entry) = map2
    BY <1>1 DEF SetIn
  <2>2. \A i \in 1..Len(map) : map2[i] = IF map[i].key = key THEN entry ELSE map[i]
    OBVIOUS
  <2>3. map2 \in [1..Len(map) -> Entries]
    BY <1>0
  <2> HIDE DEF map2
  <2>4. map2 \in Seq(Entries) /\ Len(map2) = Len(map)
    BY <1>0, <2>3
  <2>5. \A i \in 1..Len(map) : map2[i].key = map[i].key
    BY <2>2
  <2>6. KeyedOnce(map2)
    BY <2>4, <2>5 DEF KeyedOnce
  <2>7. \E i \in 1..Len(map2) : map2[i] = entry
    BY <1>1, <2>2, <2>4
  <2> QED BY <1>0, <2>1, <2>2, <2>4, <2>6, <2>7 DEF SetTo
<1>2. CASE \A i \in 1..Len(map) : map[i].key # key
  <2> DEFINE map2 == Append(map, entry)
  <2>1. SetIn(map, key, entry) = map2
    BY <1>2 DEF SetIn
  <2>2. /\ map2 \in Seq(Entries) /\ Len(map2) = Len(map) + 1 /\ map2[Len(map) + 1] = entry
        /\ \A i \in 1..Len(map) : map2[i] = map[i]
    BY <1>0
  <2> HIDE DEF map2
  <2>3. KeyedOnce(map2)
    <3> SUFFICES ASSUME NEW i \in 1..Len(map2), NEW j \in 1..Len(map2), map2[i].key = map2[j].key
                 PROVE  i = j
      BY DEF KeyedOnce
    <3>1. (i \in 1..Len(map) \/ i = Len(map) + 1) /\ (j \in 1..Len(map) \/ j = Len(map) + 1)
      BY <1>0, <2>2
    <3> QED BY <3>1, <1>2, <2>2 DEF KeyedOnce
  <2> QED BY <1>0, <1>2, <2>1, <2>2, <2>3 DEF SetTo
<1> QED BY <1>1, <1>2

(* What setCache leaves, by the places of its entries in the cache before. *)
StoredIn(key, entry, left, d) ==
    /\ RoomIn(left, d)
    /\ SetTo(left, key, entry, cache')
    /\ storedAt' = IF key = watched THEN now ELSE storedAt
    /\ watched' = watched
    /\ \A i \in 1..Len(left) :
         /\ left[i].key \in refreshed => left[i].key \in refreshed'
         /\ left[i].key = key => key \in refreshed'
    /\ refreshed' \subseteq refreshed \cup {key}
    /\ ~evicted' /\ key # watched =>
         ~evicted /\ (HasKey(watched) => \E i \in 1..Len(left) : left[i].key = watched)
    /\ evicted' \in BOOLEAN

(* setCache makes room, sets the entry, and history notes what was evicted. *)
LEMMA SetCacheIs ==
    ASSUME CacheTypeOK, NEW key \in Keys, NEW entry \in Entries, entry.key = key,
           setCache(key, entry)
    PROVE  \E d \in {0, 1} : StoredIn(key, entry, MakeRoom, d)
<1> DEFINE left == MakeRoom
           gone == {cache[i].key : i \in 1..Len(cache)} \ {left[i].key : i \in 1..Len(left)}
<1>1. PICK d \in {0, 1} : RoomIn(left, d)
  BY RoomIsMade
<1>2. /\ cache' = SetIn(left, key, entry)
      /\ storedAt' = IF key = watched THEN now ELSE storedAt
      /\ watched' = watched
      /\ refreshed' = (refreshed \ gone) \cup (IF HasKey(key) /\ key \notin gone
                                                 THEN {key} ELSE {})
  BY DEF setCache
<1>3. evicted' = (key # watched /\ (evicted \/ watched \in gone))
  BY DEF setCache
<1>4. \A i \in 1..Len(left) : left[i].key \notin gone
  OBVIOUS
<1>5. ASSUME NEW i \in 1..Len(left) PROVE HasKey(left[i].key)
  <2>1. i + d \in 1..Len(cache) /\ left[i] = cache[i + d]
    BY <1>1 DEF RoomIn
  <2> QED BY <2>1 DEF HasKey
<1>6. ASSUME HasKey(watched), watched \notin gone
      PROVE  \E i \in 1..Len(left) : left[i].key = watched
  BY <1>6 DEF HasKey
<1> HIDE DEF left, gone
<1>7. SetTo(left, key, entry, cache')
  BY <1>1, <1>2, SetInSets DEF RoomIn
<1>8. \A i \in 1..Len(left) :
         /\ left[i].key \in refreshed => left[i].key \in refreshed'
         /\ left[i].key = key => key \in refreshed'
  BY <1>2, <1>4, <1>5
<1>9. /\ ~evicted' /\ key # watched => ~evicted /\ watched \notin gone
      /\ evicted' \in BOOLEAN
  BY <1>3
<1>10. refreshed' \subseteq refreshed \cup {key}
  BY <1>2
<1>11. ~evicted' /\ key # watched =>
         ~evicted /\ (HasKey(watched) => \E i \in 1..Len(left) : left[i].key = watched)
  BY <1>6, <1>9
<1>12. StoredIn(key, entry, left, d)
  BY <1>1, <1>2, <1>7, <1>8, <1>9, <1>10, <1>11 DEF StoredIn
<1> QED BY <1>12 DEF left

(* What is left of the cache when the entry of a key leaves. *)
LEMMA DropIs ==
    ASSUME CacheTypeOK, NEW key
    PROVE  LeftOf(Entries, cache, {i \in 1..Len(cache) : cache[i].key # key}, Drop(key))
<1>1. cache \in Seq(Entries)
  BY DEF CacheTypeOK
<1> QED BY <1>1, Leaves DEF Drop

(* An answer is kept for as long as it is fresh, but for an eviction. *)
WatchedIsKept ==
    storedAt # Never /\ ~evicted /\ now < storedAt + CACHE_TTL =>
        \E i \in 1..Len(cache) :
            cache[i].key = watched /\ cache[i].expiresAt = storedAt + CACHE_TTL

NoneOutlivesItsTTL == \A i \in 1..Len(cache) : cache[i].expiresAt <= now + CACHE_TTL

(* What was inserted first expires first, but for what was overwritten. *)
OldestFirst ==
    \A i, j \in 1..Len(cache) :
        i < j /\ cache[j].expiresAt < cache[i].expiresAt => cache[i].key \in refreshed

(* The invariant of the cache. *)
MapInv == CacheTypeOK /\ WatchedIsKept /\ NoneOutlivesItsTTL /\ OldestFirst

\* The cache and its clock are typed: the parts of CacheTypeOK that arithmetic needs.
LEMMA CacheNumbers ==
    ASSUME CacheTypeOK
    PROVE  /\ now \in Nat /\ now <= MaxTime /\ CACHE_TTL \in Nat /\ CACHE_TTL > 0
           /\ MaxTime \in Nat /\ Never = MaxTime + 1 /\ storedAt \in Nat
           /\ cache \in Seq(Entries) /\ Len(cache) \in Nat /\ KeyedOnce(cache)
           /\ \A i \in 1..Len(cache) : cache[i].key \in Keys /\ cache[i].expiresAt \in Nat
<1>1. cache \in Seq(Entries) /\ now \in 0..MaxTime /\ storedAt \in 0..Never
  BY DEF CacheTypeOK
<1>2. KeyedOnce(cache)
  BY DEF CacheTypeOK, KeyedOnce
<1>3. \A i \in 1..Len(cache) : cache[i].key \in Keys /\ cache[i].expiresAt \in Nat
  BY <1>1, EntryTyped
<1> QED BY <1>1, <1>2, <1>3, SearchAssumption DEF Never

\* A step that stores an answer.
Stores(key) == setCache(key, [key |-> key, expiresAt |-> now + CACHE_TTL]) /\ UNCHANGED now

\* The entry that such a step stores.
Entry(key) == [key |-> key, expiresAt |-> now + CACHE_TTL]

LEMMA StoresIs ==
    ASSUME CacheTypeOK, NEW key \in Keys, Stores(key)
    PROVE  /\ \E d \in {0, 1} : StoredIn(key, Entry(key), MakeRoom, d)
           /\ Entry(key).key = key /\ Entry(key).expiresAt = now + CACHE_TTL
           /\ now' = now
<1>1. Entry(key) \in Entries /\ Entry(key).key = key /\ Entry(key).expiresAt = now + CACHE_TTL
  BY CacheNumbers DEF Entry, Entries
<1>2. setCache(key, Entry(key)) /\ now' = now
  BY DEF Stores, Entry
<1> QED BY <1>1, <1>2, SetCacheIs

(* Either kind of step on the cache keeps its type. *)
LEMMA StepKeepsCacheType ==
    ASSUME CacheTypeOK, CacheStep, request' \in [Requests -> Held]
    PROVE  CacheTypeOK'
<1>1. /\ apiKey' \in BOOLEAN /\ watched' \in Keys
      /\ request' \in [Requests -> Unserved \cup Served \cup {Closed}]
  BY DEF CacheTypeOK, CacheStep, setCache, history, Held
<1>2. CASE /\ UNCHANGED <<cache, history, refreshed>> /\ now' \in {now, now + 1}
           /\ now' <= MaxTime
  <2>1. now' \in 0..MaxTime
    BY <1>2, CacheNumbers
  <2> QED BY <1>1, <1>2, <2>1 DEF CacheTypeOK, history
<1>3. ASSUME NEW key \in Keys, cache' = Drop(key), refreshed' = refreshed \ {key},
             UNCHANGED <<now, history>>
      PROVE  CacheTypeOK'
  <2> DEFINE P == {i \in 1..Len(cache) : cache[i].key # key}
  <2>1. LeftOf(Entries, cache, P, cache')
    BY <1>3, DropIs
  <2>2. P \subseteq 1..Len(cache)
    OBVIOUS
  <2> HIDE DEF P
  <2>3. KeyedOnce(cache')
    <3>1. ASSUME NEW i \in 1..Len(cache'), NEW j \in 1..Len(cache'), i < j
          PROVE  cache'[i].key # cache'[j].key
      <4>1. PICK m \in P, n \in P : m < n /\ cache'[i] = cache[m] /\ cache'[j] = cache[n]
        BY <2>1, <3>1 DEF LeftOf
      <4>2. m \in 1..Len(cache) /\ n \in 1..Len(cache) /\ m # n
        BY <2>2, <4>1, CacheNumbers
      <4> QED BY <4>1, <4>2, CacheNumbers DEF KeyedOnce
    <3> SUFFICES ASSUME NEW i \in 1..Len(cache'), NEW j \in 1..Len(cache'),
                        cache'[i].key = cache'[j].key
                 PROVE  i = j
      BY DEF KeyedOnce
    <3>2. i \in Nat /\ j \in Nat
      BY <2>1 DEF LeftOf
    <3> QED BY <3>1, <3>2
  <2>4. cache' \in Seq(Entries) /\ Len(cache') <= CACHE_MAX_ENTRIES
    BY <2>1, CacheNumbers, SearchAssumption DEF LeftOf, CacheTypeOK
  <2> QED BY <1>1, <1>3, <2>3, <2>4 DEF CacheTypeOK, KeyedOnce, history
<1>4. ASSUME NEW key \in Keys, Stores(key) PROVE CacheTypeOK'
  <2>1. PICK d \in {0, 1} : StoredIn(key, Entry(key), MakeRoom, d)
    BY <1>4, StoresIs
  <2>2. cache' \in Seq(Entries) /\ KeyedOnce(cache') /\ Len(cache') <= CACHE_MAX_ENTRIES
    <3>1. Len(MakeRoom) \in Nat
      BY <2>1 DEF StoredIn, RoomIn
    <3> QED BY <2>1, <3>1, SearchAssumption DEF StoredIn, SetTo, RoomIn
  <2>3. storedAt' \in 0..Never /\ now' \in 0..MaxTime
    <3>1. now' = now /\ storedAt' \in {now, storedAt}
      BY <1>4, <2>1, StoresIs DEF StoredIn
    <3>2. storedAt \in 0..Never
      BY DEF CacheTypeOK
    <3> QED BY <3>1, <3>2, CacheNumbers
  <2>4. refreshed' \subseteq Keys /\ evicted' \in BOOLEAN
    BY <2>1 DEF StoredIn, CacheTypeOK
  <2> QED BY <1>1, <2>2, <2>3, <2>4 DEF CacheTypeOK, KeyedOnce
<1> QED BY <1>2, <1>3, <1>4 DEF CacheStep, Stores

(* An entry leaves that is not fresh. *)
LEMMA DropKeepsMap ==
    ASSUME MapInv, NEW key \in Keys, ~Fresh(key), cache' = Drop(key),
           refreshed' = refreshed \ {key}, UNCHANGED <<now, history>>
    PROVE  WatchedIsKept' /\ NoneOutlivesItsTTL' /\ OldestFirst'
<1> DEFINE P == {i \in 1..Len(cache) : cache[i].key # key}
<1>1. LeftOf(Entries, cache, P, cache')
  BY DropIs DEF MapInv
<1>2. \A i \in 1..Len(cache) : i \in P <=> cache[i].key # key
  OBVIOUS
<1>3. P \subseteq 1..Len(cache)
  OBVIOUS
<1>4. UNCHANGED <<now, watched, storedAt, evicted>>
  BY DEF history
<1> HIDE DEF P
<1>5. WatchedIsKept'
  <2> SUFFICES ASSUME storedAt # Never, ~evicted, now < storedAt + CACHE_TTL
               PROVE  \E i \in 1..Len(cache') :
                        cache'[i].key = watched /\ cache'[i].expiresAt = storedAt + CACHE_TTL
    BY <1>4 DEF WatchedIsKept
  <2>1. PICK i \in 1..Len(cache) :
               cache[i].key = watched /\ cache[i].expiresAt = storedAt + CACHE_TTL
    BY DEF MapInv, WatchedIsKept
  <2>2. cache[i].key # key
    <3>1. cache[i].expiresAt > now
      BY <2>1, CacheNumbers DEF MapInv
    <3> QED BY <3>1 DEF Fresh
  <2>3. PICK k \in 1..Len(cache') : cache'[k] = cache[i]
    BY <1>1, <1>2, <2>2 DEF LeftOf
  <2> QED BY <2>1, <2>3
<1>6. NoneOutlivesItsTTL'
  BY <1>1, <1>3, <1>4 DEF LeftOf, MapInv, NoneOutlivesItsTTL
<1>7. OldestFirst'
  <2> SUFFICES ASSUME NEW i \in 1..Len(cache'), NEW j \in 1..Len(cache'), i < j,
                      cache'[j].expiresAt < cache'[i].expiresAt
               PROVE  cache'[i].key \in refreshed'
    BY DEF OldestFirst
  <2>1. PICK m \in P, n \in P : m < n /\ cache'[i] = cache[m] /\ cache'[j] = cache[n]
    BY <1>1 DEF LeftOf
  <2>2. cache[m].key \in refreshed /\ cache[m].key # key
    BY <2>1, <1>2, <1>3 DEF MapInv, OldestFirst
  <2> QED BY <2>1, <2>2
<1> QED BY <1>5, <1>6, <1>7

(* An answer is stored: at the end it expires last, in its place it is noted in refreshed. *)
LEMMA StoreKeepsMap ==
    ASSUME MapInv, NEW key \in Keys, Stores(key)
    PROVE  WatchedIsKept' /\ NoneOutlivesItsTTL' /\ OldestFirst'
<1> DEFINE left == MakeRoom
           entry == Entry(key)
<1>1. PICK d \in {0, 1} : StoredIn(key, entry, left, d)
  BY StoresIs DEF MapInv
<1>2. entry.key = key /\ entry.expiresAt = now + CACHE_TTL /\ now' = now
  BY StoresIs DEF MapInv
<1> HIDE DEF left, entry
<1>3. RoomIn(left, d) /\ SetTo(left, key, entry, cache')
  BY <1>1 DEF StoredIn
<1>4. /\ Len(left) \in Nat /\ Len(cache') \in Nat
      /\ \A i \in 1..Len(left) : i + d \in 1..Len(cache) /\ left[i] = cache[i + d]
      /\ \A i \in 1..Len(cache') : i \in 1..Len(left) \/ (i = Len(left) + 1 /\ cache'[i] = entry)
  BY <1>3 DEF RoomIn, SetTo
<1>5. \A i \in 1..Len(left) : cache'[i] = IF left[i].key = key THEN entry ELSE left[i]
  BY <1>3 DEF SetTo
<1>6. WatchedIsKept'
  <2>1. CASE key = watched
    <3>1. PICK i \in 1..Len(cache') : cache'[i] = entry
      BY <1>3 DEF SetTo
    <3>2. storedAt' = now /\ watched' = watched
      BY <1>1, <2>1 DEF StoredIn
    <3> QED BY <1>2, <2>1, <3>1, <3>2 DEF WatchedIsKept
  <2>2. CASE key # watched
    <3>0. storedAt' = storedAt /\ watched' = watched
      BY <1>1, <2>2 DEF StoredIn
    <3> SUFFICES ASSUME storedAt # Never, ~evicted', now < storedAt + CACHE_TTL
                 PROVE  \E i \in 1..Len(cache') :
                          /\ cache'[i].key = watched
                          /\ cache'[i].expiresAt = storedAt + CACHE_TTL
      BY <1>2, <3>0 DEF WatchedIsKept, Never
    <3>1. ~evicted
      BY <1>1, <2>2 DEF StoredIn
    <3>2. PICK i \in 1..Len(cache) :
                 cache[i].key = watched /\ cache[i].expiresAt = storedAt + CACHE_TTL
      BY <3>1 DEF MapInv, WatchedIsKept
    <3>3. HasKey(watched)
      BY <3>2 DEF HasKey
    <3>4. PICK j \in 1..Len(left) : left[j].key = watched
      BY <1>1, <2>2, <3>3 DEF StoredIn
    <3>5. j + d \in 1..Len(cache) /\ left[j] = cache[j + d]
      BY <1>4
    <3>6. j + d = i
      BY <3>2, <3>4, <3>5, CacheNumbers DEF MapInv, KeyedOnce
    <3>7. cache'[j] = cache[i] /\ j \in 1..Len(cache')
      BY <1>3, <1>4, <1>5, <2>2, <3>4, <3>5, <3>6 DEF SetTo
    <3> QED BY <3>2, <3>7
  <2> QED BY <2>1, <2>2
<1>7. NoneOutlivesItsTTL'
  <2> SUFFICES ASSUME NEW i \in 1..Len(cache') PROVE cache'[i].expiresAt <= now + CACHE_TTL
    BY <1>2 DEF NoneOutlivesItsTTL
  <2>1. now + CACHE_TTL <= now + CACHE_TTL
    BY CacheNumbers DEF MapInv
  <2>2. CASE cache'[i] = entry
    BY <2>1, <2>2, <1>2
  <2>3. CASE i \in 1..Len(left) /\ cache'[i] = left[i]
    BY <2>3, <1>4 DEF MapInv, NoneOutlivesItsTTL
  <2> QED BY <1>4, <1>5, <2>2, <2>3
<1>8. OldestFirst'
  <2> SUFFICES ASSUME NEW i \in 1..Len(cache'), NEW j \in 1..Len(cache'), i < j,
                      cache'[j].expiresAt < cache'[i].expiresAt
               PROVE  cache'[i].key \in refreshed'
    BY DEF OldestFirst
  <2>1. i \in 1..Len(left)
    BY <1>3, <1>4 DEF SetTo
  <2>2. CASE left[i].key = key
    BY <1>1, <1>2, <1>5, <2>1, <2>2 DEF StoredIn
  <2>3. CASE left[i].key # key
    <3>1. cache'[i] = cache[i + d] /\ i + d \in 1..Len(cache) /\ left[i] = cache[i + d]
      BY <1>4, <1>5, <2>1, <2>3
    <3>2. cache'[j] # entry
      <4>1. cache[i + d].expiresAt <= now + CACHE_TTL /\ cache[i + d].expiresAt \in Nat
        BY <3>1, CacheNumbers DEF MapInv, NoneOutlivesItsTTL
      <4>2. now + CACHE_TTL \in Nat
        BY CacheNumbers DEF MapInv
      <4>3. ~(now + CACHE_TTL < cache[i + d].expiresAt)
        BY <4>1, <4>2
      <4> QED BY <4>3, <1>2, <3>1
    <3>3. j \in 1..Len(left) /\ cache'[j] = left[j]
      BY <1>4, <1>5, <3>2
    <3>4. cache'[j] = cache[j + d] /\ j + d \in 1..Len(cache)
      BY <1>4, <3>3
    <3>5. i + d < j + d
      BY <1>4
    <3>6. cache[i + d].key \in refreshed
      BY <3>1, <3>4, <3>5 DEF MapInv, OldestFirst
    <3> QED BY <1>1, <2>1, <3>1, <3>6 DEF StoredIn
  <2> QED BY <2>2, <2>3
<1> QED BY <1>6, <1>7, <1>8

LEMMA StepKeepsMap ==
    ASSUME MapInv, CacheStep, request' \in [Requests -> Held]
    PROVE  MapInv'
<1>1. CacheTypeOK'
  BY StepKeepsCacheType DEF MapInv
<1>2. CASE /\ UNCHANGED <<cache, history, refreshed>> /\ now' \in {now, now + 1}
           /\ now' <= MaxTime
  <2>1. UNCHANGED <<cache, watched, storedAt, evicted, refreshed>> /\ now <= now'
    BY <1>2, CacheNumbers DEF history, MapInv
  <2>2. WatchedIsKept'
    <3> SUFFICES ASSUME storedAt # Never, ~evicted, now' < storedAt + CACHE_TTL
                 PROVE  \E i \in 1..Len(cache) :
                          cache[i].key = watched /\ cache[i].expiresAt = storedAt + CACHE_TTL
      BY <2>1 DEF WatchedIsKept, Never
    <3>1. now < storedAt + CACHE_TTL
      BY <1>2, CacheNumbers DEF MapInv
    <3> QED BY <3>1 DEF MapInv, WatchedIsKept
  <2>3. NoneOutlivesItsTTL'
    <3> SUFFICES ASSUME NEW i \in 1..Len(cache) PROVE cache[i].expiresAt <= now' + CACHE_TTL
      BY <2>1 DEF NoneOutlivesItsTTL
    <3>1. cache[i].expiresAt <= now + CACHE_TTL /\ cache[i].expiresAt \in Nat
      BY CacheNumbers DEF MapInv, NoneOutlivesItsTTL
    <3> QED BY <3>1, <1>2, CacheNumbers DEF MapInv
  <2>4. OldestFirst'
    BY <2>1 DEF MapInv, OldestFirst
  <2> QED BY <1>1, <2>2, <2>3, <2>4 DEF MapInv
<1>3. ASSUME NEW key \in Keys, ~Fresh(key), cache' = Drop(key), refreshed' = refreshed \ {key},
             UNCHANGED <<now, history>>
      PROVE  MapInv'
  BY <1>1, <1>3, DropKeepsMap DEF MapInv
<1>4. ASSUME NEW key \in Keys, Stores(key) PROVE MapInv'
  BY <1>1, <1>4, StoreKeepsMap DEF MapInv
<1> QED BY <1>2, <1>3, <1>4 DEF CacheStep, Stores

-----------------------------------------------------------------------------
(* The search panel.                                                       *)

(* The search under way asks for the first page of the last query. *)
SearchAsks ==
    searching # NoRequest =>
        /\ searching \in Requests
        /\ currentQuery \in Queries
        /\ OpenFor(request[searching], cacheKey(currentQuery, NoToken))
        /\ pageTokens = <<NoToken>>
        /\ pageIndex = 0
        /\ searching # pageLoading

(* The page turn under way asks for the page that pageIndex stands for, if no
   search has overtaken it. *)
TurnAsks ==
    pageLoading # NoRequest =>
        /\ pageLoading \in Requests
        /\ \E k \in Keys : OpenFor(request[pageLoading], k)
        /\ crossed = "no" =>
             /\ currentQuery \in Queries
             /\ OpenFor(request[pageLoading], cacheKey(currentQuery, pageTokens[pageIndex + 1]))

(* A turn that a search has overtaken is under way until it lands, and no search
   overtakes another turn without noting it. *)
CrossingIsNoted ==
    /\ crossed = "started" => pageLoading # NoRequest
    /\ crossed \in {"no", "landed"} /\ pageLoading # NoRequest => searching = NoRequest

(* The tokens of the pages that were turned are those of the pages in their order. *)
TurnedInOrder ==
    crossed # "landed" => \A i \in 1..pageIndex + 1 : pageTokens[i] = i - 1

(* The invariant of the panel. *)
PanelInv ==
    /\ SearchTypeOK
    /\ SearchAsks
    /\ TurnAsks
    /\ CrossingIsNoted
    /\ TurnedInOrder
    /\ ShowsThePageAskedFor

SearchInv == MapInv /\ PanelInv

LEMMA SearchInitInv == SearchInit => SearchInv
<1> SUFFICES ASSUME SearchInit PROVE SearchInv
  OBVIOUS
<1>0. /\ now = 0 /\ cache = <<>> /\ storedAt = Never
      /\ nextPageToken = NoToken /\ pageTokens = <<NoToken>> /\ pageIndex = 0
  BY DEF SearchInit, CacheInit
<1>1. CacheTypeOK
  <2>1. Never \in Nat /\ now \in 0..MaxTime /\ storedAt \in 0..Never
    BY <1>0, SearchAssumption DEF Never
  <2>2. /\ cache \in Seq(Entries) /\ Len(cache) <= CACHE_MAX_ENTRIES
        /\ \A m, n \in 1..Len(cache) : cache[m].key = cache[n].key => m = n
    BY <1>0, SearchAssumption
  <2>3. request \in [Requests -> Unserved \cup Served \cup {Closed}]
    BY DEF SearchInit, CacheInit
  <2>4. apiKey \in BOOLEAN /\ watched \in Keys /\ evicted \in BOOLEAN /\ refreshed \subseteq Keys
    BY DEF SearchInit, CacheInit
  <2> QED BY <2>1, <2>2, <2>3, <2>4 DEF CacheTypeOK
<1>2. MapInv
  <2>1. cache = <<>> /\ Len(cache) = 0 /\ storedAt = Never
    BY DEF SearchInit, CacheInit
  <2> QED BY <1>1, <2>1 DEF MapInv, WatchedIsKept, NoneOutlivesItsTTL, OldestFirst
<1>3. NoToken \in Tokens /\ <<NoToken>> \in Seq(Tokens) /\ Len(<<NoToken>>) = 1
  BY SearchAssumption DEF NoToken, Tokens
<1>4. SearchTypeOK
  <2>1. nextPageToken \in Tokens /\ pageTokens \in Seq(Tokens) /\ pageIndex < Len(pageTokens)
        /\ pageIndex \in Nat
    BY <1>0, <1>3
  <2> QED BY <1>1, <2>1 DEF SearchInit, SearchTypeOK
<1>5. TurnedInOrder
  <2>1. \A n \in 1..pageIndex + 1 : n = 1
    BY <1>0
  <2>2. pageTokens[1] = 0
    BY <1>0 DEF NoToken
  <2> QED BY <2>1, <2>2 DEF TurnedInOrder
<1>6. SearchAsks /\ TurnAsks /\ CrossingIsNoted /\ ShowsThePageAskedFor
  BY DEF SearchInit, SearchAsks, TurnAsks, CrossingIsNoted, ShowsThePageAskedFor, ShowsResults
<1> QED BY <1>2, <1>4, <1>5, <1>6 DEF SearchInv, PanelInv

(* A step that moves requests on and leaves the panel alone. *)
LEMMA PanelKept ==
    ASSUME PanelInv, CacheTypeOK', UNCHANGED panelVars,
           \A r \in Requests, k \in Keys : OpenFor(request[r], k) => OpenFor(request'[r], k)
    PROVE  PanelInv'
<1>1. UNCHANGED <<currentQuery, results, nextPageToken, pageTokens, pageIndex, searching,
                  pageLoading, searchError, crossed>>
  BY DEF panelVars
<1>2. SearchTypeOK'
  BY <1>1 DEF PanelInv, SearchTypeOK
<1>3. SearchAsks'
  <2>1. \A q \in Queries : cacheKey(q, NoToken) \in Keys
    BY SearchAssumption DEF cacheKey, Keys, NoToken, Tokens
  <2> QED BY <1>1, <2>1 DEF PanelInv, SearchAsks
<1>4. TurnAsks'
  <2> SUFFICES ASSUME pageLoading # NoRequest
               PROVE  /\ pageLoading \in Requests
                      /\ \E k \in Keys : OpenFor(request'[pageLoading], k)
                      /\ crossed = "no" =>
                           /\ currentQuery \in Queries
                           /\ OpenFor(request'[pageLoading],
                                      cacheKey(currentQuery, pageTokens[pageIndex + 1]))
    BY <1>1 DEF TurnAsks
  <2>1. pageTokens[pageIndex + 1] \in Tokens
    <3>1. pageTokens \in Seq(Tokens) /\ pageIndex \in Nat /\ pageIndex < Len(pageTokens)
      BY DEF PanelInv, SearchTypeOK
    <3>2. pageIndex + 1 \in 1..Len(pageTokens)
      BY <3>1
    <3> QED BY <3>1, <3>2
  <2>2. currentQuery \in Queries => cacheKey(currentQuery, pageTokens[pageIndex + 1]) \in Keys
    BY <2>1 DEF cacheKey, Keys
  <2> QED BY <2>2 DEF PanelInv, TurnAsks
<1>5. CrossingIsNoted' /\ TurnedInOrder' /\ ShowsThePageAskedFor'
  BY <1>1 DEF PanelInv, CrossingIsNoted, TurnedInOrder, ShowsThePageAskedFor, ShowsResults, Turned
<1> QED BY <1>2, <1>3, <1>4, <1>5 DEF PanelInv

(* The route moves requests on, and the panel does not see it. *)
LEMMA RouteKeepsInv ==
    ASSUME SearchInv, RouteNext, UNCHANGED panelVars
    PROVE  SearchInv'
<1>1. CacheStep /\ (RequestStep \/ UNCHANGED request)
  BY RouteStep DEF SearchInv, MapInv
<1>2. request \in [Requests -> Held]
  BY DEF SearchInv, MapInv, CacheTypeOK, Held
<1>3. /\ request' \in [Requests -> Held]
      /\ \A r \in Requests, k \in Keys : OpenFor(request[r], k) => OpenFor(request'[r], k)
  <2>1. CASE RequestStep
    <3>1. PICK s \in Requests : \E new \in Held : RequestGoes(s, new)
      BY <2>1 DEF RequestStep
    <3>2. PICK new \in Held : RequestGoes(s, new)
      BY <3>1
    <3>3. request' = [request EXCEPT ![s] = new]
      BY <3>2 DEF RequestGoes
    <3>4. \A k \in Keys : OpenFor(request[s], k) => OpenFor(new, k)
      BY <3>2 DEF RequestGoes, Carried
    <3>5. request' \in [Requests -> Held]
      BY <1>2, <3>3
    <3>6. ASSUME NEW r \in Requests, NEW k \in Keys, OpenFor(request[r], k)
          PROVE  OpenFor(request'[r], k)
      <4>1. request'[r] = IF r = s THEN new ELSE request[r]
        BY <1>2, <3>3
      <4> QED BY <4>1, <3>4, <3>6
    <3> QED BY <3>5, <3>6
  <2>2. CASE UNCHANGED request
    BY <1>2, <2>2
  <2> QED BY <1>1, <2>1, <2>2
<1>4. MapInv'
  BY <1>1, <1>3, StepKeepsMap DEF SearchInv
<1>5. PanelInv'
  BY <1>3, <1>4, PanelKept DEF SearchInv, MapInv
<1> QED BY <1>4, <1>5 DEF SearchInv

(* What a call of the panel does to the requests. *)
LEMMA SendOpens ==
    ASSUME CacheTypeOK, NEW r \in Requests, NEW key \in Keys, Send(r, key)
    PROVE  /\ request' \in [Requests -> Held]
           /\ OpenFor(request'[r], key)
           /\ \A s \in Requests, k \in Keys :
                OpenFor(request[s], k) => s # r /\ OpenFor(request'[s], k)
           /\ \A s \in Requests : ~Asks(s)
<1> DEFINE new == [stage |-> "sent", key |-> key, awaited |-> TRUE]
<1>1. request \in [Requests -> Held]
  BY DEF CacheTypeOK, Held
<1>2. new \in Held /\ OpenFor(new, key)
  BY DEF Held, Unserved, OpenFor
<1>3. request[r] = Closed /\ request' = [request EXCEPT ![r] = new]
  BY DEF Send
<1>6. new.stage = "sent"
  OBVIOUS
<1> HIDE DEF new
<1>4. request' \in [Requests -> Held] /\ request'[r] = new
  BY <1>1, <1>2, <1>3
<1>5. ASSUME NEW s \in Requests, NEW k \in Keys, OpenFor(request[s], k)
      PROVE  s # r /\ OpenFor(request'[s], k)
  <2>1. s # r
    BY <1>3, <1>5, ClosedIsNotOpen
  <2>2. request'[s] = request[s]
    BY <1>1, <1>3, <2>1
  <2> QED BY <1>5, <2>1, <2>2
<1>7. ASSUME NEW s \in Requests PROVE ~Asks(s)
  <2>1. request'[s] = IF s = r THEN new ELSE request[s]
    BY <1>1, <1>3
  <2> QED BY <2>1, <1>6 DEF Asks
<1> QED BY <1>2, <1>4, <1>5, <1>7

\* The panel takes an answer, or gives a request up: the others stay as they are.
LEMMA EndsOne ==
    ASSUME CacheTypeOK, NEW r \in Requests, NEW key \in Keys, OpenFor(request[r], key),
           Answered(r) \/ Lost(r)
    PROVE  /\ request' \in [Requests -> Held]
           /\ \A s \in Requests : s # r => request'[s] = request[s]
           /\ request[r].key = key
           /\ \A s \in Requests : ~Asks(s)
<1>1. request \in [Requests -> Held] /\ Closed \in Held
  BY DEF CacheTypeOK, Held
<1>3. CASE \E s \in {"sent", "fetching"} :
             request[r] = [stage |-> s, key |-> key, awaited |-> TRUE]
  <2>1. request[r].stage # "answered" /\ request[r].key = key
    BY <1>3
  <2>2. request[r] \in Unserved
    BY <1>3 DEF Unserved
  <2>3. [request[r] EXCEPT !.awaited = FALSE] \in Held
    BY <2>2 DEF Unserved, Held
  <2>4. request' = [request EXCEPT ![r] = [request[r] EXCEPT !.awaited = FALSE]]
    BY <2>1 DEF Answered, Lost
  <2>5. [request[r] EXCEPT !.awaited = FALSE].stage = request[r].stage
    BY <2>2 DEF Unserved
  <2>6. \A s \in Requests : ~Asks(s)
    BY <1>1, <2>4, <2>5 DEF Asks
  <2> QED BY <1>1, <2>1, <2>3, <2>4, <2>6
<1>4. CASE \E n \in Statuses : request[r] = [stage |-> "answered", key |-> key, status |-> n]
  <2>1. request[r].stage = "answered"
    BY <1>4
  <2>2. request' = [request EXCEPT ![r] = Closed]
    BY <2>1 DEF Answered, Lost
  <2>3. request[r].key = key
    BY <1>4
  <2>4. Closed.stage = "closed"
    BY DEF Closed
  <2>5. \A s \in Requests : ~Asks(s)
    BY <1>1, <2>2, <2>4 DEF Asks
  <2> QED BY <1>1, <2>2, <2>3, <2>5
<1> QED BY <1>3, <1>4 DEF OpenFor

\* A step that leaves the cache alone.
LEMMA MapKept ==
    ASSUME MapInv, UNCHANGED <<now, apiKey, cache, history, refreshed>>,
           request' \in [Requests -> Held]
    PROVE  MapInv'
<1>1. CacheStep
  BY CacheNumbers DEF CacheStep, MapInv
<1> QED BY <1>1, StepKeepsMap

\* The tokens up to the page that is shown.
LEMMA TurnedIs ==
    ASSUME NEW tokens \in Seq(Tokens), NEW n \in Nat, n < Len(tokens),
           \A i \in 1..n + 1 : tokens[i] = i - 1
    PROVE  \A i \in 1..Len(SubSeq(tokens, 1, n + 1)) : SubSeq(tokens, 1, n + 1)[i] = i - 1
<1>1. /\ Len(SubSeq(tokens, 1, n + 1)) = n + 1
      /\ \A i \in 1..n + 1 : SubSeq(tokens, 1, n + 1)[i] = tokens[i]
  OBVIOUS
<1> QED BY <1>1

\* The tokens of a new search.
LEMMA FirstPage ==
    /\ <<NoToken>> \in Seq(Tokens) /\ Len(<<NoToken>>) = 1 /\ <<NoToken>>[1] = 0
    /\ \A i \in 1..0 + 1 : i = 1 /\ <<NoToken>>[i] = i - 1
<1>1. NoToken \in Tokens /\ NoToken = 0
  BY SearchAssumption DEF NoToken, Tokens
<1>2. \A i \in 1..0 + 1 : i = 1
  OBVIOUS
<1> QED BY <1>1, <1>2

\* The parts of the type that the steps of the panel need.
LEMMA PanelTypes ==
    ASSUME SearchInv
    PROVE  /\ CacheTypeOK /\ MapInv /\ PanelInv
           /\ currentQuery \in Queries \cup {NoQuery} /\ results \in Keys \cup {<<>>}
           /\ nextPageToken \in Tokens /\ pageTokens \in Seq(Tokens)
           /\ pageIndex \in Nat /\ pageIndex < Len(pageTokens) /\ Len(pageTokens) \in Nat
           /\ searching \in Requests \cup {NoRequest} /\ pageLoading \in Requests \cup {NoRequest}
           /\ searchError \in Errors \cup {""} /\ crossed \in {"no", "started", "landed"}
           /\ \A i \in 1..Len(pageTokens) : pageTokens[i] \in Tokens
           /\ Tokens \subseteq Nat /\ NoToken \in Tokens
           /\ \A q \in Queries, t \in Tokens : cacheKey(q, t) \in Keys
           /\ \A k \in Keys : NextToken(k) \in Tokens
<1>1. pageTokens \in Seq(Tokens) /\ pageIndex \in Nat /\ pageIndex < Len(pageTokens)
  BY DEF SearchInv, PanelInv, SearchTypeOK
<1>2. \A i \in 1..Len(pageTokens) : pageTokens[i] \in Tokens
  BY <1>1
<1>3. Tokens \subseteq Nat /\ NoToken \in Tokens
  BY SearchAssumption DEF Tokens, NoToken
<1>4. \A q \in Queries, t \in Tokens : cacheKey(q, t) \in Keys
  BY DEF cacheKey, Keys
<1>5. ASSUME NEW k \in Keys PROVE NextToken(k) \in Tokens
  <2>1. k[2] \in 0..LastPage
    BY <1>5 DEF Keys, Tokens, NoToken
  <2> QED BY <2>1, SearchAssumption DEF NextToken, Tokens, NoToken
<1>6. Len(pageTokens) \in Nat
  BY <1>1
<1> QED BY <1>1, <1>2, <1>3, <1>4, <1>5, <1>6 DEF SearchInv, MapInv, PanelInv, SearchTypeOK

(* One lemma for each thing the panel does. *)
LEMMA SearchKeepsInv ==
    ASSUME SearchInv, NEW r \in Requests, NEW q \in Queries, handleSearch(r, q)
    PROVE  SearchInv'
<1>1. /\ currentQuery' = q /\ results' = <<>> /\ nextPageToken' = NoToken
      /\ pageTokens' = <<NoToken>> /\ pageIndex' = 0 /\ searching' = r /\ searchError' = ""
      /\ pageLoading' = pageLoading /\ r # NoRequest
      /\ crossed' = IF pageLoading # NoRequest THEN "started" ELSE "no"
  BY NoneAssumption DEF handleSearch, resetPagination, AskRoute
<1>2. Send(r, cacheKey(q, NoToken)) /\ UNCHANGED <<now, apiKey, cache, history, refreshed>>
  BY DEF handleSearch, AskRoute
<1>3. /\ request' \in [Requests -> Held] /\ OpenFor(request'[r], cacheKey(q, NoToken))
      /\ \A s \in Requests, k \in Keys :
           OpenFor(request[s], k) => s # r /\ OpenFor(request'[s], k)
  BY <1>2, PanelTypes, SendOpens
<1>4. MapInv'
  BY <1>2, <1>3, PanelTypes, MapKept
<1>5. pageTokens' = <<NoToken>> /\ pageIndex' = 0
  BY <1>1
<1>6. SearchTypeOK'
  <2>1. pageTokens' \in Seq(Tokens) /\ pageIndex' \in Nat /\ pageIndex' < Len(pageTokens')
    BY <1>5, FirstPage
  <2> QED BY <1>1, <1>4, <2>1, PanelTypes DEF SearchTypeOK, MapInv
<1>7. pageLoading # NoRequest =>
        /\ pageLoading \in Requests /\ pageLoading # r
        /\ \E k \in Keys : OpenFor(request'[pageLoading], k)
  BY <1>3 DEF SearchInv, PanelInv, TurnAsks
<1>8. SearchAsks' /\ TurnAsks' /\ CrossingIsNoted'
  BY <1>1, <1>3, <1>7 DEF SearchAsks, TurnAsks, CrossingIsNoted
<1>9. TurnedInOrder'
  BY <1>5, FirstPage DEF TurnedInOrder
<1>10. ShowsThePageAskedFor'
  BY <1>1 DEF ShowsThePageAskedFor, ShowsResults
<1> QED BY <1>4, <1>6, <1>8, <1>9, <1>10 DEF SearchInv, PanelInv

(* A page turn to the token that is at the new place. *)
LEMMA TurnKeepsInv ==
    ASSUME SearchInv, NEW r \in Requests, NEW token \in Tokens, CanTurn,
           AskRoute(r, currentQuery, token), pageLoading' = r,
           pageTokens' \in Seq(Tokens), pageIndex' \in Nat, pageIndex' < Len(pageTokens'),
           pageTokens'[pageIndex' + 1] = token, TurnedInOrder',
           UNCHANGED <<currentQuery, results, nextPageToken, searching, crossed>>
    PROVE  SearchInv'
<1>1. /\ searching = NoRequest /\ currentQuery \in Queries /\ pageLoading = NoRequest
      /\ r # NoRequest /\ searchError' = ""
  BY NoneAssumption, PanelTypes DEF CanTurn, ShowsResults, AskRoute
<1>2. Send(r, cacheKey(currentQuery, token)) /\ UNCHANGED <<now, apiKey, cache, history, refreshed>>
  BY DEF AskRoute
<1>3. cacheKey(currentQuery, token) \in Keys
  BY <1>1, PanelTypes
<1>4. request' \in [Requests -> Held] /\ OpenFor(request'[r], cacheKey(currentQuery, token))
  BY <1>2, <1>3, PanelTypes, SendOpens
<1>5. MapInv'
  BY <1>2, <1>4, PanelTypes, MapKept
<1>6. SearchTypeOK'
  BY <1>1, <1>5, PanelTypes DEF SearchTypeOK, MapInv
<1>7. SearchAsks' /\ ShowsThePageAskedFor'
  BY <1>1 DEF SearchAsks, ShowsThePageAskedFor
<1>8. TurnAsks'
  BY <1>1, <1>3, <1>4 DEF TurnAsks
<1>9. CrossingIsNoted'
  BY <1>1 DEF CrossingIsNoted, SearchInv, PanelInv
<1> QED BY <1>5, <1>6, <1>7, <1>8, <1>9 DEF SearchInv, PanelInv

LEMMA NextKeepsInv ==
    ASSUME SearchInv, NEW r \in Requests, handleNext(r)
    PROVE  SearchInv'
<1> DEFINE front == SubSeq(pageTokens, 1, pageIndex + 1)
<1>1. /\ pageTokens \in Seq(Tokens) /\ pageIndex \in Nat /\ pageIndex < Len(pageTokens)
      /\ Len(pageTokens) \in Nat /\ nextPageToken \in Tokens
  BY PanelTypes
<1>2. /\ CanTurn /\ nextPageToken # NoToken /\ pageIndex' = pageIndex + 1
      /\ pageTokens' = Append(front, nextPageToken)
      /\ AskRoute(r, currentQuery, nextPageToken) /\ pageLoading' = r
      /\ UNCHANGED <<currentQuery, results, nextPageToken, searching, crossed>>
  BY DEF handleNext
<1>3. /\ front \in Seq(Tokens) /\ Len(front) = pageIndex + 1
      /\ \A i \in 1..pageIndex + 1 : front[i] = pageTokens[i]
  BY <1>1
<1> HIDE DEF front
<1>4. /\ pageTokens' \in Seq(Tokens) /\ Len(pageTokens') = pageIndex + 2
      /\ pageTokens'[pageIndex + 2] = nextPageToken
      /\ \A i \in 1..pageIndex + 1 : pageTokens'[i] = pageTokens[i]
  BY <1>1, <1>2, <1>3
<1>5. TurnedInOrder'
  <2>0. pageIndex' + 1 = pageIndex + 2 /\ crossed' = crossed
    BY <1>1, <1>2
  <2> SUFFICES ASSUME crossed # "landed", NEW i \in 1..pageIndex + 2
               PROVE  pageTokens'[i] = i - 1
    BY <2>0 DEF TurnedInOrder
  <2>1. CASE i \in 1..pageIndex + 1
    BY <1>4, <2>1 DEF SearchInv, PanelInv, TurnedInOrder
  <2>2. CASE i = pageIndex + 2
    <3>1. ShowsResults /\ pageLoading = NoRequest
      BY <1>2 DEF CanTurn
    <3>2. results = cacheKey(currentQuery, pageTokens[pageIndex + 1])
          /\ nextPageToken = NextToken(results)
      BY <3>1 DEF SearchInv, PanelInv, ShowsThePageAskedFor
    <3>3. pageTokens[pageIndex + 1] = pageIndex
      BY <1>1 DEF SearchInv, PanelInv, TurnedInOrder
    <3>4. results[2] = pageIndex
      BY <3>2, <3>3 DEF cacheKey
    <3>5. nextPageToken = pageIndex + 1
      BY <1>2, <3>2, <3>4 DEF NextToken
    <3> QED BY <1>1, <1>4, <2>2, <3>5
  <2> QED BY <1>1, <2>1, <2>2
<1>6. pageIndex' \in Nat /\ pageIndex' < Len(pageTokens') /\ pageTokens'[pageIndex' + 1] = nextPageToken
  <2>1. pageIndex' + 1 = pageIndex + 2
    BY <1>1, <1>2
  <2> QED BY <1>1, <1>2, <1>4, <2>1
<1> QED BY <1>1, <1>2, <1>4, <1>5, <1>6, TurnKeepsInv

LEMMA PrevKeepsInv ==
    ASSUME SearchInv, NEW r \in Requests, handlePrev(r)
    PROVE  SearchInv'
<1>1. /\ pageTokens \in Seq(Tokens) /\ pageIndex \in Nat /\ pageIndex < Len(pageTokens)
      /\ Len(pageTokens) \in Nat
      /\ \A i \in 1..Len(pageTokens) : pageTokens[i] \in Tokens
  BY PanelTypes
<1>2. /\ CanTurn /\ pageIndex > 0 /\ pageIndex' = pageIndex - 1 /\ pageTokens' = pageTokens
      /\ AskRoute(r, currentQuery, pageTokens[pageIndex]) /\ pageLoading' = r
      /\ UNCHANGED <<currentQuery, results, nextPageToken, searching, crossed>>
  BY DEF handlePrev
<1>3. pageIndex \in 1..Len(pageTokens) /\ pageIndex' + 1 = pageIndex
  BY <1>1, <1>2
<1>4. TurnedInOrder'
  <2>1. \A i \in 1..pageIndex' + 1 : i \in 1..pageIndex + 1
    BY <1>1, <1>3
  <2> QED BY <1>2, <2>1 DEF SearchInv, PanelInv, TurnedInOrder
<1>5. pageIndex' \in Nat /\ pageIndex' < Len(pageTokens)
  BY <1>1, <1>2
<1>6. pageTokens[pageIndex] \in Tokens
  BY <1>1, <1>3
<1> QED BY <1>1, <1>2, <1>3, <1>4, <1>5, <1>6, TurnKeepsInv

\* The request that is not answered stays open.
LEMMA OtherStaysOpen ==
    ASSUME SearchInv, NEW r \in Requests, NEW k \in Keys, OpenFor(request[r], k),
           Answered(r) \/ Lost(r)
    PROVE  /\ MapInv' /\ request[r].key = k
           /\ \A s \in Requests : s # r => request'[s] = request[s]
<1>1. /\ request' \in [Requests -> Held] /\ request[r].key = k
      /\ \A s \in Requests : s # r => request'[s] = request[s]
  BY PanelTypes, EndsOne
<1>2. UNCHANGED <<now, apiKey, cache, history, refreshed>>
  BY DEF Answered, Lost
<1> QED BY <1>1, <1>2, PanelTypes, MapKept

\* An error is one of those that the panel words.
LEMMA ErrorIsShown ==
    ASSUME NEW r, TakeError(r)
    PROVE  searchError' \in Errors /\ searchError' # "" /\ r \in Requests /\ (Answered(r) \/ Lost(r))
<1>1. CASE Answered(r) /\ searchError' = StatusError(request[r].status)
  <2>1. StatusError(request[r].status) \in {"not configured", "limit reached", "search failed"}
    BY DEF StatusError
  <2> QED BY <1>1, <2>1 DEF Errors, Answered
<1>2. CASE Lost(r) /\ searchError' = "went wrong"
  BY <1>2 DEF Errors, Lost
<1> QED BY <1>1, <1>2 DEF TakeError

\* The answer to a search, or its failure.
LEMMA SearchEnds ==
    ASSUME SearchInv, searching \in Requests, Answered(searching) \/ Lost(searching),
           searching' = NoRequest
    PROVE  /\ MapInv' /\ currentQuery \in Queries
           /\ request[searching].key = cacheKey(currentQuery, NoToken)
           /\ pageTokens = <<NoToken>> /\ pageIndex = 0
           /\ SearchAsks'
           /\ pageLoading # NoRequest => pageLoading \in Requests /\ crossed = "started"
           /\ pageLoading # NoRequest =>
                \E k \in Keys : OpenFor(request'[pageLoading], k)
<1>1. /\ currentQuery \in Queries /\ pageTokens = <<NoToken>> /\ pageIndex = 0
      /\ OpenFor(request[searching], cacheKey(currentQuery, NoToken)) /\ searching # pageLoading
      /\ searching # NoRequest
  BY NoneAssumption DEF SearchInv, PanelInv, SearchAsks
<1>2. cacheKey(currentQuery, NoToken) \in Keys
  BY <1>1, PanelTypes
<1>3. /\ MapInv' /\ request[searching].key = cacheKey(currentQuery, NoToken)
      /\ \A s \in Requests : s # searching => request'[s] = request[s]
  BY <1>1, <1>2, OtherStaysOpen
<1>4. pageLoading # NoRequest => pageLoading \in Requests /\ crossed = "started"
  BY <1>1, PanelTypes DEF PanelInv, CrossingIsNoted
<1>5. pageLoading # NoRequest => \E k \in Keys : OpenFor(request'[pageLoading], k)
  BY <1>1, <1>3 DEF SearchInv, PanelInv, TurnAsks
<1>6. SearchAsks'
  BY DEF SearchAsks
<1> QED BY <1>1, <1>3, <1>4, <1>5, <1>6

LEMMA SearchSucceedsKeepsInv ==
    ASSUME SearchInv, SearchSucceeds
    PROVE  SearchInv'
<1>1. /\ searching \in Requests /\ Answered(searching) /\ searching' = NoRequest
      /\ results' = request[searching].key /\ nextPageToken' = NextToken(results')
      /\ crossed' = IF crossed = "landed" THEN "no" ELSE crossed
      /\ UNCHANGED <<currentQuery, pageTokens, pageIndex, pageLoading, searchError>>
  BY DEF SearchSucceeds, TakeResults, Answered
<1>2. /\ MapInv' /\ currentQuery \in Queries
      /\ request[searching].key = cacheKey(currentQuery, NoToken)
      /\ pageTokens = <<NoToken>> /\ pageIndex = 0
      /\ SearchAsks'
      /\ pageLoading # NoRequest => pageLoading \in Requests /\ crossed = "started"
      /\ pageLoading # NoRequest => \E k \in Keys : OpenFor(request'[pageLoading], k)
  BY <1>1, SearchEnds
<1>3. results' = cacheKey(currentQuery, NoToken) /\ results' \in Keys
  BY <1>1, <1>2, PanelTypes
<1>4. SearchTypeOK'
  <2>1. nextPageToken' \in Tokens
    BY <1>1, <1>3, PanelTypes
  <2> QED BY <1>1, <1>2, <1>3, <2>1, PanelTypes DEF SearchTypeOK, MapInv
<1>5. TurnAsks' /\ CrossingIsNoted'
  BY <1>1, <1>2 DEF TurnAsks, CrossingIsNoted, SearchInv, PanelInv
<1>6. TurnedInOrder'
  BY <1>1, <1>2, FirstPage DEF TurnedInOrder
<1>7. ShowsThePageAskedFor'
  <2>1. /\ pageTokens' = <<NoToken>> /\ pageIndex' = 0 /\ pageTokens'[pageIndex' + 1] = NoToken
        /\ currentQuery' = currentQuery
    BY <1>1, <1>2
  <2>2. \A i \in 1..Len(Turned') : Turned'[i] = i - 1
    BY <2>1, FirstPage, TurnedIs DEF Turned
  <2> QED BY <1>1, <1>3, <2>1, <2>2 DEF ShowsThePageAskedFor
<1> QED BY <1>2, <1>4, <1>5, <1>6, <1>7 DEF SearchInv, PanelInv

LEMMA SearchFailsKeepsInv ==
    ASSUME SearchInv, SearchFails
    PROVE  SearchInv'
<1>1. /\ searching' = NoRequest /\ results' = <<>> /\ nextPageToken' = NoToken
      /\ pageTokens' = <<NoToken>> /\ pageIndex' = 0
      /\ UNCHANGED <<currentQuery, pageLoading, crossed>>
  BY DEF SearchFails, resetPagination
<1>2. /\ searchError' \in Errors /\ searchError' # "" /\ searching \in Requests
      /\ Answered(searching) \/ Lost(searching)
  BY ErrorIsShown DEF SearchFails
<1>3. /\ MapInv' /\ SearchAsks'
      /\ pageLoading # NoRequest => pageLoading \in Requests /\ crossed = "started"
      /\ pageLoading # NoRequest => \E k \in Keys : OpenFor(request'[pageLoading], k)
  BY <1>1, <1>2, SearchEnds
<1>4. SearchTypeOK'
  <2>1. pageTokens' \in Seq(Tokens) /\ pageIndex' \in Nat /\ pageIndex' < Len(pageTokens')
    BY <1>1, FirstPage
  <2> QED BY <1>1, <1>2, <1>3, <2>1, PanelTypes DEF SearchTypeOK, MapInv
<1>5. TurnAsks' /\ CrossingIsNoted'
  BY <1>1, <1>3 DEF TurnAsks, CrossingIsNoted, SearchInv, PanelInv
<1>6. TurnedInOrder'
  BY <1>1, FirstPage DEF TurnedInOrder
<1>7. ShowsThePageAskedFor'
  BY <1>2 DEF ShowsThePageAskedFor, ShowsResults
<1> QED BY <1>3, <1>4, <1>5, <1>6, <1>7 DEF SearchInv, PanelInv

\* The answer to a page turn, or its failure.
LEMMA TurnEnds ==
    ASSUME SearchInv, pageLoading \in Requests, Answered(pageLoading) \/ Lost(pageLoading),
           pageLoading' = NoRequest,
           crossed' = IF crossed = "started" THEN "landed" ELSE crossed,
           UNCHANGED <<currentQuery, pageTokens, pageIndex, searching>>
    PROVE  /\ MapInv' /\ request[pageLoading].key \in Keys
           /\ crossed = "no" =>
                /\ currentQuery \in Queries
                /\ request[pageLoading].key = cacheKey(currentQuery, pageTokens[pageIndex + 1])
           /\ SearchAsks' /\ TurnAsks' /\ CrossingIsNoted' /\ TurnedInOrder'
           /\ crossed' # "landed" => crossed = "no"
<1>1. pageLoading # NoRequest /\ \E k \in Keys : OpenFor(request[pageLoading], k)
  BY NoneAssumption DEF SearchInv, PanelInv, TurnAsks
<1>2. PICK k \in Keys : OpenFor(request[pageLoading], k)
  BY <1>1
<1>3. /\ MapInv' /\ request[pageLoading].key = k
      /\ \A s \in Requests : s # pageLoading => request'[s] = request[s]
  BY <1>2, OtherStaysOpen
<1>4. ASSUME crossed = "no"
      PROVE  /\ currentQuery \in Queries
             /\ request[pageLoading].key = cacheKey(currentQuery, pageTokens[pageIndex + 1])
  <2> DEFINE key == cacheKey(currentQuery, pageTokens[pageIndex + 1])
  <2>1. currentQuery \in Queries /\ OpenFor(request[pageLoading], key)
    BY <1>1, <1>4 DEF SearchInv, PanelInv, TurnAsks
  <2>2. key \in Keys
    <3>1. pageIndex \in Nat /\ pageIndex < Len(pageTokens) /\ Len(pageTokens) \in Nat
      BY PanelTypes
    <3>2. pageIndex + 1 \in 1..Len(pageTokens)
      BY <3>1
    <3> QED BY <2>1, <3>2, PanelTypes
  <2> HIDE DEF key
  <2>3. request[pageLoading].key = key
    BY <2>1, <2>2, OtherStaysOpen
  <2> QED BY <2>1, <2>3 DEF key
<1>5. SearchAsks'
  BY <1>1, <1>3 DEF SearchInv, PanelInv, SearchAsks
<1>6. TurnAsks' /\ CrossingIsNoted'
  BY PanelTypes DEF TurnAsks, CrossingIsNoted
<1>7. (crossed' # "landed" => crossed = "no") /\ TurnedInOrder'
  BY PanelTypes DEF PanelInv, TurnedInOrder
<1> QED BY <1>2, <1>3, <1>4, <1>5, <1>6, <1>7

LEMMA PageArrivesKeepsInv ==
    ASSUME SearchInv, PageArrives
    PROVE  SearchInv'
<1>1. /\ pageLoading \in Requests /\ Answered(pageLoading) /\ pageLoading' = NoRequest
      /\ results' = request[pageLoading].key /\ nextPageToken' = NextToken(results')
      /\ crossed' = IF crossed = "started" THEN "landed" ELSE crossed
      /\ UNCHANGED <<currentQuery, pageTokens, pageIndex, searching>> /\ UNCHANGED searchError
  BY DEF PageArrives, TakeResults, Answered, HistoryOfATurn
<1>2. /\ MapInv' /\ request[pageLoading].key \in Keys
      /\ crossed = "no" =>
           request[pageLoading].key = cacheKey(currentQuery, pageTokens[pageIndex + 1])
      /\ SearchAsks' /\ TurnAsks' /\ CrossingIsNoted' /\ TurnedInOrder'
      /\ crossed' # "landed" => crossed = "no"
  BY <1>1, TurnEnds
<1>3. SearchTypeOK'
  <2>1. nextPageToken' \in Tokens
    BY <1>1, <1>2, PanelTypes
  <2> QED BY <1>1, <1>2, <2>1, PanelTypes DEF SearchTypeOK, MapInv
<1>4. ShowsThePageAskedFor'
  <2> SUFFICES ASSUME crossed' # "landed"
               PROVE  /\ results' = cacheKey(currentQuery', pageTokens'[pageIndex' + 1])
                      /\ nextPageToken' = NextToken(results')
                      /\ \A i \in 1..Len(Turned') : Turned'[i] = i - 1
    BY DEF ShowsThePageAskedFor
  <2>1. \A i \in 1..pageIndex + 1 : pageTokens[i] = i - 1
    BY <1>2 DEF SearchInv, PanelInv, TurnedInOrder
  <2>2. \A i \in 1..Len(Turned') : Turned'[i] = i - 1
    BY <1>1, <2>1, PanelTypes, TurnedIs DEF Turned
  <2> QED BY <1>1, <1>2, <2>2
<1> QED BY <1>2, <1>3, <1>4 DEF SearchInv, PanelInv

LEMMA PageFailsKeepsInv ==
    ASSUME SearchInv, PageFails
    PROVE  SearchInv'
<1>1. /\ pageLoading' = NoRequest
      /\ crossed' = IF crossed = "started" THEN "landed" ELSE crossed
      /\ UNCHANGED <<currentQuery, pageTokens, pageIndex, searching>>
      /\ UNCHANGED <<results, nextPageToken>>
  BY DEF PageFails, HistoryOfATurn
<1>2. /\ searchError' \in Errors /\ searchError' # "" /\ pageLoading \in Requests
      /\ Answered(pageLoading) \/ Lost(pageLoading)
  BY ErrorIsShown DEF PageFails
<1>3. MapInv' /\ SearchAsks' /\ TurnAsks' /\ CrossingIsNoted' /\ TurnedInOrder'
  BY <1>1, <1>2, TurnEnds
<1>4. SearchTypeOK'
  BY <1>1, <1>2, <1>3, PanelTypes DEF SearchTypeOK, MapInv
<1>5. ShowsThePageAskedFor'
  BY <1>2 DEF ShowsThePageAskedFor, ShowsResults
<1> QED BY <1>3, <1>4, <1>5 DEF SearchInv, PanelInv

(* Every step keeps the invariant. *)
LEMMA SearchNextInv == SearchInv /\ [SearchNext]_searchVars => SearchInv'
<1> SUFFICES ASSUME SearchInv, [SearchNext]_searchVars PROVE SearchInv'
  OBVIOUS
<1>1. CASE RouteNext /\ UNCHANGED panelVars
  BY <1>1, RouteKeepsInv
<1>2. ASSUME NEW r \in Requests, NEW q \in Queries, handleSearch(r, q) PROVE SearchInv'
  BY <1>2, SearchKeepsInv
<1>3. ASSUME NEW r \in Requests, handleNext(r) \/ handlePrev(r) PROVE SearchInv'
  BY <1>3, NextKeepsInv, PrevKeepsInv
<1>4. CASE SearchSucceeds \/ SearchFails
  BY <1>4, SearchSucceedsKeepsInv, SearchFailsKeepsInv
<1>5. CASE PageArrives \/ PageFails
  BY <1>5, PageArrivesKeepsInv, PageFailsKeepsInv
<1>6. CASE UNCHANGED searchVars
  <2>1. UNCHANGED <<now, apiKey, cache, history, refreshed>> /\ UNCHANGED request
        /\ UNCHANGED panelVars
    BY <1>6 DEF searchVars, cacheVars
  <2>2. request' \in [Requests -> Held]
    BY <2>1, PanelTypes DEF CacheTypeOK, Held
  <2>3. MapInv'
    BY <2>1, <2>2, PanelTypes, MapKept
  <2>4. PanelInv'
    BY <2>1, <2>3, PanelTypes, PanelKept DEF MapInv
  <2> QED BY <2>3, <2>4 DEF SearchInv
<1> QED BY <1>1, <1>2, <1>3, <1>4, <1>5, <1>6 DEF SearchNext, PanelNext

(* For any queries, pages, requests and size of the cache, whatever other
   listeners search and however answers are delayed or lost: with no turn under
   way the panel shows the page that its buttons count from, unless the turn of
   an earlier search landed after the search. *)
THEOREM PanelShowsItsPage == SearchSpec => []ShowsThePageAskedFor
<1>1. SearchInv => ShowsThePageAskedFor
  BY DEF SearchInv, PanelInv
<1> QED BY <1>1, SearchInitInv, SearchNextInv, PTL DEF SearchSpec

(* The state of the search panel, of the route and of its cache is well typed:
   the cache has no key twice and is within its size. *)
THEOREM SearchTypeCorrect == SearchSpec => []SearchTypeOK
<1>1. SearchInv => SearchTypeOK
  BY DEF SearchInv, PanelInv
<1> QED BY <1>1, SearchInitInv, SearchNextInv, PTL DEF SearchSpec


-----------------------------------------------------------------------------
(* What the route asks of YouTube, and what its cache evicts.              *)

(* What the panel does asks YouTube nothing, and leaves the cache alone. *)
LEMMA PanelLeavesTheRoute ==
    ASSUME SearchInv, PanelNext
    PROVE  /\ UNCHANGED <<now, apiKey, cache, history, refreshed>>
           /\ \A s \in Requests : ~Asks(s)
<1>1. CacheTypeOK
  BY PanelTypes
<1>2. ASSUME NEW r \in Requests, NEW q \in Queries, NEW t \in Tokens, AskRoute(r, q, t)
      PROVE  /\ UNCHANGED <<now, apiKey, cache, history, refreshed>>
             /\ \A s \in Requests : ~Asks(s)
  BY <1>1, <1>2, PanelTypes, SendOpens DEF AskRoute
<1>3. ASSUME NEW r \in Requests, NEW q \in Queries, handleSearch(r, q)
      PROVE  AskRoute(r, q, NoToken) /\ NoToken \in Tokens
  BY <1>3, PanelTypes DEF handleSearch
<1>4. ASSUME NEW r \in Requests, handleNext(r) \/ handlePrev(r)
      PROVE  \E q \in Queries, t \in Tokens : AskRoute(r, q, t)
  <2>1. currentQuery \in Queries
    BY <1>4, PanelTypes DEF handleNext, handlePrev, CanTurn, ShowsResults
  <2>2. CASE handleNext(r)
    BY <2>1, <2>2, PanelTypes DEF handleNext
  <2>3. CASE handlePrev(r)
    <3>1. pageIndex \in 1..Len(pageTokens) /\ AskRoute(r, currentQuery, pageTokens[pageIndex])
      <4>1. /\ pageIndex \in Nat /\ Len(pageTokens) \in Nat
            /\ pageIndex < Len(pageTokens)
        BY PanelTypes
      <4>2. pageIndex > 0 /\ AskRoute(r, currentQuery, pageTokens[pageIndex])
        BY <2>3 DEF handlePrev
      <4>3. pageIndex \in 1..Len(pageTokens)
        BY <4>1, <4>2
      <4> QED BY <4>2, <4>3
    <3>2. pageTokens[pageIndex] \in Tokens
      BY <3>1, PanelTypes
    <3> QED BY <2>1, <3>1, <3>2
  <2> QED BY <1>4, <2>2, <2>3
<1>5. ASSUME NEW r \in Requests, NEW k \in Keys, OpenFor(request[r], k), Answered(r) \/ Lost(r)
      PROVE  /\ UNCHANGED <<now, apiKey, cache, history, refreshed>>
             /\ \A s \in Requests : ~Asks(s)
  BY <1>1, <1>5, EndsOne DEF Answered, Lost
<1>6. CASE SearchSucceeds \/ SearchFails
  <2>1. searching \in Requests /\ (Answered(searching) \/ Lost(searching))
    BY <1>6, ErrorIsShown DEF SearchSucceeds, SearchFails, TakeResults, Answered
  <2>2. OpenFor(request[searching], cacheKey(currentQuery, NoToken)) /\ currentQuery \in Queries
    BY <2>1, NoneAssumption DEF SearchInv, PanelInv, SearchAsks
  <2> QED BY <2>1, <2>2, <1>5, PanelTypes
<1>7. CASE PageArrives \/ PageFails
  <2>1. pageLoading \in Requests /\ (Answered(pageLoading) \/ Lost(pageLoading))
    BY <1>7, ErrorIsShown DEF PageArrives, PageFails, TakeResults, Answered
  <2>2. \E k \in Keys : OpenFor(request[pageLoading], k)
    BY <2>1, NoneAssumption DEF SearchInv, PanelInv, TurnAsks
  <2> QED BY <2>1, <2>2, <1>5
<1> QED BY <1>2, <1>3, <1>4, <1>6, <1>7 DEF PanelNext

(* Every step, as the cache sees it. *)
LEMMA StepIs ==
    ASSUME SearchInv, [SearchNext]_searchVars
    PROVE  \/ CacheStep /\ (RequestStep \/ UNCHANGED request)
           \/ UNCHANGED <<cache, history, refreshed>> /\ \A s \in Requests : ~Asks(s)
<1>1. CASE RouteNext
  BY <1>1, PanelTypes, RouteStep
<1>2. CASE PanelNext
  BY <1>2, PanelLeavesTheRoute
<1>3. CASE UNCHANGED searchVars
  BY <1>3 DEF searchVars, cacheVars, Asks
<1> QED BY <1>1, <1>2, <1>3 DEF SearchNext

(* YouTube is asked only for what the cache does not have, or no longer. *)
LEMMA AsksForTheStale ==
    ASSUME SearchInv, [SearchNext]_searchVars, NEW r \in Requests, Asks(r)
    PROVE  ~Fresh(request'[r].key)
<1>1. RequestStep \/ UNCHANGED request
  BY StepIs
<1>2. RequestStep
  BY <1>1 DEF Asks
<1>3. PICK s \in Requests : \E new \in Held : RequestGoes(s, new)
  BY <1>2 DEF RequestStep
<1>4. PICK new \in Held : RequestGoes(s, new)
  BY <1>3
<1>5. request \in [Requests -> Held] /\ request' = [request EXCEPT ![s] = new]
  BY <1>4, PanelTypes DEF RequestGoes, CacheTypeOK, Held
<1>6. request'[r] = IF r = s THEN new ELSE request[r]
  BY <1>5
<1> QED BY <1>4, <1>6 DEF Asks, RequestGoes

(* For any queries, requests, lifetime and size of the cache, however look-ups
   and stores interleave: the route asks YouTube for what it stored within the
   lifetime only if that was evicted. *)
THEOREM QuotaIsSpared == SearchSpec => QuotaIsSpentOncePerDay
<1>1. ASSUME SearchInv, [SearchNext]_searchVars, NEW r \in Requests, Asks(r),
             request'[r].key = watched, storedAt # Never, now < storedAt + CACHE_TTL
      PROVE  evicted
  <2> SUFFICES ASSUME ~evicted PROVE FALSE
    OBVIOUS
  <2>1. PICK i \in 1..Len(cache) :
               cache[i].key = watched /\ cache[i].expiresAt = storedAt + CACHE_TTL
    BY <1>1 DEF SearchInv, MapInv, WatchedIsKept
  <2>2. cache[i].expiresAt > now
    BY <1>1, <2>1, CacheNumbers, PanelTypes
  <2> QED BY <1>1, <2>1, <2>2, AsksForTheStale DEF Fresh
<1>2. SearchInv /\ [SearchNext]_searchVars =>
        [\A r \in Requests :
           /\ Asks(r)
           /\ request'[r].key = watched
           /\ storedAt # Never
           /\ now < storedAt + CACHE_TTL
           => evicted]_cacheVars
  BY <1>1
<1> QED BY <1>2, SearchInitInv, SearchNextInv, PTL DEF SearchSpec, QuotaIsSpentOncePerDay

\* The entry of i leaves the cache in this step.
Goes(i) == \A n \in 1..Len(cache') : cache'[n].key # cache[i].key

(* An entry that goes before it expires, though another expires sooner, was overwritten. *)
LEMMA OldestGoes ==
    ASSUME SearchInv, [SearchNext]_searchVars,
           NEW i \in 1..Len(cache), NEW j \in 1..Len(cache),
           cache[i].expiresAt > now, cache[j].expiresAt < cache[i].expiresAt, Goes(i)
    PROVE  cache[i].key \in refreshed
<1>1. CASE cache' = cache
  BY <1>1 DEF Goes
<1>2. ASSUME NEW key \in Keys, ~Fresh(key), cache' = Drop(key)
      PROVE  FALSE
  <2> DEFINE P == {n \in 1..Len(cache) : cache[n].key # key}
  <2>1. LeftOf(Entries, cache, P, cache')
    BY <1>2, PanelTypes, DropIs
  <2>2. i \in P
    BY <1>2 DEF Fresh
  <2> HIDE DEF P
  <2>3. PICK k \in 1..Len(cache') : cache'[k] = cache[i]
    BY <2>1, <2>2 DEF LeftOf
  <2> QED BY <2>3 DEF Goes
<1>3. ASSUME NEW key \in Keys, Stores(key) PROVE cache[i].key \in refreshed
  <2> DEFINE left == MakeRoom
  <2>1. Entry(key).key = key /\ \E d \in {0, 1} : StoredIn(key, Entry(key), left, d)
    BY <1>3, PanelTypes, StoresIs
  <2>2. PICK d \in {0, 1} : StoredIn(key, Entry(key), left, d)
    BY <2>1
  <2> HIDE DEF left
  <2>3. RoomIn(left, d) /\ SetTo(left, key, Entry(key), cache')
    BY <2>2 DEF StoredIn
  <2>4. Len(left) \in Nat /\ Len(cache) = Len(left) + d
    BY <2>3 DEF RoomIn
  <2>5. ASSUME NEW n \in 1..Len(left) PROVE n + d # i
    <3>1. cache'[n].key = left[n].key /\ n \in 1..Len(cache')
      BY <2>1, <2>3 DEF SetTo
    <3>2. left[n] = cache[n + d]
      BY <2>3 DEF RoomIn
    <3> QED BY <3>1, <3>2 DEF Goes
  <2>6. i = 1
    <3>1. d = 0 \/ d = 1
      OBVIOUS
    <3>2. i - d \notin 1..Len(left)
      BY <2>4, <2>5
    <3> QED BY <2>4, <3>1, <3>2
  <2>7. i < j
    <3>1. cache[i].expiresAt \in Nat
      BY PanelTypes, CacheNumbers
    <3>2. i # j
      BY <3>1
    <3> QED BY <2>6, <3>2
  <2> QED BY <2>7 DEF SearchInv, MapInv, OldestFirst
<1> QED BY <1>1, <1>2, <1>3, StepIs DEF CacheStep, Stores

(* For any queries, requests, lifetime and size of the cache: whichever way
   concurrent look-ups and stores order the Map, no fresh entry leaves it while
   one that expires sooner stays, but for one that was overwritten in place. *)
THEOREM OldestIsEvicted == SearchSpec => EvictionTakesTheOldest
<1>1. SearchInv /\ [SearchNext]_searchVars =>
        [\A i, j \in 1..Len(cache) :
           /\ cache[i].expiresAt > now
           /\ cache[j].expiresAt < cache[i].expiresAt
           /\ \A n \in 1..Len(cache') : cache'[n].key # cache[i].key
           => \/ \A n \in 1..Len(cache') : cache'[n].key # cache[j].key
              \/ cache[i].key \in refreshed]_cacheVars
  BY OldestGoes DEF Goes
<1> QED BY <1>1, SearchInitInv, SearchNextInv, PTL DEF SearchSpec, EvictionTakesTheOldest
=============================================================================
