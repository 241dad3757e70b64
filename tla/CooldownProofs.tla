----------------------------- MODULE CooldownProofs -----------------------------
(***************************************************************************)
(* Theorems about MajorCooldowns: the cached time never hides a cooldown    *)
(* that is due, and those that are due go in turn.                          *)
(***************************************************************************)
EXTENDS MajorCooldowns, FiniteSetTheorems, WellFoundedInduction, TLAPS

-----------------------------------------------------------------------------
(* The invariant. It is stated of a record like State, so that casts and updates can *)
(* be followed from record to record.                                                *)

CastType == [spell : Spells, ends : Int]
States ==
    [now : Int, gcdAt : Int, timer : [Timers -> Int], cast : CastType \cup {Nil},
     effect : SUBSET AtItsEnd, order : Seq(Mcds), minReady : Int, usages : [Mcds -> Nat],
     heard : [Mcds -> Int]]

\* The list holds each cooldown once, by the ready time it was last heard of and priority.
Whole(q) ==
    /\ q \in Seq(Mcds) /\ Len(q) = Len(Listed)
    /\ \A i, j \in 1..Len(q) : q[i] = q[j] => i = j
    /\ \A m \in Mcds : \E i \in 1..Len(q) : q[i] = m
Before(h, m, n) == h[m] < h[n] \/ (h[m] = h[n] /\ PriorityOf(m) >= PriorityOf(n))
InOrder(q, h) == \A i, j \in 1..Len(q) : i < j => Before(h, q[i], q[j])

\* The cached time is that of the first cooldown that autocast may use.
Cached(S) ==
    \A i \in 1..Len(S.order) : Autocasts(S.usages, S.order[i]) => S.minReady <= S.heard[S.order[i]]

Listing(S) == Whole(S.order) /\ InOrder(S.order, S.heard) /\ Cached(S)
Casting(S, t) == S.cast # Nil => S.cast.ends >= t

IndInv ==
    /\ State \in States /\ Listing(State) /\ Casting(State, now)
    /\ now \in Pull..Horizon /\ ops \in 0..MaxOps /\ willing \subseteq Mcds

-----------------------------------------------------------------------------
(* Ready times *)

\* The latest of two and of three times.
LEMMA LatestIsTime ==
  /\ \A a, b \in Int : Max({a, b}) \in Int /\ Max({a, b}) >= a
  /\ \A a, b, c \in Int : Max({a, b, c}) \in Int
<1>1. ASSUME NEW a \in Int, NEW b \in Int PROVE Max({a, b}) \in Int /\ Max({a, b}) >= a
  <2>1. \E x \in {a, b} : \A y \in {a, b} : x >= y
    BY <1>1
  <2> QED BY <2>1 DEF Max
<1>2. ASSUME NEW a \in Int, NEW b \in Int, NEW c \in Int PROVE Max({a, b, c}) \in Int
  <2>1. \E x \in {a, b, c} : \A y \in {a, b, c} : x >= y
    <3>1. CASE a >= b /\ a >= c
      BY <3>1
    <3>2. CASE b >= a /\ b >= c
      BY <3>2
    <3>3. CASE c >= a /\ c >= b
      BY <3>3
    <3> QED BY <3>1, <3>2, <3>3
  <2> QED BY <2>1 DEF Max
<1> QED BY <1>1, <1>2

\* A ready time is a time.
LEMMA ReadyAtIsTime ==
  ASSUME NEW T \in [Timers -> Int], NEW s \in Spells
  PROVE  ReadyAt(T, s) \in Int
<1> DEFINE X == {Pull} \cup {T[k] : k \in {CdOf(s), SharedOf(s)} \ {Nil}}
           a == IF CdOf(s) = Nil THEN Pull ELSE T[CdOf(s)]
           b == IF SharedOf(s) = Nil THEN Pull ELSE T[SharedOf(s)]
<1>1. CdOf(s) \in Timers \cup {Nil} /\ SharedOf(s) \in Timers \cup {Nil} /\ Pull \in Int
  BY MajorCooldownsAssumption
<1>2. a \in Int /\ b \in Int
  BY <1>1
<1>3. X = {Pull, a, b}
  OBVIOUS
<1>4. ReadyAt(T, s) = Max(X)
  BY DEF ReadyAt
<1> HIDE DEF X, a, b
<1> QED BY <1>1, <1>2, <1>3, <1>4, LatestIsTime

-----------------------------------------------------------------------------
(* Sorting *)

\* i stands behind j: as Sorted sees it.
Ahead(q, T, i, j) == GoesBefore(T, q[j], q[i]) \/ (j < i /\ ~GoesBefore(T, q[i], q[j]))
AllAhead(q, T, i) == {j \in DOMAIN q : Ahead(q, T, i, j)}
Place(q, T, i) == 1 + Cardinality(AllAhead(q, T, i))

\* Ready time a, priority b and place c stand behind u, v and w: the later time, of one time
\* the smaller priority, of both alike the later place.
Later(a, b, c, u, v, w) ==
    \/ u < a
    \/ u = a /\ v > b
    \/ u = a /\ v = b /\ w < c

\* What stands ahead of what is an order in which any two are comparable.
LEMMA AheadIsOrder ==
  ASSUME NEW T \in [Timers -> Int], NEW q \in Seq(Mcds)
  PROVE  \A i, j, k \in 1..Len(q) :
            /\ ~Ahead(q, T, i, i)
            /\ i # j => Ahead(q, T, i, j) \/ Ahead(q, T, j, i)
            /\ ~(Ahead(q, T, i, j) /\ Ahead(q, T, j, i))
            /\ Ahead(q, T, i, j) /\ Ahead(q, T, j, k) => Ahead(q, T, i, k)
<1> DEFINE r == [i \in 1..Len(q) |-> ReadyAt(T, q[i])]
           p == [i \in 1..Len(q) |-> PriorityOf(q[i])]
<1>1. \A i \in 1..Len(q) : q[i] \in Mcds /\ r[i] \in Int /\ p[i] \in Int /\ i \in Int
  <2> TAKE i \in 1..Len(q)
  <2>1. q[i] \in Mcds /\ q[i] \in Spells
    BY DEF Spells
  <2>2. PriorityOf(q[i]) \in Int
    BY <2>1, MajorCooldownsAssumption
  <2>3. ReadyAt(T, q[i]) \in Int
    BY <2>1, ReadyAtIsTime
  <2> QED BY <2>1, <2>2, <2>3
<1>2. \A i, j \in 1..Len(q) :
         Ahead(q, T, i, j) <=> \/ r[j] < r[i] \/ (r[j] = r[i] /\ p[j] > p[i])
                               \/ j < i /\ ~(r[i] < r[j] \/ (r[i] = r[j] /\ p[i] > p[j]))
  BY DEF Ahead, GoesBefore
<1> HIDE DEF r, p
<1> TAKE i, j, k \in 1..Len(q)
<1> DEFINE A(x, y) == \/ r[y] < r[x] \/ (r[y] = r[x] /\ p[y] > p[x])
                      \/ y < x /\ ~(r[x] < r[y] \/ (r[x] = r[y] /\ p[x] > p[y]))
<1>3. /\ r[i] \in Int /\ r[j] \in Int /\ r[k] \in Int /\ p[i] \in Int /\ p[j] \in Int /\ p[k] \in Int
      /\ i \in Int /\ j \in Int /\ k \in Int
  BY <1>1
<1>4. /\ ~A(i, i) /\ (i # j => A(i, j) \/ A(j, i)) /\ ~(A(i, j) /\ A(j, i))
      /\ A(i, j) /\ A(j, k) => A(i, k)
  <2>1. ~A(i, i)
    BY <1>3
  <2>2. A(i, j) <=> Later(r[i], p[i], i, r[j], p[j], j)
    BY <1>3 DEF Later
  <2>3. A(j, i) <=> Later(r[j], p[j], j, r[i], p[i], i)
    BY <1>3 DEF Later
  <2>4. A(j, k) <=> Later(r[j], p[j], j, r[k], p[k], k)
    BY <1>3 DEF Later
  <2>5. A(i, k) <=> Later(r[i], p[i], i, r[k], p[k], k)
    BY <1>3 DEF Later
  <2> HIDE DEF A
  <2>6. i # j => Later(r[i], p[i], i, r[j], p[j], j) \/ Later(r[j], p[j], j, r[i], p[i], i)
    BY <1>3 DEF Later
  <2>7. ~(Later(r[i], p[i], i, r[j], p[j], j) /\ Later(r[j], p[j], j, r[i], p[i], i))
    BY <1>3 DEF Later
  <2>8. ASSUME Later(r[i], p[i], i, r[j], p[j], j), Later(r[j], p[j], j, r[k], p[k], k)
        PROVE  Later(r[i], p[i], i, r[k], p[k], k)
    <3>1. CASE r[j] < r[i]
      BY <1>3, <2>8, <3>1 DEF Later
    <3>2. CASE r[j] = r[i] /\ p[j] > p[i]
      BY <1>3, <2>8, <3>2 DEF Later
    <3>3. CASE r[j] = r[i] /\ p[j] = p[i] /\ j < i
      BY <1>3, <2>8, <3>3 DEF Later
    <3> QED BY <2>8, <3>1, <3>2, <3>3 DEF Later
  <2> QED BY <2>1, <2>2, <2>3, <2>4, <2>5, <2>6, <2>7, <2>8
<1>5. /\ Ahead(q, T, i, i) <=> A(i, i)
      /\ Ahead(q, T, i, j) <=> A(i, j)
      /\ Ahead(q, T, j, i) <=> A(j, i)
      /\ Ahead(q, T, j, k) <=> A(j, k)
      /\ Ahead(q, T, i, k) <=> A(i, k)
  BY <1>2
<1> HIDE DEF A
<1> QED BY <1>4, <1>5

\* The list sorted is the list in another order, and in order.
LEMMA SortedFacts ==
  ASSUME NEW T \in [Timers -> Int], NEW q, Whole(q), NEW h, \A m \in Mcds : h[m] = ReadyAt(T, m)
  PROVE  Whole(Sorted(q, T)) /\ InOrder(Sorted(q, T), h)
<1> DEFINE n == Len(q)
           place == [i \in DOMAIN q |-> Place(q, T, i)]
           at == [k \in DOMAIN q |-> CHOOSE i \in DOMAIN q : place[i] = k]
           r == Sorted(q, T)
<1>1. q \in Seq(Mcds) /\ n \in Nat /\ DOMAIN q = 1..n
  BY DEF Whole
<1>2. r = [k \in DOMAIN q |-> q[at[k]]]
  BY DEF Sorted, Place, AllAhead, Ahead
<1>3. IsFiniteSet(1..n) /\ Cardinality(1..n) = n
  <2> HIDE DEF n
  <2>1. n \in Int /\ 1 \in Int
    BY <1>1
  <2>2. IsFiniteSet(1..n) /\ Cardinality(1..n) = IF 1 > n THEN 0 ELSE n - 1 + 1
    BY <2>1, FS_Interval
  <2> QED BY <1>1, <2>2
<1>4. ASSUME NEW i \in 1..n
      PROVE  /\ IsFiniteSet(AllAhead(q, T, i)) /\ Cardinality(AllAhead(q, T, i)) \in Nat
             /\ Place(q, T, i) \in 1..n
  <2>1. AllAhead(q, T, i) \in SUBSET ((1..n) \ {i})
    BY <1>1, AheadIsOrder DEF AllAhead
  <2>2. IsFiniteSet((1..n) \ {i}) /\ Cardinality((1..n) \ {i}) = n - 1
    BY <1>3, FS_RemoveElement
  <2>3. /\ IsFiniteSet(AllAhead(q, T, i)) /\ Cardinality(AllAhead(q, T, i)) \in Nat
        /\ Cardinality(AllAhead(q, T, i)) <= n - 1
    BY <2>1, <2>2, FS_Subset, FS_CardinalityType
  <2> QED BY <1>1, <2>3 DEF Place
<1>5. ASSUME NEW i \in 1..n, NEW j \in 1..n, Ahead(q, T, i, j)
      PROVE  Place(q, T, j) < Place(q, T, i)
  <2>1. AllAhead(q, T, j) \in SUBSET (AllAhead(q, T, i) \ {j})
    BY <1>1, <1>5, AheadIsOrder DEF AllAhead
  <2>2. j \in AllAhead(q, T, i)
    BY <1>1, <1>5 DEF AllAhead
  <2>3. /\ IsFiniteSet(AllAhead(q, T, i) \ {j})
        /\ Cardinality(AllAhead(q, T, i) \ {j}) = Cardinality(AllAhead(q, T, i)) - 1
    BY <1>4, <2>2, FS_RemoveElement
  <2>4. Cardinality(AllAhead(q, T, j)) <= Cardinality(AllAhead(q, T, i)) - 1
    BY <2>1, <2>3, FS_Subset
  <2> QED BY <1>4, <2>4 DEF Place
<1>6. place \in Injection(1..n, 1..n)
  <2>1. place \in [1..n -> 1..n]
    BY <1>1, <1>4
  <2>2. ASSUME NEW i \in 1..n, NEW j \in 1..n, place[i] = place[j] PROVE i = j
    <3>1. Place(q, T, i) = Place(q, T, j) /\ Place(q, T, i) \in Int
      BY <1>1, <1>4, <2>2
    <3>2. ~Ahead(q, T, i, j) /\ ~Ahead(q, T, j, i)
      BY <1>5, <3>1
    <3> QED BY <1>1, <3>2, AheadIsOrder
  <2> HIDE DEF place
  <2> QED BY <2>1, <2>2 DEF Injection, IsInjective
<1>7. place \in Surjection(1..n, 1..n)
  <2> HIDE DEF place
  <2> QED BY <1>3, <1>6, FS_Injection
<1>8. ASSUME NEW k \in 1..n PROVE at[k] \in 1..n /\ Place(q, T, at[k]) = k
  <2>1. \E i \in 1..n : place[i] = k
    <3> HIDE DEF place
    <3> QED BY <1>7 DEF Surjection
  <2>2. at[k] \in 1..n /\ place[at[k]] = k
    BY <1>1, <2>1
  <2> QED BY <1>1, <2>2
<1> HIDE DEF place, at, r
<1>9. r \in Seq(Mcds) /\ Len(r) = n /\ \A k \in 1..n : r[k] = q[at[k]]
  BY <1>1, <1>2, <1>8
<1>10. Whole(r)
  <2>1. ASSUME NEW i \in 1..n, NEW j \in 1..n, r[i] = r[j] PROVE i = j
    <3>1. at[i] = at[j]
      <4>1. at[i] \in 1..n /\ at[j] \in 1..n /\ q[at[i]] = q[at[j]]
        BY <1>8, <1>9, <2>1
      <4> QED BY <4>1 DEF Whole
    <3> QED BY <1>8, <3>1
  <2>2. ASSUME NEW m \in Mcds PROVE \E k \in 1..n : r[k] = m
    <3>1. PICK i \in 1..n : q[i] = m
      BY DEF Whole
    <3> DEFINE k == Place(q, T, i)
    <3>2. k \in 1..n /\ at[k] \in 1..n /\ Place(q, T, at[k]) = k
      BY <1>4, <1>8
    <3>3. at[k] = i
      <4>1. ~Ahead(q, T, i, at[k]) /\ ~Ahead(q, T, at[k], i)
        BY <1>5, <3>2
      <4> QED BY <1>1, <3>2, <4>1, AheadIsOrder
    <3> QED BY <1>9, <3>1, <3>2, <3>3
  <2> QED BY <1>9, <2>1, <2>2 DEF Whole
<1>11. InOrder(r, h)
  <2> SUFFICES ASSUME NEW k \in 1..n, NEW l \in 1..n, k < l PROVE Before(h, r[k], r[l])
    BY <1>9 DEF InOrder
  <2> DEFINE i == at[k]
             j == at[l]
  <2>1. i \in 1..n /\ j \in 1..n /\ Place(q, T, i) = k /\ Place(q, T, j) = l
    BY <1>8
  <2>2. ~Ahead(q, T, i, j) /\ i # j
    BY <1>5, <2>1
  <2>3. Ahead(q, T, j, i)
    BY <1>1, <2>1, <2>2, AheadIsOrder
  <2>4. r[k] = q[i] /\ r[l] = q[j] /\ q[i] \in Mcds /\ q[j] \in Mcds
    BY <1>1, <1>9, <2>1
  <2>5. h[q[i]] = ReadyAt(T, q[i]) /\ h[q[j]] = ReadyAt(T, q[j]) /\ h[q[i]] \in Int /\ h[q[j]] \in Int
    BY <2>4, ReadyAtIsTime DEF Spells
  <2>6. PriorityOf(q[i]) \in Int /\ PriorityOf(q[j]) \in Int
    BY <2>4, MajorCooldownsAssumption
  <2> QED BY <2>3, <2>4, <2>5, <2>6 DEF Ahead, GoesBefore, Before
<1> QED BY <1>10, <1>11 DEF r

-----------------------------------------------------------------------------
(* What updates, casts and their ends make of a record *)

Books(S) == <<S.order, S.minReady, S.usages, S.heard>>

\* A set of numbers with a member has a least one.
HasLeast(T) == \E m \in T : \A k \in T : m <= k

\* The numbers are well ordered.
LEMMA LeastNatural == ASSUME NEW T \in SUBSET Nat, T # {} PROVE HasLeast(T)
<1> DEFINE R == OpToRel(<, Nat)
<1>1. \E m \in T : \A k \in T : ~(<<k, m>> \in R)
  <2>1. IsWellFoundedOn(R, Nat)
    BY NatLessThanWellFounded
  <2> HIDE DEF R
  <2> QED BY <2>1, WFMin
<1>2. PICK m \in T : \A k \in T : ~(<<k, m>> \in OpToRel(<, Nat))
  BY <1>1
<1>3. ASSUME NEW k \in T PROVE m <= k
  <2>1. ~(<<k, m>> \in {ss \in Nat \X Nat : ss[1] < ss[2]})
    BY <1>2 DEF OpToRel
  <2>2. ~(k < m)
    BY <2>1
  <2> QED BY <2>2
<1> QED BY <1>3 DEF HasLeast

\* The least of a set of positions is one of them.
LEMMA FirstOf ==
  ASSUME NEW T \in SUBSET Nat, T # {}
  PROVE  Min(T) \in T /\ \A k \in T : Min(T) <= k
BY LeastNatural DEF HasLeast, Min

\* The time that is looked up is no later than that of any cooldown that autocast may use.
LEMMA MinReadyFacts ==
  ASSUME NEW T \in [Timers -> Int], NEW U \in [Mcds -> Nat], NEW q, Whole(q),
         NEW h \in [Mcds -> Int], \A m \in Mcds : h[m] = ReadyAt(T, m), InOrder(q, h)
  PROVE  /\ MinReady(q, T, U) \in Int
         /\ \A i \in 1..Len(q) : Autocasts(U, q[i]) => MinReady(q, T, U) <= h[q[i]]
<1> DEFINE able == {i \in DOMAIN q : Autocasts(U, q[i])}
           first == Min(able)
<1>1. q \in Seq(Mcds) /\ DOMAIN q = 1..Len(q) /\ Len(q) \in Nat
  BY DEF Whole
<1>2. able \in SUBSET Nat
  BY <1>1
<1>3. MinReady(q, T, U) = IF able = {} THEN Never ELSE ReadyAt(T, q[first])
  BY DEF MinReady
<1>4. \A i \in 1..Len(q) : Autocasts(U, q[i]) => i \in able
  BY <1>1
<1>5. able # {} => first \in 1..Len(q) /\ \A i \in able : first <= i
  <2>1. able \subseteq 1..Len(q)
    BY <1>1
  <2> HIDE DEF able
  <2> QED BY <1>2, <2>1, FirstOf
<1> HIDE DEF able, first
<1>6. CASE able = {}
  BY <1>3, <1>4, <1>6, MajorCooldownsAssumption
<1>7. CASE able # {}
  <2>1. first \in 1..Len(q) /\ q[first] \in Mcds /\ MinReady(q, T, U) = h[q[first]]
    BY <1>1, <1>3, <1>5, <1>7
  <2>2. ASSUME NEW i \in 1..Len(q), Autocasts(U, q[i]) PROVE h[q[first]] <= h[q[i]]
    <3>1. first <= i /\ q[i] \in Mcds
      BY <1>1, <1>4, <1>5, <1>7, <2>2
    <3>2. h[q[first]] \in Int /\ h[q[i]] \in Int
      BY <2>1, <3>1
    <3>3. first < i => Before(h, q[first], q[i])
      BY <2>1 DEF InOrder
    <3>4. first = i \/ first < i
      BY <2>1, <3>1
    <3> QED BY <3>2, <3>3, <3>4 DEF Before
  <2> QED BY <2>1, <2>2
<1> QED BY <1>6, <1>7

\* An update puts the list and the cached time in order, and touches nothing else.
LEMMA UpdateFacts ==
  ASSUME NEW S \in States, Whole(S.order)
  PROVE  LET R == Hear(UpdateMajorCooldowns(S))
         IN  /\ R \in States /\ Listing(R)
             /\ R.now = S.now /\ R.gcdAt = S.gcdAt /\ R.timer = S.timer /\ R.cast = S.cast
             /\ R.effect = S.effect /\ R.usages = S.usages
<1> DEFINE q == Sorted(S.order, S.timer)
           time == MinReady(q, S.timer, S.usages)
           h == [m \in Mcds |-> ReadyAt(S.timer, m)]
           R == Hear(UpdateMajorCooldowns(S))
<1>1. S.timer \in [Timers -> Int] /\ S.usages \in [Mcds -> Nat]
  BY DEF States
<1>2. h \in [Mcds -> Int] /\ \A m \in Mcds : h[m] = ReadyAt(S.timer, m)
  BY <1>1, ReadyAtIsTime DEF Spells
<1>3. R = [[S EXCEPT !.order = q, !.minReady = time] EXCEPT !.heard = h]
  BY DEF Hear, UpdateMajorCooldowns
<1> HIDE DEF h, R
<1>4. Whole(q) /\ InOrder(q, h)
  BY <1>1, <1>2, SortedFacts
<1> HIDE DEF q
<1>5. /\ time \in Int
      /\ \A i \in 1..Len(q) : Autocasts(S.usages, q[i]) => time <= h[q[i]]
  BY <1>1, <1>2, <1>4, MinReadyFacts
<1> HIDE DEF time
<1>6. q \in Seq(Mcds)
  BY <1>4 DEF Whole
<1>7. /\ R \in States /\ R.order = q /\ R.minReady = time /\ R.heard = h
      /\ R.now = S.now /\ R.gcdAt = S.gcdAt /\ R.timer = S.timer /\ R.cast = S.cast
      /\ R.effect = S.effect /\ R.usages = S.usages
  BY <1>2, <1>3, <1>5, <1>6 DEF States
<1>8. Listing(R)
  BY <1>4, <1>5, <1>7 DEF Listing, Cached
<1> QED BY <1>7, <1>8 DEF R

\* Whatever is left of a record when only its timers, its effects or its GCD are set.
SameList(R, S) ==
    /\ R.order = S.order /\ R.minReady = S.minReady /\ R.usages = S.usages /\ R.heard = S.heard
Alike(R, S) == SameList(R, S) /\ R.now = S.now /\ R.cast = S.cast

\* A list that is left alone stays as it is.
LEMMA ListingStays ==
  ASSUME NEW R, NEW S, SameList(R, S), Listing(S)
  PROVE  Listing(R)
BY DEF SameList, Listing, Cached

\* What setting one part of a record does.
LEMMA PartFacts ==
  ASSUME NEW S \in States
  PROVE  /\ \A T \in [Timers -> Int] : [S EXCEPT !.timer = T] \in States /\ Alike([S EXCEPT !.timer = T], S)
         /\ \A e \in SUBSET AtItsEnd : [S EXCEPT !.effect = e] \in States /\ Alike([S EXCEPT !.effect = e], S)
         /\ \A t \in Int : /\ [S EXCEPT !.gcdAt = t] \in States
                           /\ Alike([S EXCEPT !.gcdAt = t], S)
BY DEF States, Alike, SameList

\* What setting the hardcast or the usages of a record does.
LEMMA CastPartFacts ==
  ASSUME NEW S \in States
  PROVE  /\ \A c \in CastType \cup {Nil} :
              LET R == [S EXCEPT !.cast = c]
              IN  R \in States /\ SameList(R, S) /\ R.now = S.now /\ R.cast = c
         /\ \A U \in [Mcds -> Nat] :
              LET R == [S EXCEPT !.usages = U]
              IN  R \in States /\ R.order = S.order /\ R.now = S.now /\ R.cast = S.cast
BY DEF States, SameList

\* A timer that is set changes nothing but the timers.
LEMMA SetTimerFacts ==
  ASSUME NEW S \in States, NEW k \in Timers \cup {Nil}, NEW t \in Int
  PROVE  SetTimer(S, k, t) \in States /\ Alike(SetTimer(S, k, t), S)
<1>1. CASE k = Nil
  BY <1>1 DEF SetTimer, Alike, SameList
<1>2. CASE k # Nil
  <2> DEFINE T == [S.timer EXCEPT ![k] = t]
  <2>1. T \in [Timers -> Int]
    BY <1>2 DEF States
  <2>2. SetTimer(S, k, t) = [S EXCEPT !.timer = T]
    BY <1>2 DEF SetTimer, States
  <2> HIDE DEF T
  <2> QED BY <2>1, <2>2, PartFacts
<1> QED BY <1>1, <1>2

\* A spell that completes keeps the list in order, and the hardcast as it was.
LEMMA CompletedFacts ==
  ASSUME NEW S \in States, Listing(S), NEW s \in Spells, now \in Int
  PROVE  LET R == Completed(S, s)
         IN  R \in States /\ Listing(R) /\ R.now = S.now /\ R.cast = S.cast /\ R.usages = S.usages
<1> DEFINE own == IF CdLength(s) > 0 THEN SetTimer(S, CdOf(s), now + CdLength(s)) ELSE S
           A == TriggerCooldown(S, s)
           finished == {CdOf(r) : r \in Resets(s)}
           T == [k \in Timers |-> IF k \in finished THEN 0 ELSE A.timer[k]]
           B == [A EXCEPT !.timer = T]
           e == IF s \in AtItsEnd THEN B.effect \cup {s} ELSE B.effect
           C == [B EXCEPT !.effect = e]
           R == Completed(S, s)
<1>1. /\ CdOf(s) \in Timers \cup {Nil} /\ SharedOf(s) \in Timers \cup {Nil}
      /\ now + CdLength(s) \in Int /\ now + SharedLength(s) \in Int
  BY MajorCooldownsAssumption
<1>2. own \in States /\ Alike(own, S)
  <2>1. S \in States /\ Alike(S, S)
    BY DEF Alike, SameList
  <2> QED BY <1>1, <2>1, SetTimerFacts
<1>3. A = SetTimer(own, SharedOf(s), now + SharedLength(s))
  BY DEF TriggerCooldown
<1> HIDE DEF own, A
<1>4. A \in States /\ Alike(A, own)
  BY <1>1, <1>2, <1>3, SetTimerFacts
<1> HIDE DEF finished
<1>5. T \in [Timers -> Int]
  BY <1>4 DEF States
<1>6. B = [A EXCEPT !.timer = [k \in Timers |-> IF k \in finished THEN 0 ELSE @[k]]]
  BY <1>4 DEF States
<1> HIDE DEF T
<1>7. B \in States /\ Alike(B, A)
  BY <1>4, <1>5, PartFacts
<1>8. R = IF s \in Potions /\ now < 0 THEN Hear(UpdateMajorCooldowns(C)) ELSE C
  <2>1. C = [B EXCEPT !.effect = IF s \in AtItsEnd THEN @ \cup {s} ELSE @]
    BY <1>7 DEF States
  <2> HIDE DEF B, C
  <2> QED BY <1>6, <2>1 DEF Completed, ApplyEffects, finished, A
<1> HIDE DEF B, R
<1>9. C \in States /\ Alike(C, B)
  <2>1. e \in SUBSET AtItsEnd
    BY <1>7 DEF States
  <2> HIDE DEF e
  <2> QED BY <1>7, <2>1, PartFacts
<1> HIDE DEF e, C
<1>10. Alike(C, S)
  BY <1>2, <1>4, <1>7, <1>9 DEF Alike, SameList
<1>11. Listing(C)
  BY <1>10, ListingStays DEF Alike
<1>12. CASE ~(s \in Potions /\ now < 0)
  BY <1>8, <1>9, <1>10, <1>11, <1>12 DEF Alike, SameList, R
<1>13. CASE s \in Potions /\ now < 0
  <2>1. R = Hear(UpdateMajorCooldowns(C))
    BY <1>8, <1>13
  <2>2. Whole(C.order)
    BY <1>11 DEF Listing
  <2>3. /\ R \in States /\ Listing(R) /\ R.now = C.now /\ R.cast = C.cast /\ R.usages = C.usages
    BY <1>9, <2>1, <2>2, UpdateFacts
  <2> QED BY <1>10, <2>3 DEF Alike, SameList, R
<1> QED BY <1>12, <1>13 DEF R

\* A spell that is cast keeps the list in order; what it leaves of a hardcast ends later.
LEMMA CastFacts ==
  ASSUME NEW S \in States, Listing(S), NEW s \in Spells, now \in Int, Casting(S, now)
  PROVE  LET R == Cast(S, s)
         IN  R \in States /\ Listing(R) /\ R.now = S.now /\ Casting(R, now)
<1> DEFINE g == IF EffectiveTime(s) = 0 THEN S.gcdAt ELSE Max({S.gcdAt, now + EffectiveTime(s)})
           T == [S EXCEPT !.gcdAt = g]
           c == [spell |-> s, ends |-> now + CastTimeOf(s)]
           R == Cast(S, s)
<1>1. CastTimeOf(s) \in Nat /\ Gcd \in Int /\ Nil \notin CastType
  BY MajorCooldownsAssumption DEF CastType
<1>2. EffectiveTime(s) \in Int
  BY <1>1, LatestIsTime DEF EffectiveTime
<1>3. g \in Int
  <2>1. S.gcdAt \in Int /\ now + EffectiveTime(s) \in Int
    BY <1>2 DEF States
  <2> QED BY <2>1, LatestIsTime
<1>4. T = [S EXCEPT !.gcdAt = IF EffectiveTime(s) = 0 THEN @ ELSE Max({@, now + EffectiveTime(s)})]
  BY DEF States
<1> HIDE DEF g
<1>5. T \in States /\ Alike(T, S)
  BY <1>3, PartFacts
<1> HIDE DEF T
<1>6. Listing(T)
  BY <1>5, ListingStays DEF Alike
<1>7. R = IF CastTimeOf(s) = 0 THEN Completed(T, s) ELSE [T EXCEPT !.cast = c]
  BY <1>4 DEF Cast
<1> HIDE DEF R
<1>8. CASE CastTimeOf(s) = 0
  <2>1. R = Completed(T, s)
    BY <1>7, <1>8
  <2>2. R \in States /\ Listing(R) /\ R.now = T.now /\ R.cast = T.cast
    BY <1>5, <1>6, <2>1, CompletedFacts
  <2> QED BY <1>5, <2>2 DEF Alike, SameList, Casting, R
<1>9. CASE CastTimeOf(s) # 0
  <2>1. c \in CastType /\ c.ends >= now
    BY <1>1 DEF CastType
  <2> HIDE DEF c
  <2>2. R = [T EXCEPT !.cast = c]
    BY <1>7, <1>9
  <2>3. R \in States /\ SameList(R, T) /\ R.now = T.now /\ R.cast = c
    BY <1>5, <2>1, <2>2, CastPartFacts
  <2>4. Listing(R)
    BY <1>6, <2>3, ListingStays
  <2> QED BY <1>5, <2>1, <2>3, <2>4 DEF Alike, Casting, R
<1> QED BY <1>8, <1>9 DEF R

-----------------------------------------------------------------------------
(* The invariant is kept *)

\* What a record must be for the state it becomes.
Fine(S, t) == S \in States /\ Listing(S) /\ S.now = t /\ Casting(S, t)

\* A state that becomes such a record is such a record.
LEMMA BecomesFine ==
  ASSUME NEW S, Fine(S, now), Becomes(S), IndInv, ops' \in 0..MaxOps, willing' \subseteq Mcds
  PROVE  IndInv'
<1>1. /\ now' = S.now /\ gcdAt' = S.gcdAt /\ timer' = S.timer /\ cast' = S.cast
      /\ effect' = S.effect /\ order' = S.order /\ minReady' = S.minReady
      /\ usages' = S.usages /\ heard' = S.heard
  BY DEF Becomes
<1>2. State' = S
  BY <1>1 DEF State, Fine, States
<1>3. now' = now /\ now \in Pull..Horizon
  BY <1>1 DEF Fine, IndInv
<1> QED BY <1>2, <1>3 DEF IndInv, Fine, Listing, Whole, InOrder, Before, Cached, Casting, Autocasts, States, CastType, Mcds, Spells

\* What the state is under the invariant.
LEMMA StateFacts ==
  ASSUME IndInv
  PROVE  /\ Fine(State, now) /\ now \in Int /\ State.now = now /\ State.cast = cast
         /\ State.gcdAt = gcdAt /\ State.effect = effect /\ State.usages = usages
         /\ State.order = order /\ State.minReady = minReady /\ State.heard = heard
         /\ State.timer = timer
         /\ gcdAt \in Int /\ timer \in [Timers -> Int] /\ cast \in CastType \cup {Nil}
         /\ effect \subseteq AtItsEnd /\ usages \in [Mcds -> Nat] /\ heard \in [Mcds -> Int]
         /\ order \in Seq(Mcds) /\ minReady \in Int
<1>1. State.now = now
  BY DEF State
<1>2. Pull \in Int /\ Horizon \in Int
  BY MajorCooldownsAssumption
<1>3. now \in Int
  BY <1>2 DEF IndInv
<1> QED BY <1>1, <1>3 DEF IndInv, Fine, State, States

\* The initial record.
LEMMA StartFine == Fine(Start, Pull)
<1> DEFINE h == [m \in Mcds |-> ReadyAt(Fresh, m)]
           q == Sorted(Listed, Fresh)
           time == MinReady(q, Fresh, NoUsages)
<1>1. /\ Listed \in Seq(Mcds) /\ Cardinality(Mcds) = Len(Listed) /\ Pull \in Int
  BY MajorCooldownsAssumption
<1>2. Whole(Listed)
  <2> DEFINE n == Len(Listed)
  <2>1. n \in Nat /\ Mcds = {Listed[i] : i \in 1..n}
    BY <1>1 DEF Mcds, Range
  <2>2. IsFiniteSet(1..n) /\ Cardinality(1..n) = n
    <3> HIDE DEF n
    <3>1. n \in Int /\ 1 \in Int
      BY <2>1
    <3>2. IsFiniteSet(1..n) /\ Cardinality(1..n) = IF 1 > n THEN 0 ELSE n - 1 + 1
      BY <3>1, FS_Interval
    <3> QED BY <2>1, <3>2
  <2> DEFINE f == [i \in 1..n |-> Listed[i]]
  <2>3. f \in Surjection(1..n, Mcds)
    BY <1>1, <2>1 DEF Surjection
  <2>4. Cardinality(Mcds) = n
    BY <1>1
  <2> HIDE DEF f, n
  <2>5. f \in Injection(1..n, Mcds)
    BY <2>2, <2>3, <2>4, FS_Surjection
  <2>6. \A i, j \in 1..n : f[i] = f[j] => i = j
    BY <2>5 DEF Injection, IsInjective
  <2> QED BY <1>1, <2>1, <2>6 DEF Whole, f, n
<1>3. Fresh \in [Timers -> Int] /\ NoUsages \in [Mcds -> Nat]
  BY <1>1 DEF Fresh, NoUsages
<1>4. h \in [Mcds -> Int] /\ \A m \in Mcds : h[m] = ReadyAt(Fresh, m)
  BY <1>3, ReadyAtIsTime DEF Spells
<1>5. /\ Start.now = Pull /\ Start.gcdAt = Pull /\ Start.timer = Fresh /\ Start.cast = Nil
      /\ Start.effect = {} /\ Start.order = q /\ Start.minReady = time /\ Start.usages = NoUsages
      /\ Start.heard = h
      /\ Start = [now |-> Pull, gcdAt |-> Pull, timer |-> Fresh, cast |-> Nil, effect |-> {},
                  order |-> q, minReady |-> time, usages |-> NoUsages, heard |-> h]
  BY DEF Start
<1> HIDE DEF h
<1>6. Whole(q) /\ InOrder(q, h)
  BY <1>2, <1>3, <1>4, SortedFacts
<1> HIDE DEF q
<1>7. time \in Int /\ \A i \in 1..Len(q) : Autocasts(NoUsages, q[i]) => time <= h[q[i]]
  BY <1>3, <1>4, <1>6, MinReadyFacts
<1> HIDE DEF time
<1>8. q \in Seq(Mcds)
  BY <1>6 DEF Whole
<1>9. Start \in States
  BY <1>1, <1>3, <1>4, <1>5, <1>7, <1>8 DEF States
<1>10. Listing(Start)
  BY <1>5, <1>6, <1>7 DEF Listing, Cached
<1> QED BY <1>5, <1>9, <1>10 DEF Fine, Casting

\* A look of the rotation uses a cooldown.
LEMMA AutocastKeeps == ASSUME IndInv, Autocast PROVE IndInv'
<1> DEFINE m == FirstReady
           C == Cast(State, m)
           U == [C.usages EXCEPT ![m] = @ + 1]
           V == [C EXCEPT !.usages = U]
           R == Hear(UpdateMajorCooldowns(V))
<1>1. m \in Mcds
  <2> DEFINE due == {i \in DOMAIN order : Due(order[i])}
  <2>1. m = IF now < minReady \/ due = {} THEN Nil ELSE order[Min(due)]
    BY DEF FirstReady
  <2>2. m # Nil
    BY DEF Autocast
  <2>3. order \in Seq(Mcds) /\ DOMAIN order = 1..Len(order) /\ Len(order) \in Nat
    BY StateFacts
  <2>4. due \subseteq DOMAIN order /\ due \in SUBSET Nat
    BY <2>3
  <2> HIDE DEF due, m
  <2>5. Min(due) \in DOMAIN order
    BY <2>1, <2>2, <2>4, FirstOf
  <2> QED BY <2>1, <2>2, <2>3, <2>5
<1>2. Becomes(Hear(UpdateMajorCooldowns(Used(State, m))))
  BY DEF Autocast
<1> HIDE DEF m
<1>3. C \in States /\ Listing(C) /\ C.now = now /\ Casting(C, now)
  BY <1>1, StateFacts, CastFacts DEF Fine, Spells
<1>4. Used(State, m) = V
  BY <1>1, <1>3 DEF Used, States
<1> HIDE DEF C
<1>5. U \in [Mcds -> Nat]
  BY <1>1, <1>3 DEF States
<1> HIDE DEF U
<1>6. V \in States /\ V.order = C.order /\ V.now = C.now /\ V.cast = C.cast
  BY <1>3, <1>5, CastPartFacts
<1> HIDE DEF V
<1>7. R \in States /\ Listing(R) /\ R.now = V.now /\ R.cast = V.cast
  BY <1>3, <1>6, UpdateFacts DEF Listing
<1>8. Fine(R, now)
  BY <1>3, <1>6, <1>7 DEF Fine, Casting
<1> HIDE DEF R
<1>9. ops' \in 0..MaxOps /\ willing' \subseteq Mcds
  BY DEF Autocast, IndInv
<1>10. Becomes(R)
  BY <1>2, <1>4 DEF R
<1> QED BY <1>8, <1>9, <1>10, BecomesFine

\* What the bounded acts leave.
LEMMA ActsFacts == ASSUME IndInv, Acts PROVE ops' \in 0..MaxOps
BY MajorCooldownsAssumption DEF Acts, IndInv

\* The rotation casts a spell of its own.
LEMMA CastOwnKeeps == ASSUME IndInv, NEW s \in Own, CastOwn(s) PROVE IndInv'
<1> DEFINE R == Cast(State, s)
<1>1. R \in States /\ Listing(R) /\ R.now = now /\ Casting(R, now)
  BY StateFacts, CastFacts DEF Fine, Spells
<1>2. Becomes(R) /\ ops' \in 0..MaxOps /\ willing' \subseteq Mcds
  BY ActsFacts DEF CastOwn, IndInv
<1> HIDE DEF R
<1> QED BY <1>1, <1>2, BecomesFine DEF Fine

\* A hardcast is no more.
LEMMA CastGone ==
  ASSUME IndInv
  PROVE  Fine([State EXCEPT !.cast = Nil], now)
<1> DEFINE R == [State EXCEPT !.cast = Nil]
<1>1. Fine(State, now) /\ State \in States
  BY StateFacts DEF Fine
<1>2. R \in States /\ SameList(R, State) /\ R.now = State.now /\ R.cast = Nil
  BY <1>1, CastPartFacts
<1>3. Listing(R)
  BY <1>1, <1>2, ListingStays DEF Fine
<1> HIDE DEF R
<1>4. Fine(R, now)
  BY <1>1, <1>2, <1>3 DEF Fine, Casting
<1> QED BY <1>4 DEF R

\* A hardcast lands.
LEMMA LandKeeps == ASSUME IndInv, Land PROVE IndInv'
<1> DEFINE B == [State EXCEPT !.cast = Nil]
           R == Completed(B, cast.spell)
<1>1. Fine(B, now) /\ B.cast = Nil
  BY CastGone, StateFacts DEF Fine, States
<1> HIDE DEF B
<1>2. cast.spell \in Spells
  BY StateFacts DEF Land, CastType
<1>3. R \in States /\ Listing(R) /\ R.now = B.now /\ R.cast = B.cast
  BY <1>1, <1>2, CompletedFacts, StateFacts DEF Fine
<1>4. Becomes(R)
  BY DEF Land, B
<1>5. ops' \in 0..MaxOps /\ willing' \subseteq Mcds
  BY DEF Land, Keeps, IndInv
<1> HIDE DEF R
<1> QED BY <1>1, <1>3, <1>4, <1>5, BecomesFine DEF Fine, Casting

\* A hardcast is cut off.
LEMMA InterruptKeeps == ASSUME IndInv, Interrupt PROVE IndInv'
<1> DEFINE B == [State EXCEPT !.cast = Nil]
           R == [B EXCEPT !.gcdAt = now + Reaction]
<1>1. Fine(B, now)
  BY CastGone
<1>2. Becomes(R)
  BY DEF Interrupt
<1> HIDE DEF B
<1>3. now + Reaction \in Int
  BY StateFacts, MajorCooldownsAssumption
<1>4. R \in States /\ Alike(R, B)
  BY <1>1, <1>3, PartFacts DEF Fine
<1>5. Fine(R, now)
  BY <1>1, <1>4, ListingStays DEF Fine, Alike, Casting
<1>6. ops' \in 0..MaxOps /\ willing' \subseteq Mcds
  BY ActsFacts DEF Interrupt, IndInv
<1> HIDE DEF R
<1> QED BY <1>2, <1>5, <1>6, BecomesFine

\* A hardcast comes to nothing.
LEMMA FizzleKeeps == ASSUME IndInv, Fizzle PROVE IndInv'
<1>1. Becomes([State EXCEPT !.cast = Nil]) /\ ops' \in 0..MaxOps /\ willing' \subseteq Mcds
  BY ActsFacts DEF Fizzle, IndInv
<1> QED BY <1>1, CastGone, BecomesFine

\* An effect ends, and its cooldown starts.
LEMMA EffectEndsKeeps == ASSUME IndInv, NEW s \in AtItsEnd, EffectEnds(s) PROVE IndInv'
<1> DEFINE e == effect \ {s}
           B == [State EXCEPT !.effect = e]
           C == SetTimer(B, CdOf(s), now + CdLength(s))
           R == Hear(UpdateMajorCooldowns(C))
<1>1. s \in Spells /\ CdOf(s) \in Timers \cup {Nil} /\ now + CdLength(s) \in Int
  <2>1. s \in Spells
    BY MajorCooldownsAssumption
  <2>2. CdLength(s) \in Int /\ CdOf(s) \in Timers \cup {Nil}
    BY <2>1, MajorCooldownsAssumption
  <2> QED BY <2>1, <2>2, StateFacts
<1>2. Fine(State, now) /\ e \in SUBSET AtItsEnd /\ State.effect = effect
  BY StateFacts
<1>3. Becomes(R)
  BY <1>2 DEF EffectEnds, Fine, States
<1> HIDE DEF e
<1>4. B \in States /\ Alike(B, State)
  BY <1>2, PartFacts DEF Fine
<1> HIDE DEF B
<1>5. C \in States /\ Alike(C, B)
  BY <1>1, <1>4, SetTimerFacts
<1> HIDE DEF C
<1>6. Whole(C.order)
  BY <1>2, <1>4, <1>5 DEF Fine, Listing, Alike, SameList
<1>7. R \in States /\ Listing(R) /\ R.now = C.now /\ R.cast = C.cast
  BY <1>5, <1>6, UpdateFacts
<1> HIDE DEF R
<1>8. Fine(R, now)
  BY <1>2, <1>4, <1>5, <1>7 DEF Fine, Alike, Casting
<1>9. ops' \in 0..MaxOps /\ willing' \subseteq Mcds
  BY DEF EffectEnds, Keeps, IndInv
<1> QED BY <1>3, <1>8, <1>9, BecomesFine

\* A condition changes, or nothing does.
LEMMA OthersKeep ==
  ASSUME IndInv,
         UNCHANGED <<now, gcdAt, timer, cast, effect, order, minReady, usages, heard>>,
         ops' \in 0..MaxOps, willing' \subseteq Mcds
  PROVE  IndInv'
<1>1. Becomes(State)
  BY DEF Becomes, State
<1> QED BY <1>1, BecomesFine, StateFacts

\* Time passes, up to the end of a hardcast.
LEMMA AdvanceKeeps == ASSUME IndInv, Advance PROVE IndInv'
<1> DEFINE R == [State EXCEPT !.now = now + 1]
<1>1. Fine(State, now) /\ now \in Int
  BY StateFacts
<1>2. R \in States /\ SameList(R, State) /\ R.cast = State.cast /\ R.now = now + 1
  <2>1. ASSUME NEW t \in Int
        PROVE  LET T == [State EXCEPT !.now = t]
               IN  T \in States /\ SameList(T, State) /\ T.cast = State.cast /\ T.now = t
    <3>1. State \in States
      BY <1>1 DEF Fine
    <3> QED BY <3>1 DEF States, SameList
  <2> QED BY <1>1, <2>1
<1>3. Listing(R)
  BY <1>1, <1>2, ListingStays DEF Fine
<1>4. Casting(R, now + 1)
  <2>1. State.cast # Nil => State.cast.ends > now /\ State.cast.ends \in Int
    BY StateFacts DEF Advance, CastType
  <2> QED BY <1>1, <1>2, <2>1 DEF Casting
<1>5. State' = R /\ now' = now + 1
  BY DEF State, Advance
<1> HIDE DEF R
<1>6. now + 1 \in Pull..Horizon
  BY MajorCooldownsAssumption DEF Advance, IndInv
<1>7. ops' \in 0..MaxOps /\ willing' \subseteq Mcds
  BY DEF Advance, IndInv
<1> QED BY <1>2, <1>3, <1>4, <1>5, <1>6, <1>7
        DEF IndInv, Listing, Whole, InOrder, Before, Cached, Casting, Autocasts, States, CastType,
            Mcds, Spells

\* The next iteration starts.
LEMMA ResetKeeps == ASSUME Becomes(Start), ops' = 0, willing' = Mcds PROVE IndInv'
<1>1. /\ now' = Start.now /\ gcdAt' = Start.gcdAt /\ timer' = Start.timer /\ cast' = Start.cast
      /\ effect' = Start.effect /\ order' = Start.order /\ minReady' = Start.minReady
      /\ usages' = Start.usages /\ heard' = Start.heard
  BY DEF Becomes
<1>2. State' = Start
  BY <1>1 DEF State, Start
<1>3. Fine(Start, Pull) /\ now' = Pull
  BY <1>1, StartFine DEF Fine
<1>4. Pull \in Pull..Horizon /\ 0 \in 0..MaxOps
  BY MajorCooldownsAssumption
<1> HIDE DEF Start
<1> QED BY <1>2, <1>3, <1>4
        DEF IndInv, Fine, Listing, Whole, InOrder, Before, Cached, Casting, Autocasts, States,
            CastType, Mcds, Spells


-----------------------------------------------------------------------------
(* The theorems *)

\* Of a least of positions that the look asks about.
LEMMA FirstReadyFacts ==
  ASSUME IndInv
  PROVE  /\ FirstReady = Nil => \A m \in Mcds : Due(m) => now < heard[m]
         /\ FirstReady # Nil =>
              /\ FirstReady \in Mcds
              /\ \A m \in Mcds : Due(m) => FirstReady = m \/ Before(heard, FirstReady, m)
<1> DEFINE due == {i \in DOMAIN order : Due(order[i])}
           n == Len(order)
           first == Min(due)
<1>1. /\ n \in Nat /\ order \in Seq(Mcds) /\ DOMAIN order = 1..n
      /\ \A m \in Mcds : \E i \in 1..n : order[i] = m
      /\ \A i, j \in 1..n : i < j => Before(heard, order[i], order[j])
      /\ \A i \in 1..n : Autocasts(usages, order[i]) => minReady <= heard[order[i]]
      /\ heard \in [Mcds -> Int] /\ minReady \in Int /\ now \in Int
  <2>1. Whole(order) /\ InOrder(order, heard) /\ Cached(State)
    BY StateFacts DEF Fine, Listing
  <2>2. \A i \in 1..n : Autocasts(usages, order[i]) => minReady <= heard[order[i]]
    BY <2>1, StateFacts DEF Cached
  <2> QED BY <2>1, <2>2, StateFacts DEF Whole, InOrder
<1>2. FirstReady = IF now < minReady \/ due = {} THEN Nil ELSE order[first]
  BY DEF FirstReady
<1>3. ASSUME NEW m \in Mcds, Due(m)
      PROVE  \E i \in due : order[i] = m /\ minReady <= heard[m]
  <2>1. PICK i \in 1..n : order[i] = m
    BY <1>1
  <2>2. Autocasts(usages, m)
    BY <1>3 DEF Due
  <2> QED BY <1>1, <1>3, <2>1, <2>2
<1>4. due # {} => first \in due /\ \A k \in due : first <= k
  <2>1. due \in SUBSET Nat
    BY <1>1
  <2> HIDE DEF due
  <2> QED BY <2>1, FirstOf
<1>5. \A i \in due : i \in 1..n
  BY <1>1
<1> HIDE DEF due, first, n
<1>6. ASSUME FirstReady = Nil, NEW m \in Mcds, Due(m) PROVE now < heard[m]
  <2>1. PICK i \in due : order[i] = m /\ minReady <= heard[m]
    BY <1>3, <1>6
  <2>2. ~(now < minReady) => FALSE
    <3>1. HAVE ~(now < minReady)
    <3>2. FirstReady = order[first] /\ first \in due
      BY <1>2, <1>4, <2>1, <3>1
    <3>3. order[first] \in Mcds
      BY <1>1, <1>5, <3>2
    <3>4. Nil \notin Mcds
      BY MajorCooldownsAssumption DEF Spells
    <3> QED BY <1>6, <3>2, <3>3, <3>4
  <2>3. heard[m] \in Int
    BY <1>1
  <2> QED BY <1>1, <2>1, <2>2, <2>3
<1>7. ASSUME FirstReady # Nil
      PROVE  /\ FirstReady \in Mcds
             /\ \A m \in Mcds : Due(m) => FirstReady = m \/ Before(heard, FirstReady, m)
  <2>1. FirstReady = order[first] /\ first \in due /\ first \in 1..n
    BY <1>2, <1>4, <1>5, <1>7
  <2>2. FirstReady \in Mcds
    BY <1>1, <2>1
  <2>3. ASSUME NEW m \in Mcds, Due(m) PROVE FirstReady = m \/ Before(heard, FirstReady, m)
    <3>1. PICK i \in due : order[i] = m
      BY <1>3, <2>3
    <3>2. i \in 1..n /\ first <= i
      BY <1>4, <1>5, <3>1
    <3>3. first = i \/ first < i
      BY <1>1, <2>1, <3>2
    <3> QED BY <1>1, <2>1, <3>1, <3>2, <3>3
  <2> QED BY <2>2, <2>3
<1> QED BY <1>6, <1>7

\* The invariant holds of every state.
LEMMA CooldownInvariant == Spec => []IndInv
<1>1. Init => IndInv
  <2> SUFFICES ASSUME Init PROVE IndInv
    OBVIOUS
  <2>1. State = Start /\ now = Pull
    BY DEF Init, State, Start
  <2>2. Pull \in Pull..Horizon /\ 0 \in 0..MaxOps
    BY MajorCooldownsAssumption
  <2> QED BY <2>1, <2>2, StartFine DEF Init, IndInv, Fine
<1>2. IndInv /\ [Next]_vars => IndInv'
  <2> SUFFICES ASSUME IndInv, [Next]_vars PROVE IndInv'
    OBVIOUS
  <2>1. CASE Autocast
    BY <2>1, AutocastKeeps
  <2>2. CASE \E s \in Own : CastOwn(s)
    BY <2>2, CastOwnKeeps
  <2>3. CASE Land
    BY <2>3, LandKeeps
  <2>4. CASE Interrupt
    BY <2>4, InterruptKeeps
  <2>5. CASE Fizzle
    BY <2>5, FizzleKeeps
  <2>6. CASE \E s \in AtItsEnd : EffectEnds(s)
    BY <2>6, EffectEndsKeeps
  <2>7. ASSUME NEW m \in Conditional, ChangeMind(m) PROVE IndInv'
    <3>1. m \in Mcds
      BY MajorCooldownsAssumption
    <3>2. ops' \in 0..MaxOps /\ willing' \subseteq Mcds
      BY <2>7, <3>1, ActsFacts DEF ChangeMind, IndInv
    <3> QED BY <2>7, <3>2, OthersKeep DEF ChangeMind
  <2>8. CASE Advance
    BY <2>8, AdvanceKeeps
  <2>9. CASE Reset
    BY <2>9, ResetKeeps DEF Reset
  <2>10. CASE UNCHANGED vars
    <3>1. /\ UNCHANGED <<now, gcdAt, timer, cast, effect, order, minReady, usages, heard>>
          /\ ops' = ops /\ willing' = willing
      BY <2>10 DEF vars
    <3> QED BY <3>1, OthersKeep DEF IndInv
  <2> QED BY <2>1, <2>2, <2>3, <2>4, <2>5, <2>6, <2>7, <2>8, <2>9, <2>10 DEF Next
<1> QED BY <1>1, <1>2, PTL DEF Spec

\* Every variable has its type.
LEMMA IndInvTypes == IndInv => TypeOK
<1> SUFFICES ASSUME IndInv PROVE TypeOK
  OBVIOUS
<1>1. cast = Nil \/ (cast.spell \in Spells /\ cast.ends >= now)
  BY StateFacts DEF Fine, Casting, CastType
<1>2. Range(order) = Mcds /\ Len(order) = Len(Listed)
  <2>1. Whole(order)
    BY StateFacts DEF Fine, Listing
  <2> QED BY <2>1 DEF Whole, Range
<1> QED BY <1>1, <1>2, StateFacts DEF TypeOK, IndInv

\* A look that comes to autocast uses what is due: the cached time (updateMajorCooldownTimer) and
\* the order of the list never hide a cooldown, but one that a spell of the rotation's own finished.
THEOREM CooldownsNothingHeldBack == Spec => []NothingHeldBack
<1>1. IndInv => NothingHeldBack
  <2> SUFFICES ASSUME IndInv PROVE NothingHeldBack
    OBVIOUS
  <2>1. ASSUME FirstReady = Nil, NEW m \in Mcds, Due(m)
        PROVE  ReadyAt(timer, m) < heard[m] /\ now < heard[m]
    <3>1. now < heard[m]
      BY <2>1, FirstReadyFacts
    <3>2. ReadyAt(timer, m) <= now
      BY <2>1 DEF Due
    <3>3. ReadyAt(timer, m) \in Int /\ now \in Int /\ heard[m] \in Int
      BY StateFacts, ReadyAtIsTime DEF Spells
    <3> QED BY <3>1, <3>2, <3>3
  <2> QED BY <2>1, IndInvTypes DEF NothingHeldBack
<1> QED BY <1>1, CooldownInvariant, PTL

\* What autocast uses is the first of what is due, by ready time and then priority, among those
\* whose ready time was last moved by something the list hears of.
THEOREM CooldownsPickInTurn == Spec => []PicksInTurn
<1>1. IndInv => PicksInTurn
  <2> SUFFICES ASSUME IndInv, FirstReady \in Heard, NEW m \in Heard, Due(m)
               PROVE  /\ heard[FirstReady] <= heard[m]
                      /\ heard[FirstReady] = heard[m] => PriorityOf(FirstReady) >= PriorityOf(m)
    BY DEF PicksInTurn
  <2>1. FirstReady \in Mcds /\ m \in Mcds
    BY DEF Heard
  <2>2. FirstReady # Nil
    BY <2>1, MajorCooldownsAssumption DEF Spells
  <2>3. FirstReady = m \/ Before(heard, FirstReady, m)
    BY <2>1, <2>2, FirstReadyFacts
  <2>4. heard[FirstReady] \in Int /\ heard[m] \in Int
    BY <2>1, StateFacts
  <2>5. PriorityOf(FirstReady) \in Int /\ PriorityOf(m) \in Int
    BY <2>1, MajorCooldownsAssumption
  <2> HIDE DEF Heard
  <2> QED BY <2>3, <2>4, <2>5 DEF Before
<1> QED BY <1>1, CooldownInvariant, PTL

===============================================================================
