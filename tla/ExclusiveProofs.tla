---------------------------- MODULE ExclusiveProofs ----------------------------
(***************************************************************************)
(* Theorems about ExclusiveEffects.                                        *)
(***************************************************************************)
EXTENDS ExclusiveEffects, WellFoundedInduction, TLAPS

-----------------------------------------------------------------------------
(* Scans for the highest *)

\* A set of naturals with a least element.
HasLeast(T) == \E m \in T : \A k \in T : m <= k

\* A set of naturals that is not empty has a least element: what stands in for an
\* induction over a length, as a least counterexample.
LEMMA LeastNatural == ASSUME NEW T, T \subseteq Nat, T # {} PROVE HasLeast(T)
<1> DEFINE R == OpToRel(<, Nat)
<1>1. \E m \in T : \A k \in T : ~(<<k, m>> \in R)
  <2>1. IsWellFoundedOn(R, Nat)
    BY NatLessThanWellFounded
  <2> HIDE DEF R
  <2> QED BY <2>1, WFMin
<1>2. PICK m \in T : \A k \in T : ~(<<k, m>> \in OpToRel(<, Nat))
  BY <1>1
<1>3. ASSUME NEW k \in T PROVE m <= k
  <2>1. ~(<<k, m>> \in {ss \in Nat \X Nat : ss[1] < ss[2]})
    BY <1>2 DEF OpToRel
  <2>2. ~(k < m)
    BY <2>1
  <2> QED BY <2>2
<1> QED BY <1>3 DEF HasLeast

\* Of the places P the one where f is highest, the first of those that tie.
FirstBest(P, f, i) == i \in P /\ \A j \in P : f[j] <= f[i] /\ (j < i => f[j] < f[i])

\* A scan for the highest finds one.
LEMMA ScanFindsBest ==
  ASSUME NEW n \in Nat, NEW P, P \subseteq 1..n, P # {}, NEW f, \A j \in P : f[j] \in Int
  PROVE  \E i \in P : FirstBest(P, f, i)
<1> DEFINE Q(m) == P \cap 1..m
           T == {m \in Nat : m <= n /\ Q(m) # {} /\ ~\E i \in Q(m) : FirstBest(Q(m), f, i)}
<1>1. T = {}
  <2> SUFFICES ASSUME T # {} PROVE FALSE
    OBVIOUS
  <2>1. PICK m \in T : \A k \in T : m <= k
    BY LeastNatural DEF HasLeast
  <2>2. m \in Nat /\ m # 0 /\ m - 1 \in Nat /\ m - 1 <= n /\ m - 1 \notin T
    <3>1. m \in Nat /\ m <= n /\ Q(m) # {}
      BY <2>1
    <3>2. m # 0
      BY <3>1
    <3>3. m - 1 \in Nat /\ m - 1 <= n /\ ~(m <= m - 1)
      BY <3>1, <3>2
    <3>4. m - 1 \notin T
      <4> HIDE DEF T
      <4> QED BY <2>1, <3>3
    <3> QED BY <3>1, <3>2, <3>3, <3>4
  <2>3. CASE Q(m - 1) = {}
    <3>1. Q(m) = {m}
      BY <2>1, <2>2, <2>3
    <3>2. FirstBest(Q(m), f, m)
      BY <3>1 DEF FirstBest
    <3> QED BY <2>1, <3>1, <3>2
  <2>4. CASE Q(m - 1) # {}
    <3>1. PICK i \in Q(m - 1) : FirstBest(Q(m - 1), f, i)
      BY <2>2, <2>4
    <3>2. i \in Q(m) /\ i < m /\ f[i] \in Int
      BY <2>2, <3>1
    <3>3. \A j \in Q(m) : j = m \/ j \in Q(m - 1)
      BY <2>2
    <3>4. CASE m \in P /\ f[m] > f[i]
      <4>1. FirstBest(Q(m), f, m)
        BY <2>2, <3>1, <3>2, <3>3, <3>4 DEF FirstBest
      <4> QED BY <2>1, <2>2, <3>4, <4>1
    <3>5. CASE ~(m \in P /\ f[m] > f[i])
      <4>1. FirstBest(Q(m), f, i)
        BY <2>2, <3>1, <3>2, <3>3, <3>5 DEF FirstBest
      <4> QED BY <2>1, <3>2, <4>1
    <3> QED BY <3>4, <3>5
  <2> QED BY <2>3, <2>4
<1>2. Q(n) = P
  OBVIOUS
<1>3. n \notin T
  BY <1>1
<1> QED BY <1>2, <1>3

-----------------------------------------------------------------------------
(* Exclusive effects *)

\* A category applies what its holder bids, and nothing else.
Sound(c, s) ==
    /\ s \in CategoryState(c)
    /\ s.holder # Nil => s.holder \in s.enabled
    /\ \A b \in Bidders(c) : s.applied[b] = IF s.holder = b THEN s.bid[b] ELSE 0

\* The holder's bid is the highest, and there is one if anything is enabled.
Topped(s) ==
    /\ s.holder = Nil <=> s.enabled = {}
    /\ s.holder # Nil =>
          /\ s.holder \in s.enabled
          /\ \A a \in s.enabled : s.bid[a] <= s.bid[s.holder]

CategoriesInv == \A c \in Categories : Sound(c, cat[c]) /\ Topped(cat[c])

\* The categories the aura being gained has bid in.
Made == {BidsOf(gaining)[i] : i \in 1..(place - 1)}

\* The effects of an aura are enabled while it is active, and as it makes its bids.
EnabledInv ==
    \A c \in Categories : \A a \in Bidders(c) :
        a \in cat[c].enabled <=> a \in active \/ (a = gaining /\ c \in Made)

SingleInv == \A c \in Single : \A a, b \in cat[c].enabled : a = b

ExclusiveInv == TypeOK /\ CategoriesInv /\ EnabledInv /\ SingleInv

\* Where no aura is refused none bids or expires.
FreeInv ==
    \A c \in Categories : NeverRefuses(c) =>
        \A a \in Bidders(c) : cat[c].bid[a] = 0 /\ (a \in active => expires[a] = Never)

\* Until the aura being gained has bid in a category of one, its bids are all that
\* has changed since its gain began.
SinceInv ==
    ~Idle =>
        /\ \A c \in Categories : before.cat[c] \in CategoryState(c) /\ Topped(before.cat[c])
        /\ \/ \E c \in Made : c \in Single
           \/ /\ active = before.active
              /\ \A c \in Categories :
                    /\ cat[c].bid = before.cat[c].bid
                    /\ cat[c].enabled = before.cat[c].enabled \cup (IF c \in Made THEN {gaining} ELSE {})
                    /\ gaining \notin before.cat[c].enabled

TraceInv == ExclusiveInv /\ FreeInv /\ SinceInv

\* A step's bids: an aura that stacks may lose its own, no other changes.
BidsKept ==
    \A c \in Categories : \A b \in Bidders(c) :
        cat'[c].bid[b] = cat[c].bid[b] \/ (b \in Stacking /\ cat'[c].bid[b] = 0)

-----------------------------------------------------------------------------
(* One category *)

\* The scan of GetHighestPrioActiveEffect finds a highest bid.
LEMMA HighestFacts ==
  ASSUME NEW c \in Categories, NEW s \in CategoryState(c)
  PROVE  /\ s.enabled = {} => Highest(c, s) = Nil
         /\ s.enabled # {} => /\ Highest(c, s) \in s.enabled
                              /\ \A b \in s.enabled : s.bid[b] <= s.bid[Highest(c, s)]
<1>1. CASE s.enabled = {}
  BY <1>1 DEF Highest
<1>2. CASE s.enabled # {}
  <2> DEFINE o == OrderIn(c)
             n == Len(o)
             P == {i \in 1..n : o[i] \in s.enabled}
             f == [i \in 1..n |-> s.bid[o[i]]]
  <2>1. /\ n \in Nat /\ \A i \in 1..n : o[i] \in Auras
        /\ \A b \in Bidders(c) : \E i \in 1..n : o[i] = b
    <3>1. o \in Seq(Auras)
      BY ExclusiveAssumption
    <3>2. \A b \in Bidders(c) : b \in Auras
      BY DEF Bidders
    <3> QED BY <3>1, <3>2, ExclusiveAssumption
  <2>2. s.enabled \subseteq Bidders(c) /\ s.bid \in [Bidders(c) -> Int]
    BY DEF CategoryState
  <2>3. P \subseteq 1..n /\ P # {} /\ \A j \in P : f[j] = s.bid[o[j]] /\ f[j] \in Int
    BY <1>2, <2>1, <2>2
  <2>4. PICK i \in P : FirstBest(P, f, i)
    <3> HIDE DEF P, f
    <3> QED BY <2>1, <2>3, ScanFindsBest
  <2>5. IsHighest(c, s, o[i])
    <3>1. o[i] \in s.enabled /\ i \in 1..n
      OBVIOUS
    <3>2. ASSUME NEW j \in 1..n, o[j] \in s.enabled
          PROVE  s.bid[o[j]] <= s.bid[o[i]] /\ (j < i => s.bid[o[j]] < s.bid[o[i]])
      BY <2>3, <2>4, <3>2 DEF FirstBest
    <3> QED BY <3>1, <3>2 DEF IsHighest
  <2>6. \E a \in s.enabled : IsHighest(c, s, a)
    BY <2>5
  <2> HIDE DEF o, n, P, f
  <2>7. Highest(c, s) \in s.enabled /\ IsHighest(c, s, Highest(c, s))
    BY <1>2, <2>6 DEF Highest
  <2>8. ASSUME NEW b \in s.enabled PROVE s.bid[b] <= s.bid[Highest(c, s)]
    <3>1. PICK j \in 1..Len(OrderIn(c)) : OrderIn(c)[j] = b
      BY <2>1, <2>2 DEF o, n
    <3> QED BY <2>7, <3>1 DEF IsHighest
  <2> QED BY <1>2, <2>7, <2>8
<1> QED BY <1>1, <1>2

\* SetActive moves what is applied to the new holder.
LEMMA SetActiveFacts ==
  ASSUME NEW c \in Categories, NEW s \in CategoryState(c), NEW a \in Bidders(c) \cup {Nil},
         \A b \in Bidders(c) : s.applied[b] = IF s.holder = b THEN s.bid[b] ELSE 0
  PROVE  /\ SetActive(s, a) \in CategoryState(c)
         /\ SetActive(s, a).holder = a
         /\ SetActive(s, a).enabled = s.enabled /\ SetActive(s, a).bid = s.bid
         /\ \A b \in Bidders(c) :
               SetActive(s, a).applied[b] = IF a = b THEN s.bid[b] ELSE 0
<1>1. CASE a = s.holder
  BY <1>1 DEF SetActive
<1>2. CASE a # s.holder
  <2> DEFINE f == [b \in DOMAIN s.applied |->
                     CASE b = s.holder -> s.applied[b] - s.bid[b]
                       [] b = a -> s.applied[b] + s.bid[b]
                       [] OTHER -> s.applied[b]]
  <2>1. SetActive(s, a) = [s EXCEPT !.holder = a, !.applied = f]
    BY <1>2 DEF SetActive
  <2>2. s.applied \in [Bidders(c) -> Int] /\ s.bid \in [Bidders(c) -> Int]
    BY DEF CategoryState
  <2>3. ASSUME NEW b \in Bidders(c) PROVE f[b] = IF a = b THEN s.bid[b] ELSE 0
    BY <1>2, <2>2
  <2>4. f \in [Bidders(c) -> Int]
    BY <2>2, <2>3
  <2> HIDE DEF f
  <2> QED BY <2>1, <2>3, <2>4 DEF CategoryState
<1> QED BY <1>1, <1>2

\* Deactivate takes one bid away and gives the category on.
LEMMA OffFacts ==
  ASSUME NEW c \in Categories, NEW s, Sound(c, s), NEW a
  PROVE  /\ Sound(c, Off(c, s, a))
         /\ Off(c, s, a).enabled = s.enabled \ {a} /\ Off(c, s, a).bid = s.bid
         /\ Topped(s) => Topped(Off(c, s, a))
<1>1. CASE a \notin s.enabled
  BY <1>1 DEF Off
<1>2. CASE a \in s.enabled
  <2> DEFINE t == [s EXCEPT !.enabled = @ \ {a}]
  <2>1. /\ t \in CategoryState(c) /\ t.enabled = s.enabled \ {a} /\ t.bid = s.bid
        /\ t.holder = s.holder /\ t.applied = s.applied
    BY DEF Sound, CategoryState
  <2>2. CASE s.holder = a
    <3> DEFINE h == Highest(c, t)
    <3>1. Off(c, s, a) = SetActive(t, h)
      BY <1>2, <2>2 DEF Off
    <3> HIDE DEF t
    <3>2. /\ t.enabled = {} => h = Nil
          /\ t.enabled # {} => h \in t.enabled /\ \A b \in t.enabled : t.bid[b] <= t.bid[h]
      BY <2>1, HighestFacts
    <3>3. h \in Bidders(c) \cup {Nil}
      BY <2>1, <3>2 DEF CategoryState
    <3>4. \A b \in Bidders(c) : t.applied[b] = IF t.holder = b THEN t.bid[b] ELSE 0
      BY <2>1 DEF Sound
    <3> HIDE DEF h
    <3>5. /\ SetActive(t, h) \in CategoryState(c) /\ SetActive(t, h).holder = h
          /\ SetActive(t, h).enabled = t.enabled /\ SetActive(t, h).bid = t.bid
          /\ \A b \in Bidders(c) : SetActive(t, h).applied[b] = IF h = b THEN t.bid[b] ELSE 0
      BY <2>1, <3>3, <3>4, SetActiveFacts
    <3>6. h = Nil <=> t.enabled = {}
      <4>1. Nil \notin t.enabled
        BY <2>1, ExclusiveAssumption DEF CategoryState, Bidders
      <4> QED BY <3>2, <4>1
    <3>7. Sound(c, SetActive(t, h))
      BY <3>2, <3>5, <3>6 DEF Sound
    <3>8. Topped(SetActive(t, h))
      BY <3>2, <3>5, <3>6 DEF Topped
    <3> QED BY <2>1, <3>1, <3>5, <3>7, <3>8
  <2>3. CASE s.holder # a
    <3>1. Off(c, s, a) = t
      BY <1>2, <2>3 DEF Off
    <3> HIDE DEF t
    <3>2. Sound(c, t)
      BY <2>1, <2>3 DEF Sound
    <3>3. Topped(s) => Topped(t)
      BY <1>2, <2>1, <2>3 DEF Topped
    <3> QED BY <2>1, <3>1, <3>2, <3>3
  <2> QED BY <2>2, <2>3
<1> QED BY <1>1, <1>2

\* SetPriority changes one bid and nothing else; what applies stays what is bid,
\* and the highest bid stays the one that applies.
LEMMA SetPriorityFacts ==
  ASSUME NEW c \in Categories, NEW s, Sound(c, s), NEW a \in Bidders(c), NEW p \in Int
  PROVE  /\ Sound(c, SetPriority(c, s, a, p))
         /\ SetPriority(c, s, a, p).enabled = s.enabled
         /\ \A b \in Bidders(c) : SetPriority(c, s, a, p).bid[b] = IF b = a THEN p ELSE s.bid[b]
         /\ Topped(s) => Topped(SetPriority(c, s, a, p))
<1> DEFINE t == [s EXCEPT !.bid[a] = p]
           h == Highest(c, t)
<1>1. /\ t \in CategoryState(c) /\ t.enabled = s.enabled /\ t.holder = s.holder
      /\ t.applied = s.applied /\ t.bid = [s.bid EXCEPT ![a] = p]
  BY DEF Sound, CategoryState
<1>2. /\ s.bid \in [Bidders(c) -> Int] /\ s.applied \in [Bidders(c) -> Int]
      /\ s.enabled \subseteq Bidders(c) /\ Nil \notin Bidders(c)
  BY ExclusiveAssumption DEF Sound, CategoryState, Bidders
<1>3. t.bid[a] = p /\ \A b \in Bidders(c) : b # a => t.bid[b] = s.bid[b]
  BY <1>1, <1>2
<1>4. CASE a \notin s.enabled
  <2>1. SetPriority(c, s, a, p) = t
    BY <1>4 DEF SetPriority
  <2> HIDE DEF t
  <2>2. s.holder # a
    BY <1>2, <1>4 DEF Sound
  <2>3. Sound(c, t)
    BY <1>1, <1>2, <1>3, <1>4, <2>2 DEF Sound
  <2>4. Topped(s) => Topped(t)
    BY <1>1, <1>2, <1>3, <1>4, <2>2 DEF Topped
  <2> QED BY <1>2, <1>3, <1>1, <2>1, <2>3, <2>4
<1>5. CASE a \in s.enabled
  <2>1. h \in s.enabled /\ \A b \in s.enabled : t.bid[b] <= t.bid[h]
    <3> HIDE DEF t
    <3> QED BY <1>1, <1>5, HighestFacts
  <2>2. h \in Bidders(c)
    BY <1>2, <2>1
  <2>3. CASE s.holder = a /\ h = a
    <3> DEFINE u == [t EXCEPT !.applied[a] = @ - s.bid[a] + p]
    <3>1. SetPriority(c, s, a, p) = u
      BY <1>5, <2>3 DEF SetPriority
    <3>2. /\ u \in CategoryState(c) /\ u.enabled = s.enabled /\ u.holder = a /\ u.bid = t.bid
          /\ u.applied = [s.applied EXCEPT ![a] = @ - s.bid[a] + p]
      <4>1. t.applied[a] - s.bid[a] + p \in Int
        BY <1>1, <1>2
      <4> HIDE DEF t
      <4> QED BY <1>1, <2>3, <4>1 DEF CategoryState
    <3> HIDE DEF t, h, u
    <3>3. \A b \in Bidders(c) : u.applied[b] = IF u.holder = b THEN u.bid[b] ELSE 0
      BY <1>2, <1>3, <2>3, <3>2 DEF Sound
    <3>4. Sound(c, u)
      BY <1>5, <3>2, <3>3 DEF Sound
    <3>5. Topped(u)
      BY <1>5, <1>2, <2>1, <2>3, <3>2 DEF Topped
    <3> QED BY <1>2, <1>3, <1>1, <3>1, <3>2, <3>4, <3>5
  <2>4. CASE s.holder # a /\ h # a
    <3>1. SetPriority(c, s, a, p) = t
      BY <1>5, <2>4 DEF SetPriority
    <3> HIDE DEF t, h
    <3>2. Sound(c, t)
      BY <1>1, <1>2, <1>3, <2>4 DEF Sound
    <3>3. ASSUME Topped(s) PROVE Topped(t)
      <4>1. s.holder # Nil /\ s.holder \in s.enabled /\ s.bid[h] <= s.bid[s.holder]
        BY <1>5, <2>1, <3>3 DEF Topped
      <4>2. t.bid[h] = s.bid[h] /\ t.bid[s.holder] = s.bid[s.holder]
        BY <1>2, <1>3, <2>1, <2>4, <4>1
      <4>3. ASSUME NEW b \in s.enabled PROVE t.bid[b] <= t.bid[s.holder]
        <5>1. t.bid[b] <= t.bid[h]
          BY <2>1
        <5>2. t.bid[b] \in Int /\ t.bid[h] \in Int /\ t.bid[s.holder] \in Int
          BY <1>1, <1>2, <2>1, <4>1 DEF CategoryState
        <5> QED BY <4>1, <4>2, <5>1, <5>2
      <4> QED BY <1>1, <1>5, <4>1, <4>3 DEF Topped
    <3> QED BY <1>2, <1>3, <1>1, <3>1, <3>2, <3>3
  <2>5. CASE s.holder = a /\ h # a
    <3> DEFINE v == SetActive(s, h)
               u == [v EXCEPT !.bid[a] = p]
    <3>1. SetPriority(c, s, a, p) = u
      BY <1>5, <2>5 DEF SetPriority
    <3>2. /\ v \in CategoryState(c) /\ v.holder = h /\ v.enabled = s.enabled /\ v.bid = s.bid
          /\ \A b \in Bidders(c) : v.applied[b] = IF h = b THEN s.bid[b] ELSE 0
      <4> HIDE DEF t, h
      <4> QED BY <2>2, SetActiveFacts DEF Sound
    <3> HIDE DEF v, h
    <3>3. /\ u \in CategoryState(c) /\ u.enabled = s.enabled /\ u.holder = h
          /\ u.bid = [s.bid EXCEPT ![a] = p] /\ u.applied = v.applied
      BY <3>2 DEF CategoryState
    <3> HIDE DEF t, u
    <3>4. \A b \in Bidders(c) : u.applied[b] = IF u.holder = b THEN u.bid[b] ELSE 0
      BY <1>1, <1>2, <1>3, <2>5, <3>2, <3>3
    <3>5. Sound(c, u)
      BY <2>1, <3>3, <3>4 DEF Sound
    <3>6. Topped(u)
      BY <1>1, <1>2, <1>5, <2>1, <3>3 DEF Topped
    <3> QED BY <1>2, <1>3, <3>1, <3>3, <3>5, <3>6
  <2>6. CASE s.holder # a /\ h = a
    <3>1. SetPriority(c, s, a, p) = SetActive(t, h)
      BY <1>5, <2>6 DEF SetPriority
    <3> HIDE DEF t, h
    <3>2. \A b \in Bidders(c) : t.applied[b] = IF t.holder = b THEN t.bid[b] ELSE 0
      BY <1>1, <1>2, <1>3, <2>6 DEF Sound
    <3>3. /\ SetActive(t, h) \in CategoryState(c) /\ SetActive(t, h).holder = h
          /\ SetActive(t, h).enabled = t.enabled /\ SetActive(t, h).bid = t.bid
          /\ \A b \in Bidders(c) : SetActive(t, h).applied[b] = IF h = b THEN t.bid[b] ELSE 0
      <4>1. t \in CategoryState(c) /\ h \in Bidders(c) \cup {Nil}
        BY <1>1, <2>2
      <4> QED BY ONLY <3>2, <4>1, SetActiveFacts, c \in Categories
    <3>4. Sound(c, SetActive(t, h))
      BY <1>1, <2>1, <3>3 DEF Sound
    <3>5. Topped(SetActive(t, h))
      BY <1>1, <1>2, <1>5, <2>1, <3>3 DEF Topped
    <3> QED BY <1>2, <1>3, <1>1, <3>1, <3>3, <3>4, <3>5
  <2> QED BY <2>3, <2>4, <2>5, <2>6
<1> QED BY <1>4, <1>5

\* Aura.Deactivate takes the aura's bid in a category away, and its stacks.
LEMMA WithoutFacts ==
  ASSUME NEW c \in Categories, NEW s, Sound(c, s), NEW a \in Auras
  PROVE  /\ Sound(c, Without(c, s, a))
         /\ Without(c, s, a).enabled = s.enabled \ {a}
         /\ \A b \in Bidders(c) : Without(c, s, a).bid[b] = s.bid[b]
                                  \/ (b = a /\ a \in Stacking /\ Without(c, s, a).bid[b] = 0)
         /\ Topped(s) => Topped(Without(c, s, a))
<1>1. CASE c \notin BidIn(a)
  <2>1. a \notin s.enabled
    BY <1>1 DEF Sound, CategoryState, Bidders
  <2> QED BY <1>1, <2>1 DEF Without
<1>2. CASE c \in BidIn(a)
  <2>1. a \in Bidders(c)
    BY <1>2 DEF Bidders
  <2>2. CASE a \in Stacking
    <3> DEFINE t == SetPriority(c, s, a, 0)
    <3>1. Sound(c, t) /\ t.enabled = s.enabled /\ (Topped(s) => Topped(t))
          /\ \A b \in Bidders(c) : t.bid[b] = IF b = a THEN 0 ELSE s.bid[b]
      BY <2>1, SetPriorityFacts
    <3>2. Without(c, s, a) = Off(c, t, a)
      BY <1>2, <2>2 DEF Without
    <3>3. s.bid \in [Bidders(c) -> Int]
      BY DEF Sound, CategoryState
    <3> HIDE DEF t
    <3>4. /\ Sound(c, Off(c, t, a)) /\ Off(c, t, a).enabled = t.enabled \ {a}
          /\ Off(c, t, a).bid = t.bid /\ (Topped(t) => Topped(Off(c, t, a)))
      BY <3>1, OffFacts
    <3> QED BY <2>2, <3>1, <3>2, <3>3, <3>4
  <2>3. CASE a \notin Stacking
    <3>1. Without(c, s, a) = Off(c, s, a)
      BY <1>2, <2>3 DEF Without
    <3> QED BY <3>1, OffFacts
  <2> QED BY <2>2, <2>3
<1> QED BY <1>1, <1>2

-----------------------------------------------------------------------------
(* The steps *)

\* A category and the bid of an aura in it.
LEMMA BidFacts ==
  /\ Nil \notin Auras
  /\ \A c \in Categories : Nil \notin Bidders(c) /\ Bidders(c) \subseteq Auras
  /\ \A a \in Auras : /\ BidIn(a) \subseteq Categories /\ BidsOf(a) \in Seq(Categories)
                      /\ \A i \in 1..Len(BidsOf(a)) : BidsOf(a)[i] \in BidIn(a)
                      /\ \A c \in Categories : a \in Bidders(c) <=> c \in BidIn(a)
BY ExclusiveAssumption DEF Bidders, BidIn

\* The bid about to be made is not among those made.
LEMMA HereFacts ==
  ASSUME TypeOK, Bidding
  PROVE  /\ gaining \in Auras /\ gaining \notin active /\ gaining # Nil
         /\ place \in 1..Len(BidsOf(gaining)) /\ Here \in Categories
         /\ gaining \in Bidders(Here) /\ Here \notin Made
<1>1. gaining \in Auras /\ gaining \notin active /\ gaining # Nil
  BY DEF TypeOK, Bidding, Idle
<1>2. Len(BidsOf(gaining)) \in Nat
  BY <1>1, BidFacts
<1>3. place \in 1..Len(BidsOf(gaining))
  BY <1>1, <1>2 DEF TypeOK, Bidding, Idle
<1>4. Here \in Categories /\ gaining \in Bidders(Here)
  BY <1>1, <1>3, BidFacts DEF Here
<1>5. ASSUME NEW i \in 1..(place - 1) PROVE BidsOf(gaining)[i] # Here
  <2>1. i \in 1..Len(BidsOf(gaining)) /\ i # place
    BY <1>2, <1>3
  <2> QED BY <1>1, <1>3, <2>1, ExclusiveAssumption DEF Here
<1> QED BY <1>1, <1>3, <1>4, <1>5 DEF Made

\* The next bid.
LEMMA MadeFacts ==
  ASSUME TypeOK, Bidding, gaining' = gaining, place' = place + 1
  PROVE  Made' = Made \cup {Here} /\ place' \in 1..(Len(BidsOf(gaining)) + 1)
<1>1. place \in 1..Len(BidsOf(gaining)) /\ Len(BidsOf(gaining)) \in Nat
  BY HereFacts, BidFacts
<1>2. 1..(place' - 1) = 1..(place - 1) \cup {place}
  BY <1>1
<1> QED BY <1>1, <1>2 DEF Made, Here

\* An aura that is refreshed, gained or ended leaves categories alone, or ends in all.
LEMMA StillKeeps ==
  ASSUME ExclusiveInv, \/ \E a \in Auras : Prolong(a) \/ Activate(a)
                       \/ Gained \/ Advance
  PROVE  ExclusiveInv'
<1>1. cat' = cat /\ CategoriesInv' /\ SingleInv'
  BY DEF ExclusiveInv, CategoriesInv, SingleInv, Prolong, Activate, Gained, Advance
<1>2. CASE \E a \in Auras : Prolong(a)
  <2>1. UNCHANGED <<active, gaining, place, now>> /\ expires' \in [Auras -> Nat]
    BY <1>2, ExclusiveAssumption DEF Prolong, Refresh, ExclusiveInv, TypeOK
  <2> QED BY <1>1, <2>1 DEF ExclusiveInv, TypeOK, EnabledInv, Made, Idle
<1>3. ASSUME NEW a \in Auras, Activate(a) PROVE ExclusiveInv'
  <2>1. gaining = Nil /\ gaining' = a /\ place' = 1 /\ UNCHANGED <<active, expires, now>> /\ a \notin active
    BY <1>3 DEF Activate, Idle
  <2>2. Made' = {}
    BY <2>1 DEF Made
  <2>3. EnabledInv'
    <3>1. \A c \in Categories : Nil \notin Bidders(c)
      BY BidFacts
    <3> QED BY <1>1, <2>1, <2>2, <3>1 DEF ExclusiveInv, EnabledInv
  <2>4. place' \in 1..(Len(BidsOf(a)) + 1) /\ a # Nil
    BY <2>1, BidFacts
  <2> QED BY <1>1, <2>1, <2>3, <2>4 DEF ExclusiveInv, TypeOK, Idle
<1>4. CASE Gained
  <2>1. /\ gaining \in Auras /\ gaining' = Nil /\ place' = 1 /\ now' = now
        /\ active' = active \cup {gaining} /\ expires' \in [Auras -> Nat]
    BY <1>4, ExclusiveAssumption DEF Gained, Idle, Refresh, ExclusiveInv, TypeOK
  <2>2. Len(BidsOf(gaining)) \in Nat /\ place - 1 = Len(BidsOf(gaining))
    BY <1>4, <2>1, BidFacts DEF Gained, ExclusiveInv, TypeOK, Idle
  <2>3. Made = BidIn(gaining)
    BY <2>2 DEF Made, BidIn
  <2>4. Made' = {}
    BY <2>1 DEF Made
  <2>5. EnabledInv'
    BY <1>1, <2>1, <2>3, <2>4, BidFacts DEF ExclusiveInv, EnabledInv
  <2> QED BY <1>1, <2>1, <2>5 DEF ExclusiveInv, TypeOK, Idle
<1>5. CASE Advance
  <2>1. UNCHANGED <<active, gaining, place, expires>> /\ now' \in Nat
    BY <1>5 DEF Advance, ExclusiveInv, TypeOK
  <2> QED BY <1>1, <2>1 DEF ExclusiveInv, TypeOK, EnabledInv, Made, Idle
<1> QED BY <1>2, <1>3, <1>4, <1>5

\* A bid that is refused: those made before are taken back.
LEMMA BlockedKeeps ==
  ASSUME ExclusiveInv, BidBlocked PROVE ExclusiveInv'
<1>1. Bidding /\ gaining' = Nil /\ place' = 1 /\ UNCHANGED <<now, active, expires>>
  BY DEF BidBlocked
<1>2. /\ gaining \in Auras /\ gaining \notin active /\ Nil \notin Auras /\ Made' = {}
  BY <1>1, HereFacts, BidFacts DEF ExclusiveInv, Made
<1>3. DOMAIN cat' = Categories
  BY DEF BidBlocked
<1>4. ASSUME NEW c \in Categories
      PROVE  /\ cat'[c] = IF c \in Made THEN Off(c, cat[c], gaining) ELSE cat[c]
             /\ Sound(c, cat'[c]) /\ Topped(cat'[c])
             /\ cat'[c].enabled = cat[c].enabled \ (IF c \in Made THEN {gaining} ELSE {})
  <2>1. cat'[c] = IF c \in Made THEN Off(c, cat[c], gaining) ELSE cat[c]
    BY DEF BidBlocked, Made
  <2>2. Sound(c, cat[c]) /\ Topped(cat[c])
    BY DEF ExclusiveInv, CategoriesInv
  <2> QED BY <2>1, <2>2, OffFacts
<1>5. CategoriesInv'
  BY <1>4 DEF CategoriesInv
<1>6. EnabledInv'
  <2> SUFFICES ASSUME NEW c \in Categories, NEW a \in Bidders(c)
               PROVE  a \in cat'[c].enabled <=> a \in active
    BY <1>1, <1>2 DEF EnabledInv
  <2>1. a \in cat[c].enabled <=> a \in active \/ (a = gaining /\ c \in Made)
    BY DEF ExclusiveInv, EnabledInv
  <2> QED BY <1>2, <1>4, <2>1
<1>7. SingleInv'
  BY <1>4, ExclusiveAssumption DEF ExclusiveInv, SingleInv
<1>8. TypeOK'
  BY <1>1, <1>3, <1>4 DEF ExclusiveInv, TypeOK, Sound, Idle
<1> QED BY <1>5, <1>6, <1>7, <1>8 DEF ExclusiveInv

\* An aura that ends gives up its bids.
LEMMA DeactivateKeeps ==
  ASSUME ExclusiveInv, NEW a \in Auras, Deactivate(a) PROVE ExclusiveInv'
<1>1. /\ Idle /\ UNCHANGED <<now, gaining, place>> /\ active' = active \ {a}
      /\ expires' \in [Auras -> Nat] /\ DOMAIN cat' = Categories
  BY DEF Deactivate, ExclusiveInv, TypeOK
<1>2. ASSUME NEW c \in Categories
      PROVE  Sound(c, cat'[c]) /\ Topped(cat'[c]) /\ cat'[c].enabled = cat[c].enabled \ {a}
  <2>1. cat'[c] = Without(c, cat[c], a)
    BY DEF Deactivate
  <2>2. Sound(c, cat[c]) /\ Topped(cat[c])
    BY DEF ExclusiveInv, CategoriesInv
  <2> QED BY <2>1, <2>2, WithoutFacts
<1>3. CategoriesInv'
  BY <1>2 DEF CategoriesInv
<1>4. EnabledInv'
  <2>1. Made' = Made /\ gaining' = Nil /\ \A c \in Categories : Nil \notin Bidders(c)
    BY <1>1, BidFacts DEF Made, Idle
  <2> QED BY <1>1, <1>2, <2>1 DEF ExclusiveInv, EnabledInv, Idle
<1>5. SingleInv'
  BY <1>2, ExclusiveAssumption DEF ExclusiveInv, SingleInv
<1>6. TypeOK'
  BY <1>1, <1>2 DEF ExclusiveInv, TypeOK, Sound, Idle
<1> QED BY <1>3, <1>4, <1>5, <1>6 DEF ExclusiveInv

\* A bid that changes changes nothing else.
LEMMA RepriceKeeps ==
  ASSUME ExclusiveInv, NEW a \in Auras, NEW p \in Bids, Reprice(a, p) PROVE ExclusiveInv'
<1>1. UNCHANGED <<now, active, expires, gaining, place>> /\ DOMAIN cat' = Categories
  BY DEF Reprice
<1>2. ASSUME NEW c \in Categories
      PROVE  Sound(c, cat'[c]) /\ Topped(cat'[c]) /\ cat'[c].enabled = cat[c].enabled
  <2> DEFINE bidsAnew == IF a \in Stacking THEN BidIn(a) ELSE {BidsOf(a)[1]}
  <2>1. cat'[c] = IF c \in bidsAnew THEN SetPriority(c, cat[c], a, p) ELSE cat[c]
    BY DEF Reprice
  <2>2. c \in bidsAnew => a \in Bidders(c)
    <3>1. a \notin Stacking => 1 \in 1..Len(BidsOf(a))
      <4>1. a \notin Stacking => BidsOf(a) # <<>>
        BY ExclusiveAssumption DEF Reprice
      <4> DEFINE q == BidsOf(a)
      <4>2. q \in Seq(Categories)
        BY BidFacts
      <4>3. a \notin Stacking => q # <<>>
        BY <4>1
      <4> HIDE DEF q
      <4>4. q # <<>> => 1 \in 1..Len(q)
        BY <4>2
      <4>5. a \notin Stacking => 1 \in 1..Len(q)
        BY <4>3, <4>4
      <4> QED BY <4>5 DEF q
    <3> QED BY <3>1, BidFacts
  <2>3. Sound(c, cat[c]) /\ Topped(cat[c]) /\ p \in Int
    BY ExclusiveAssumption DEF ExclusiveInv, CategoriesInv
  <2> HIDE DEF bidsAnew
  <2>4. CASE c \in bidsAnew
    <3>1. a \in Bidders(c) /\ cat'[c] = SetPriority(c, cat[c], a, p)
      BY <2>1, <2>2, <2>4
    <3>2. \A t : Sound(c, t) /\ Topped(t) => /\ Sound(c, SetPriority(c, t, a, p))
                                             /\ Topped(SetPriority(c, t, a, p))
                                             /\ SetPriority(c, t, a, p).enabled = t.enabled
      BY <2>3, <3>1, SetPriorityFacts
    <3> QED BY <2>3, <3>1, <3>2
  <2> QED BY <2>1, <2>3, <2>4
<1>3. CategoriesInv'
  BY <1>2 DEF CategoriesInv
<1>4. EnabledInv'
  BY <1>1, <1>2 DEF ExclusiveInv, EnabledInv, Made
<1>5. SingleInv'
  BY <1>2, ExclusiveAssumption DEF ExclusiveInv, SingleInv
<1>6. TypeOK'
  BY <1>1, <1>2 DEF ExclusiveInv, TypeOK, Sound, Idle
<1> QED BY <1>3, <1>4, <1>5, <1>6 DEF ExclusiveInv

\* A bid that waits leaves the category to its holder; in a category of one none waits.
LEMMA WaitsKeeps ==
  ASSUME ExclusiveInv, BidWaits PROVE ExclusiveInv'
<1>1. Bidding /\ Bid = "waits" /\ gaining' = gaining /\ place' = place + 1 /\ UNCHANGED <<now, active, expires>>
  BY DEF BidWaits
<1>2. TypeOK
  BY DEF ExclusiveInv
<1>3. /\ gaining \in Auras /\ gaining \notin active /\ gaining # Nil /\ Here \in Categories
      /\ gaining \in Bidders(Here) /\ Here \notin Made
  BY <1>1, <1>2, HereFacts
<1>4. Made' = Made \cup {Here} /\ place' \in 1..(Len(BidsOf(gaining)) + 1)
  BY <1>1, <1>2, MadeFacts
<1>5. ~Blocked /\ ~Takes
  BY <1>1 DEF Bid
<1>6. /\ Holder # Nil /\ Holder \in cat[Here].enabled /\ Mine \in Int /\ Theirs \in Int
      /\ ~(Mine > Theirs) /\ cat[Here].bid \in [Bidders(Here) -> Int]
  <2>1. Holder # Nil
    BY <1>5 DEF Takes
  <2>2. /\ cat[Here] \in CategoryState(Here) /\ Holder \in cat[Here].enabled
    BY <1>3, <2>1 DEF ExclusiveInv, CategoriesInv, Sound, Holder
  <2>3. cat[Here].bid \in [Bidders(Here) -> Int] /\ Holder \in Bidders(Here)
    BY <2>2 DEF CategoryState
  <2> QED BY <1>3, <1>5, <2>1, <2>2, <2>3 DEF Takes, Mine, Theirs
<1>7. Here \notin Single
  <2> SUFFICES ASSUME Here \in Single PROVE FALSE
    OBVIOUS
  <2>1. Mine = Theirs /\ ~Outlasts(Holder, gaining)
    BY <1>5, <1>6 DEF Blocked
  <2>2. gaining \in YieldsTies
    BY <1>5, <2>1 DEF Takes, KeepsTie
  <2> QED BY <1>3, <2>2, BidFacts, ExclusiveAssumption
<1>8. cat' = [cat EXCEPT ![Here].enabled = @ \cup {gaining}] /\ DOMAIN cat = Categories
  BY <1>2 DEF BidWaits, Enabled, TypeOK
<1>9. ASSUME NEW c \in Categories, c # Here PROVE cat'[c] = cat[c]
  BY <1>8, <1>9
<1>10. cat'[Here] = [cat[Here] EXCEPT !.enabled = @ \cup {gaining}]
  BY <1>3, <1>8
<1>11. Sound(Here, cat'[Here]) /\ Topped(cat'[Here])
  <2> DEFINE s == cat[Here]
             t == cat'[Here]
  <2>1. Sound(Here, s) /\ Topped(s)
    BY <1>3 DEF ExclusiveInv, CategoriesInv
  <2>2. /\ t \in CategoryState(Here) /\ t.enabled = s.enabled \cup {gaining} /\ t.holder = s.holder
        /\ t.bid = s.bid /\ t.applied = s.applied
    BY <1>3, <1>10, <2>1 DEF Sound, CategoryState
  <2>3. s.holder # Nil /\ s.bid[gaining] <= s.bid[s.holder]
    BY <1>6 DEF Mine, Theirs, Holder
  <2> HIDE DEF s, t
  <2>4. Sound(Here, t)
    BY <2>1, <2>2, <2>3 DEF Sound
  <2>5. ASSUME NEW a \in t.enabled PROVE t.bid[a] <= t.bid[t.holder]
    BY <2>1, <2>2, <2>3 DEF Topped
  <2>6. Topped(t)
    BY <2>1, <2>2, <2>3, <2>5 DEF Sound, Topped
  <2> QED BY <2>4, <2>6 DEF t
<1>12. CategoriesInv'
  BY <1>9, <1>11 DEF ExclusiveInv, CategoriesInv
<1>13. EnabledInv'
  <2> SUFFICES ASSUME NEW c \in Categories, NEW a \in Bidders(c)
               PROVE  a \in cat'[c].enabled <=> a \in active \/ (a = gaining /\ c \in Made')
    BY <1>1 DEF EnabledInv
  <2>1. a \in cat[c].enabled <=> a \in active \/ (a = gaining /\ c \in Made)
    BY DEF ExclusiveInv, EnabledInv
  <2>2. cat'[Here].enabled = cat[Here].enabled \cup {gaining}
    BY <1>3, <1>10 DEF ExclusiveInv, CategoriesInv, Sound, CategoryState
  <2> QED BY <1>4, <1>9, <2>1, <2>2
<1>14. SingleInv'
  BY <1>7, <1>9, ExclusiveAssumption DEF ExclusiveInv, SingleInv
<1>15. TypeOK'
  <2>1. DOMAIN cat' = Categories /\ \A c \in Categories : cat'[c] \in CategoryState(c)
    BY <1>8, <1>12 DEF CategoriesInv, Sound
  <2> QED BY <1>1, <1>2, <1>3, <1>4, <2>1 DEF TypeOK, Idle
<1> QED BY <1>12, <1>13, <1>14, <1>15 DEF ExclusiveInv

\* A bid that takes the category: its effect bids as much as any that stays, and in a
\* category of one it is the only one that stays.
LEMMA TakesKeeps ==
  ASSUME ExclusiveInv, BidTakes PROVE ExclusiveInv' /\ BidsKept
<1> DEFINE Knocks == Here \in Single /\ Holder # Nil
           out == IF Knocks THEN {Holder} ELSE {}
           E(c) == Enabled[c]
           S(c) == IF Knocks THEN Without(c, E(c), Holder) ELSE E(c)
<1>1. Bidding /\ Bid = "taken" /\ gaining' = gaining /\ place' = place + 1 /\ now' = now
  BY DEF BidTakes
<1>2. TypeOK
  BY DEF ExclusiveInv
<1>3. /\ gaining \in Auras /\ gaining \notin active /\ gaining # Nil /\ Here \in Categories
      /\ gaining \in Bidders(Here) /\ Here \notin Made
  BY <1>1, <1>2, HereFacts
<1>4. Made' = Made \cup {Here} /\ place' \in 1..(Len(BidsOf(gaining)) + 1)
  BY <1>1, <1>2, MadeFacts
<1>5. Takes
  BY <1>1 DEF Bid
<1>6. \A c \in Categories : Sound(c, cat[c]) /\ Topped(cat[c]) /\ cat[c] \in CategoryState(c)
  BY DEF ExclusiveInv, CategoriesInv, Sound
<1>7. /\ Enabled = [cat EXCEPT ![Here].enabled = @ \cup {gaining}] /\ DOMAIN cat = Categories
  BY <1>2 DEF Enabled, TypeOK
<1>8. ASSUME NEW c \in Categories
      PROVE  /\ Sound(c, E(c)) /\ E(c).bid = cat[c].bid /\ E(c).holder = cat[c].holder
             /\ E(c).enabled = cat[c].enabled \cup (IF c = Here THEN {gaining} ELSE {})
             /\ c # Here => Topped(E(c))
  <2>1. CASE c = Here
    <3>1. E(c) = [cat[c] EXCEPT !.enabled = @ \cup {gaining}]
      BY <1>7, <2>1
    <3>2. /\ E(c) \in CategoryState(c) /\ E(c).bid = cat[c].bid /\ E(c).holder = cat[c].holder
          /\ E(c).enabled = cat[c].enabled \cup {gaining} /\ E(c).applied = cat[c].applied
      BY <1>3, <1>6, <2>1, <3>1 DEF CategoryState
    <3> HIDE DEF E
    <3> QED BY <1>6, <2>1, <3>2 DEF Sound
  <2>2. CASE c # Here
    <3>1. E(c) = cat[c]
      BY <1>7, <2>2
    <3> QED BY <1>6, <2>2, <3>1
  <2> QED BY <2>1, <2>2
<1>9. ASSUME Holder # Nil
      PROVE  /\ Holder \in cat[Here].enabled /\ Holder \in Auras /\ Holder # gaining /\ Holder \in active
             /\ \A a \in cat[Here].enabled : cat[Here].bid[a] <= cat[Here].bid[gaining]
  <2>1. /\ Holder \in cat[Here].enabled /\ \A a \in cat[Here].enabled : cat[Here].bid[a] <= cat[Here].bid[Holder]
    BY <1>3, <1>6, <1>9 DEF Topped, Holder
  <2>2. /\ cat[Here].bid \in [Bidders(Here) -> Int] /\ cat[Here].enabled \subseteq Bidders(Here)
        /\ Bidders(Here) \subseteq Auras
    BY <1>3, <1>6, BidFacts DEF CategoryState
  <2>3. cat[Here].bid[Holder] <= cat[Here].bid[gaining]
    BY <1>3, <1>5, <1>9, <2>1, <2>2 DEF Takes, Mine, Theirs
  <2>4. Holder \in active /\ Holder # gaining
    BY <1>3, <2>1, <2>2 DEF ExclusiveInv, EnabledInv
  <2>5. ASSUME NEW a \in cat[Here].enabled PROVE cat[Here].bid[a] <= cat[Here].bid[gaining]
    <3>1. cat[Here].bid[a] \in Int /\ cat[Here].bid[Holder] \in Int /\ cat[Here].bid[gaining] \in Int
      BY <1>3, <2>1, <2>2
    <3> QED BY <2>1, <2>3, <3>1
  <2> QED BY <2>1, <2>2, <2>4, <2>5
<1>10. /\ active' = active \ out /\ expires' \in [Auras -> Nat] /\ DOMAIN cat' = Categories
       /\ \A c \in Categories : cat'[c] = IF c = Here THEN SetActive(S(c), gaining) ELSE S(c)
  <2>1. CASE Knocks
    BY <1>2, <1>3, <2>1 DEF BidTakes, TypeOK
  <2>2. CASE ~Knocks
    <3>1. cat' = [Enabled EXCEPT ![Here] = SetActive(@, gaining)] /\ UNCHANGED <<active, expires>>
      BY <2>2 DEF BidTakes
    <3>2. DOMAIN Enabled = Categories
      BY <1>7
    <3> QED BY <1>2, <1>3, <2>2, <3>1, <3>2 DEF TypeOK
  <2> QED BY <2>1, <2>2
<1>11. ASSUME NEW c \in Categories
       PROVE  /\ Sound(c, S(c)) /\ S(c).enabled = E(c).enabled \ out /\ (c # Here => Topped(S(c)))
              /\ \A b \in Bidders(c) : S(c).bid[b] = cat[c].bid[b]
                                       \/ (b \in out /\ b \in Stacking /\ S(c).bid[b] = 0)
  <2>1. CASE Knocks
    <3>1. Holder \in Auras
      BY <1>9, <2>1
    <3> HIDE DEF E
    <3> QED BY <1>8, <2>1, <3>1, WithoutFacts
  <2>2. CASE ~Knocks
    <3> HIDE DEF E
    <3> QED BY <1>8, <2>2
  <2> QED BY <2>1, <2>2
<1>12. gaining \notin out /\ out \subseteq active
  BY <1>9
<1> HIDE DEF S, E, out
<1>13. /\ Sound(Here, cat'[Here]) /\ Topped(cat'[Here])
       /\ cat'[Here].enabled = S(Here).enabled /\ cat'[Here].bid = S(Here).bid
  <2> DEFINE t == SetActive(S(Here), gaining)
  <2>1. /\ t \in CategoryState(Here) /\ t.holder = gaining /\ t.enabled = S(Here).enabled
        /\ t.bid = S(Here).bid
        /\ \A b \in Bidders(Here) : t.applied[b] = IF gaining = b THEN S(Here).bid[b] ELSE 0
    BY <1>3, <1>11, SetActiveFacts DEF Sound
  <2>2. gaining \in t.enabled
    BY <1>3, <1>8, <1>11, <1>12, <2>1
  <2>3. ASSUME NEW a \in t.enabled PROVE t.bid[a] <= t.bid[gaining]
    <3>1. a \in Bidders(Here) /\ a \notin out /\ (a = gaining \/ a \in cat[Here].enabled)
      BY <1>3, <1>8, <1>11, <2>1 DEF CategoryState
    <3>2. t.bid[a] = cat[Here].bid[a] /\ t.bid[gaining] = cat[Here].bid[gaining]
      BY <1>3, <1>11, <1>12, <2>1, <3>1
    <3>3. CASE a = gaining
      <4>1. t.bid[gaining] \in Int
        BY <1>3, <2>1 DEF CategoryState
      <4> QED BY <3>3, <4>1
    <3>4. CASE a # gaining
      <4>1. cat[Here].enabled # {}
        BY <3>1, <3>4
      <4>2. Holder # Nil
        BY <1>3, <1>6, <4>1 DEF Topped, Holder
      <4> QED BY <1>9, <3>1, <3>2, <3>4, <4>2
    <3> QED BY <3>3, <3>4
  <2>4. cat'[Here] = t
    BY <1>3, <1>10
  <2> HIDE DEF t
  <2> QED BY <1>3, <2>1, <2>2, <2>3, <2>4 DEF Sound, Topped
<1>14. \A c \in Categories : c # Here => cat'[c] = S(c)
  BY <1>10
<1>15. CategoriesInv'
  BY <1>11, <1>13, <1>14 DEF CategoriesInv
<1>16. \A c \in Categories : cat'[c].enabled
                              = (cat[c].enabled \cup (IF c = Here THEN {gaining} ELSE {})) \ out
  BY <1>8, <1>11, <1>13, <1>14
<1>17. EnabledInv'
  <2> SUFFICES ASSUME NEW c \in Categories, NEW a \in Bidders(c)
               PROVE  a \in cat'[c].enabled <=> a \in active' \/ (a = gaining /\ c \in Made')
    BY <1>1 DEF EnabledInv
  <2>1. a \in cat[c].enabled <=> a \in active \/ (a = gaining /\ c \in Made)
    BY DEF ExclusiveInv, EnabledInv
  <2> QED BY <1>4, <1>10, <1>12, <1>16, <2>1
<1>18. SingleInv'
  <2> SUFFICES ASSUME NEW c \in Single, NEW a \in cat'[c].enabled, NEW b \in cat'[c].enabled
               PROVE  a = b
    BY DEF SingleInv
  <2>1. c \in Categories /\ \A x, y \in cat[c].enabled : x = y
    BY ExclusiveAssumption DEF ExclusiveInv, SingleInv
  <2>2. CASE c # Here
    BY <1>16, <2>1, <2>2
  <2>3. CASE c = Here
    <3>1. cat[Here].enabled \subseteq out
      <4>1. CASE Holder = Nil
        BY <1>3, <1>6, <4>1 DEF Topped, Holder
      <4>2. CASE Holder # Nil
        BY <1>9, <2>1, <2>3, <4>2 DEF out
      <4> QED BY <4>1, <4>2
    <3> QED BY <1>16, <2>1, <2>3, <3>1
  <2> QED BY <2>2, <2>3
<1>19. TypeOK'
  <2>1. \A c \in Categories : cat'[c] \in CategoryState(c)
    BY <1>15 DEF CategoriesInv, Sound
  <2>2. active' \subseteq Auras /\ gaining' \in Auras \ active' /\ gaining' # Nil
    BY <1>1, <1>2, <1>3, <1>10 DEF TypeOK
  <2> QED BY <1>1, <1>2, <1>4, <1>10, <2>1, <2>2 DEF TypeOK, Idle
<1>20. BidsKept
  BY <1>11, <1>13, <1>14 DEF BidsKept
<1> QED BY <1>15, <1>17, <1>18, <1>19, <1>20 DEF ExclusiveInv

\* Before any aura is gained no category has a holder.
LEMMA ExclusiveInit == ASSUME Init PROVE ExclusiveInv
<1>1. \A a \in Auras, c \in Categories : a \in Bidders(c) => FirstBid(a, c) \in Int
  BY ExclusiveAssumption DEF Bidders
<1>2. ASSUME NEW c \in Categories
      PROVE  /\ Sound(c, cat[c]) /\ Topped(cat[c]) /\ cat[c].enabled = {}
  <2>1. cat[c] = [enabled |-> {}, holder |-> Nil, bid |-> [a \in Bidders(c) |-> FirstBid(a, c)],
                  applied |-> [a \in Bidders(c) |-> 0]]
    BY DEF Init
  <2>2. cat[c] \in CategoryState(c)
    BY <1>1, <2>1, BidFacts DEF CategoryState
  <2>3. \A a \in Bidders(c) : a # Nil
    BY BidFacts
  <2> QED BY <2>1, <2>2, <2>3 DEF Sound, Topped
<1>3. CategoriesInv
  BY <1>2 DEF CategoriesInv
<1>4. EnabledInv
  <2>1. \A c \in Categories : Nil \notin Bidders(c)
    BY BidFacts
  <2> QED BY <1>2, <2>1 DEF EnabledInv, Init
<1>5. SingleInv
  BY <1>2, ExclusiveAssumption DEF SingleInv
<1>6. TypeOK
  BY <1>2 DEF TypeOK, Init, Sound, Idle
<1> QED BY <1>3, <1>4, <1>5, <1>6 DEF ExclusiveInv

\* ExclusiveInv is inductive.
LEMMA ExclusiveStep == ASSUME ExclusiveInv, [Next]_vars PROVE ExclusiveInv'
<1>1. CASE UNCHANGED vars
  BY <1>1 DEF vars, ExclusiveInv, TypeOK, CategoriesInv, EnabledInv, SingleInv, Made, Idle
<1>2. CASE Next
  BY <1>2, StillKeeps, BlockedKeeps, DeactivateKeeps, RepriceKeeps, WaitsKeeps, TakesKeeps DEF Next
<1> QED BY <1>1, <1>2

\* So it holds of every behaviour.
LEMMA ExclusiveInvariant == Spec => []ExclusiveInv
BY ExclusiveInit, ExclusiveStep, PTL DEF Spec

\* In each category the highest bid of the enabled effects is the one that applies, in
\* a category of one at most one aura is active, and the state keeps its types: for
\* any auras, categories and bids (Activate, Deactivate and SetPriority of
\* exclusive_effect.go, Aura.Activate and Aura.Deactivate).
THEOREM HighestCorrect == Spec => []HighestApplies
<1>1. ASSUME ExclusiveInv PROVE HighestApplies
  <2>1. ASSUME NEW c \in Single, NEW a \in active \cap Bidders(c), NEW b \in active \cap Bidders(c)
        PROVE  a = b
    <3>1. c \in Categories
      BY ExclusiveAssumption
    <3>2. a \in cat[c].enabled /\ b \in cat[c].enabled
      BY <1>1, <3>1 DEF ExclusiveInv, EnabledInv
    <3> QED BY <1>1, <3>2 DEF ExclusiveInv, SingleInv
  <2> QED BY <1>1, <2>1 DEF ExclusiveInv, CategoriesInv, Topped, HighestApplies
<1> QED BY <1>1, ExclusiveInvariant, PTL

\* What an effect has added is its bid while it holds its category and nothing
\* otherwise, however bids have changed meanwhile (SetActive, SetPriority).
THEOREM AppliedCorrect == Spec => []AppliedIsBid
<1>1. ASSUME ExclusiveInv PROVE AppliedIsBid
  BY <1>1 DEF ExclusiveInv, CategoriesInv, Sound, AppliedIsBid
<1> QED BY <1>1, ExclusiveInvariant, PTL

-----------------------------------------------------------------------------
(* A refused aura *)

\* Where no aura is refused a step leaves every bid at 0.
LEMMA FreeBids ==
  ASSUME ExclusiveInv, FreeInv, Next,
         NEW c \in Categories, NeverRefuses(c), NEW b \in Bidders(c)
  PROVE  cat'[c].bid[b] = 0
<1>1. cat[c].bid[b] = 0 /\ Sound(c, cat[c]) /\ b \notin Stacking
  BY DEF FreeInv, ExclusiveInv, CategoriesInv, NeverRefuses
<1>2. CASE (\E a \in Auras : Prolong(a) \/ Activate(a)) \/ Gained \/ Advance
  BY <1>1, <1>2 DEF Prolong, Activate, Gained, Advance
<1>3. CASE BidBlocked
  <2>1. cat'[c] = Off(c, cat[c], gaining) \/ cat'[c] = cat[c]
    BY <1>3 DEF BidBlocked
  <2> QED BY <1>1, <2>1, OffFacts
<1>4. ASSUME NEW a \in Auras, Deactivate(a) PROVE cat'[c].bid[b] = 0
  <2>1. cat'[c] = Without(c, cat[c], a)
    BY <1>4 DEF Deactivate
  <2>2. Without(c, cat[c], a).bid[b] = cat[c].bid[b] \/ Without(c, cat[c], a).bid[b] = 0
    BY <1>1, WithoutFacts
  <2> QED BY <1>1, <2>1, <2>2
<1>5. ASSUME NEW a \in Auras, NEW p \in Bids, Reprice(a, p) PROVE cat'[c].bid[b] = 0
  <2> DEFINE bidsAnew == IF a \in Stacking THEN BidIn(a) ELSE {BidsOf(a)[1]}
  <2>1. cat'[c] = IF c \in bidsAnew THEN SetPriority(c, cat[c], a, p) ELSE cat[c]
    BY <1>5 DEF Reprice
  <2>2. c \notin bidsAnew
    <3>1. CASE a \in Stacking
      BY <3>1, BidFacts DEF NeverRefuses
    <3>2. CASE a \notin Stacking
      <4>1. a \in Repriced /\ BidsOf(a) # <<>>
        BY <1>5, <3>2, ExclusiveAssumption DEF Reprice
      <4> DEFINE q == BidsOf(a)
      <4>2. q \in Seq(Categories) /\ q # <<>>
        BY <4>1, BidFacts
      <4> HIDE DEF q
      <4>3. 1 \in 1..Len(q)
        BY <4>2
      <4>4. BidsOf(a)[1] \in BidIn(a)
        BY <4>3, BidFacts DEF q
      <4>5. c = BidsOf(a)[1] => a \in Bidders(c)
        BY <4>4, BidFacts
      <4> QED BY <3>2, <4>1, <4>5 DEF NeverRefuses
    <3> QED BY <3>1, <3>2
  <2> QED BY <1>1, <2>1, <2>2
<1>6. CASE BidWaits
  <2>1. Bidding /\ cat' = [cat EXCEPT ![Here].enabled = @ \cup {gaining}]
    BY <1>6 DEF BidWaits, Enabled
  <2>2. cat[c] \in CategoryState(c)
    BY DEF ExclusiveInv, TypeOK
  <2>3. cat'[c] = cat[c] \/ cat'[c] = [cat[c] EXCEPT !.enabled = @ \cup {gaining}]
    BY <2>1 DEF ExclusiveInv, TypeOK
  <2>4. [cat[c] EXCEPT !.enabled = @ \cup {gaining}].bid = cat[c].bid
    BY <2>2 DEF CategoryState
  <2> QED BY <1>1, <2>3, <2>4
<1>7. CASE BidTakes
  BY <1>1, <1>7, TakesKeeps DEF BidsKept
<1> QED BY <1>2, <1>3, <1>4, <1>5, <1>6, <1>7 DEF Next

\* FreeInv is inductive: its auras are gained for good and bid nothing.
LEMMA FreeStep ==
  ASSUME ExclusiveInv, FreeInv, [Next]_vars PROVE FreeInv'
<1>1. CASE UNCHANGED vars
  BY <1>1 DEF vars, FreeInv
<1>2. ASSUME Next, NEW c \in Categories, NeverRefuses(c), NEW b \in Bidders(c), b \in active'
      PROVE  expires'[b] = Never
  <2>1. b \in Auras /\ LengthOf(b) = Never /\ (b \in active => expires[b] = Never)
        /\ expires \in [Auras -> Nat]
    BY <1>2, BidFacts DEF NeverRefuses, FreeInv, ExclusiveInv, TypeOK
  <2>2. CASE \E a \in Auras : Prolong(a) \/ Activate(a)
    BY <1>2, <2>1, <2>2 DEF Prolong, Refresh, Activate
  <2>3. CASE Gained
    BY <1>2, <2>1, <2>3 DEF Gained, Refresh
  <2>4. CASE \E a \in Auras : Deactivate(a)
    BY <1>2, <2>1, <2>4 DEF Deactivate
  <2>5. CASE BidTakes
    BY <1>2, <2>1, <2>5 DEF BidTakes
  <2>6. CASE Advance \/ BidWaits \/ BidBlocked \/ \E a \in Auras, p \in Bids : Reprice(a, p)
    BY <1>2, <2>1, <2>6 DEF Advance, BidWaits, BidBlocked, Reprice
  <2> QED BY <1>2, <2>2, <2>3, <2>4, <2>5, <2>6 DEF Next
<1>3. CASE Next
  BY <1>2, <1>3, FreeBids DEF FreeInv
<1> QED BY <1>1, <1>3

\* SinceInv is inductive: the step that makes a bid either wins a category of one or
\* adds the aura to one category.
LEMMA SinceStep ==
  ASSUME ExclusiveInv, SinceInv, [Next]_vars PROVE SinceInv'
<1>1. CASE UNCHANGED vars
  BY <1>1 DEF vars, SinceInv, Idle, Made
<1>2. ASSUME NEW a \in Auras, Activate(a) PROVE SinceInv'
  <2>1. /\ before' = [active |-> active, cat |-> cat] /\ UNCHANGED <<active, cat>>
        /\ gaining' = a /\ place' = 1 /\ a \notin active /\ gaining = Nil
    BY <1>2 DEF Activate, Idle
  <2>2. Made' = {}
    BY <2>1 DEF Made
  <2>3. ASSUME NEW c \in Categories
        PROVE  cat[c] \in CategoryState(c) /\ Topped(cat[c]) /\ a \notin cat[c].enabled
    <3>1. cat[c] \in CategoryState(c) /\ Topped(cat[c])
      BY DEF ExclusiveInv, CategoriesInv, Sound
    <3>2. cat[c].enabled \subseteq Bidders(c)
      BY <3>1 DEF CategoryState
    <3>3. a # Nil
      BY BidFacts
    <3>4. a \notin cat[c].enabled
      BY <2>1, <3>2, <3>3 DEF ExclusiveInv, EnabledInv
    <3> QED BY <3>1, <3>4
  <2>4. before'.cat = cat /\ before'.active = active
    BY <2>1
  <2> QED BY <2>1, <2>2, <2>3, <2>4 DEF SinceInv
<1>3. CASE BidTakes \/ BidWaits
  <2>1. Bidding /\ gaining' = gaining /\ place' = place + 1 /\ before' = before
    BY <1>3 DEF BidTakes, BidWaits
  <2>2. TypeOK
    BY DEF ExclusiveInv
  <2>3. Made' = Made \cup {Here} /\ Here \in Categories /\ gaining \in Bidders(Here) /\ gaining # Nil
        /\ Here \notin Made /\ gaining \notin active
    BY <2>1, <2>2, HereFacts, MadeFacts
  <2>4. \A c \in Categories : before.cat[c] \in CategoryState(c) /\ Topped(before.cat[c])
    BY <2>1 DEF SinceInv, Bidding
  <2>5. CASE \E c \in Made' : c \in Single
    BY <2>1, <2>4, <2>5 DEF SinceInv
  <2>6. CASE ~\E c \in Made' : c \in Single
    <3>1. Here \notin Single /\ ~\E c \in Made : c \in Single
      BY <2>3, <2>6
    <3>2. /\ active = before.active
          /\ \A c \in Categories :
                /\ cat[c].bid = before.cat[c].bid
                /\ cat[c].enabled = before.cat[c].enabled \cup (IF c \in Made THEN {gaining} ELSE {})
                /\ gaining \notin before.cat[c].enabled
      BY <2>1, <3>1 DEF SinceInv, Bidding
    <3>3. active' = active
      BY <1>3, <3>1 DEF BidTakes, BidWaits
    <3>4. Enabled = [cat EXCEPT ![Here].enabled = @ \cup {gaining}] /\ DOMAIN cat = Categories
      BY <2>2 DEF TypeOK, Enabled
    <3>5. cat' = Enabled \/ cat' = [Enabled EXCEPT ![Here] = SetActive(@, gaining)]
      BY <1>3, <3>1 DEF BidTakes, BidWaits
    <3> DEFINE t == [cat[Here] EXCEPT !.enabled = @ \cup {gaining}]
    <3>6. Enabled[Here] = t /\ \A c \in Categories : c # Here => cat'[c] = cat[c]
      BY <2>3, <3>4, <3>5
    <3>7. cat'[Here] = t \/ cat'[Here] = SetActive(t, gaining)
      <4>1. DOMAIN Enabled = Categories
        BY <3>4
      <4> HIDE DEF t
      <4> QED BY <2>3, <3>5, <3>6, <4>1
    <3>8. Sound(Here, cat[Here]) /\ cat[Here] \in CategoryState(Here)
      BY <2>3 DEF ExclusiveInv, CategoriesInv, Sound
    <3>9. /\ t \in CategoryState(Here) /\ t.bid = cat[Here].bid /\ t.holder = cat[Here].holder
          /\ t.enabled = cat[Here].enabled \cup {gaining} /\ t.applied = cat[Here].applied
      BY <2>3, <3>8 DEF CategoryState
    <3> HIDE DEF t
    <3>10. \A b \in Bidders(Here) : t.applied[b] = IF t.holder = b THEN t.bid[b] ELSE 0
      BY <3>8, <3>9 DEF Sound
    <3>11. SetActive(t, gaining).bid = t.bid /\ SetActive(t, gaining).enabled = t.enabled
      BY <2>3, <3>9, <3>10, SetActiveFacts
    <3>12. cat'[Here].bid = cat[Here].bid /\ cat'[Here].enabled = cat[Here].enabled \cup {gaining}
      BY <3>7, <3>9, <3>11
    <3>13. ASSUME NEW c \in Categories
           PROVE  /\ cat'[c].bid = before.cat[c].bid
                  /\ cat'[c].enabled = before.cat[c].enabled \cup (IF c \in Made' THEN {gaining} ELSE {})
                  /\ gaining \notin before.cat[c].enabled
      BY <2>3, <3>2, <3>6, <3>12
    <3> QED BY <2>1, <2>4, <3>2, <3>3, <3>13 DEF SinceInv
  <2> QED BY <2>5, <2>6
<1>4. CASE BidBlocked \/ Gained
  <2>1. gaining' = Nil
    BY <1>4 DEF BidBlocked, Gained
  <2> QED BY <2>1 DEF SinceInv, Idle
<1>5. CASE (\E a \in Auras : Prolong(a) \/ Deactivate(a)) \/ Advance
           \/ \E a \in Auras, p \in Bids : Reprice(a, p)
  <2>1. gaining' = Nil
    BY <1>5 DEF Prolong, Deactivate, Advance, Reprice, Idle
  <2> QED BY <2>1 DEF SinceInv, Idle
<1> QED BY <1>1, <1>2, <1>3, <1>4, <1>5 DEF Next

\* The three together hold of every behaviour.
LEMMA TraceInvariant == Spec => []TraceInv
<1>1. ASSUME Init PROVE TraceInv
  <2>1. ASSUME NEW c \in Categories, NeverRefuses(c), NEW a \in Bidders(c)
        PROVE  cat[c].bid[a] = 0 /\ a \notin active
    BY <1>1, <2>1 DEF Init, NeverRefuses
  <2> QED BY <1>1, <2>1, ExclusiveInit DEF TraceInv, FreeInv, SinceInv, Init, Idle
<1>2. ASSUME TraceInv, [Next]_vars PROVE TraceInv'
  BY <1>2, ExclusiveStep, FreeStep, SinceStep DEF TraceInv
<1> QED BY <1>1, <1>2, PTL DEF Spec

\* No aura that never expires and bids nothing is refused by another of its kind.
LEMMA FreeNeverBlocked ==
  ASSUME TraceInv, Bidding, Blocked PROVE ~NeverRefuses(Here)
<1> SUFFICES ASSUME NeverRefuses(Here) PROVE FALSE
  OBVIOUS
<1>1. TypeOK /\ ExclusiveInv /\ FreeInv
  BY DEF TraceInv, ExclusiveInv
<1>2. /\ gaining \in Auras /\ gaining \notin active /\ Here \in Categories
      /\ gaining \in Bidders(Here) /\ Here \notin Made
  BY <1>1, HereFacts
<1>3. Holder # Nil /\ (Theirs > Mine \/ (Theirs = Mine /\ Outlasts(Holder, gaining)))
  BY DEF Blocked
<1>4. cat[Here] \in CategoryState(Here) /\ Holder \in cat[Here].enabled
  BY <1>1, <1>2, <1>3 DEF ExclusiveInv, CategoriesInv, Sound, Holder
<1>5. Holder \in Bidders(Here)
  BY <1>4 DEF CategoryState
<1>6. Holder \in active
  BY <1>1, <1>2, <1>4, <1>5 DEF ExclusiveInv, EnabledInv
<1>7. Theirs = 0 /\ Mine = 0 /\ expires[Holder] = Never
  BY <1>1, <1>2, <1>5, <1>6 DEF FreeInv, Theirs, Mine
<1>8. Remaining(Holder) = Never /\ LengthOf(gaining) = Never /\ Never \in Nat
  BY <1>2, <1>7, ExclusiveAssumption DEF Remaining, NeverRefuses
<1> QED BY <1>3, <1>7, <1>8 DEF Outlasts

\* An aura that is refused leaves every category with the effects enabled, and the
\* amount applied, that it had before the gain began, and no other aura has ended
\* (the roll-back of Aura.Activate, aura.go; ExclusiveEffect.Activate).
THEOREM BlockedCorrect == Spec => BlockedLeavesNoTrace
<1> DEFINE Traceless == /\ active' = before.active
                        /\ \A c \in Categories :
                              /\ cat'[c].enabled = before.cat[c].enabled
                              /\ Amount(cat'[c]) = Amount(before.cat[c])
<1>1. ASSUME TraceInv, TraceInv', BidBlocked PROVE Traceless
  <2>1. Bidding /\ Blocked /\ active' = active
    BY <1>1 DEF BidBlocked, Bid
  <2>2. /\ gaining \in Auras /\ place \in 1..Len(BidsOf(gaining)) /\ Here \in Single /\ gaining # Nil
    BY <1>1, <2>1, HereFacts DEF TraceInv, ExclusiveInv, Blocked
  <2>3. ASSUME NEW c \in Made PROVE c \notin Single
    <3>1. PICK i \in 1..(place - 1) : BidsOf(gaining)[i] = c
      BY DEF Made
    <3>2. Len(BidsOf(gaining)) \in Nat
      BY <2>2, BidFacts
    <3>3. i \in 1..Len(BidsOf(gaining)) /\ i < place
      BY <2>2, <3>1, <3>2
    <3>4. ~NeverRefuses(BidsOf(gaining)[place])
      BY <1>1, <2>1, FreeNeverBlocked DEF Here
    <3> QED BY <2>2, <3>1, <3>3, <3>4, ExclusiveAssumption DEF Here
  <2>4. /\ active = before.active
        /\ \A c \in Categories :
              /\ before.cat[c] \in CategoryState(c) /\ Topped(before.cat[c])
              /\ cat[c].bid = before.cat[c].bid
              /\ cat[c].enabled = before.cat[c].enabled \cup (IF c \in Made THEN {gaining} ELSE {})
              /\ gaining \notin before.cat[c].enabled
    BY <1>1, <2>1, <2>3 DEF TraceInv, SinceInv, Bidding
  <2>5. ASSUME NEW c \in Categories
        PROVE  /\ cat'[c].enabled = before.cat[c].enabled
               /\ Amount(cat'[c]) = Amount(before.cat[c])
    <3>1. cat'[c] = IF c \in Made THEN Off(c, cat[c], gaining) ELSE cat[c]
      BY <1>1 DEF BidBlocked, Made
    <3>2. Sound(c, cat[c]) /\ Sound(c, cat'[c]) /\ Topped(cat'[c])
      BY <1>1 DEF TraceInv, ExclusiveInv, CategoriesInv
    <3>3. /\ Off(c, cat[c], gaining).enabled = cat[c].enabled \ {gaining}
          /\ Off(c, cat[c], gaining).bid = cat[c].bid
      BY <3>2, OffFacts
    <3> DEFINE s == before.cat[c]
               t == cat'[c]
    <3>4. t.enabled = s.enabled /\ t.bid = s.bid
      BY <2>4, <3>1, <3>3
    <3>5. Topped(s) /\ Topped(t) /\ s.bid \in [Bidders(c) -> Int] /\ s.enabled \subseteq Bidders(c)
      BY <2>4, <3>2 DEF CategoryState
    <3> HIDE DEF s, t
    <3>6. Amount(t) = Amount(s)
      <4>1. CASE s.enabled = {}
        BY <3>4, <3>5, <4>1 DEF Amount, Topped
      <4>2. CASE s.enabled # {}
        <5>1. /\ s.holder # Nil /\ t.holder # Nil /\ s.holder \in s.enabled /\ t.holder \in s.enabled
              /\ s.bid[t.holder] <= s.bid[s.holder] /\ s.bid[s.holder] <= s.bid[t.holder]
          BY <3>4, <3>5, <4>2 DEF Topped
        <5>2. s.bid[t.holder] \in Int /\ s.bid[s.holder] \in Int
          BY <3>5, <5>1
        <5>3. s.bid[t.holder] = s.bid[s.holder]
          BY <5>1, <5>2
        <5> QED BY <3>4, <5>1, <5>3 DEF Amount
      <4> QED BY <4>1, <4>2
    <3> QED BY <3>4, <3>6 DEF s, t
  <2> QED BY <2>1, <2>4, <2>5
<1>2. Spec => [][BidBlocked => Traceless]_vars
  <2>1. ASSUME TraceInv, TraceInv', [Next]_vars PROVE [BidBlocked => Traceless]_vars
    <3> HIDE DEF Traceless
    <3> QED BY <1>1, <2>1
  <2> HIDE DEF Traceless
  <2> QED BY <2>1, TraceInvariant, PTL DEF Spec
<1> QED BY <1>2 DEF BlockedLeavesNoTrace
=============================================================================
