------------------------------ MODULE DotsProofs ------------------------------
(***************************************************************************)
(* Theorems about Dots: a dot and its action keep together, the ticks to   *)
(* come reach to the end of the aura, no tick is done twice or between the *)
(* beats, one rank and one channel of a caster are up, and a channel that  *)
(* is cut does no tick more.                                               *)
(***************************************************************************)
EXTENDS Dots, FiniteSetTheorems, WellFoundedInduction, TLAPS

-----------------------------------------------------------------------------
(* Sequences and numbers *)

\* A set of naturals with a least element.
HasLeast(T) == \E m \in T : \A k \in T : m <= k

\* A set of naturals that is not empty has a least element: what stands in for an
\* induction over a length, as a least counterexample.
LEMMA LeastNatural == ASSUME NEW T, T \subseteq Nat, T # {} PROVE HasLeast(T)
<1> DEFINE R == OpToRel(<, Nat)
<1>1. \E m \in T : \A k \in T : ~(<<k, m>> \in R)
  <2>1. IsWellFoundedOn(R, Nat)
    BY NatLessThanWellFounded
  <2> HIDE DEF R
  <2> QED BY <2>1, WFMin
<1>2. PICK m \in T : \A k \in T : ~(<<k, m>> \in OpToRel(<, Nat))
  BY <1>1
<1>3. ASSUME NEW k \in T PROVE m <= k
  <2>1. ~(<<k, m>> \in {ss \in Nat \X Nat : ss[1] < ss[2]})
    BY <1>2 DEF OpToRel
  <2>2. ~(k < m)
    BY <2>1
  <2> QED BY <2>2
<1> QED BY <1>3 DEF HasLeast

\* slices.Insert: what lies before k stays, the new element is at k, the rest moves up.
LEMMA InsertAtFacts ==
  ASSUME NEW S, NEW s \in Seq(S), NEW e \in S, NEW k \in 1..(Len(s) + 1)
  PROVE  /\ InsertAt(s, k, e) \in Seq(S)
         /\ Len(InsertAt(s, k, e)) = Len(s) + 1
         /\ \A i \in 1..(Len(s) + 1) :
               InsertAt(s, k, e)[i] = IF i < k THEN s[i] ELSE IF i = k THEN e ELSE s[i - 1]
<1> DEFINE a == SubSeq(s, 1, k - 1)
           c == SubSeq(s, k, Len(s))
           ae == a \o <<e>>
<1>1. a \in Seq(S) /\ Len(a) = k - 1 /\ \A i \in 1..(k - 1) : a[i] = s[i]
  OBVIOUS
<1>2. c \in Seq(S) /\ Len(c) = Len(s) - k + 1 /\ \A i \in 1..Len(c) : c[i] = s[k + i - 1]
  OBVIOUS
<1>3. ae \in Seq(S) /\ Len(ae) = k /\ (\A i \in 1..(k - 1) : ae[i] = a[i]) /\ ae[k] = e
  <2> HIDE DEF a
  <2> QED BY <1>1
<1>4. InsertAt(s, k, e) = ae \o c
  BY DEF InsertAt
<1> HIDE DEF a, c, ae
<1>5. /\ ae \o c \in Seq(S) /\ Len(ae \o c) = Len(s) + 1
      /\ \A i \in 1..(Len(s) + 1) : (ae \o c)[i] = IF i <= k THEN ae[i] ELSE c[i - k]
  <2>1. Len(ae) = k /\ Len(c) = Len(s) - k + 1 /\ k \in Nat /\ Len(s) \in Nat
    BY <1>2, <1>3
  <2>2. ae \o c \in Seq(S) /\ Len(ae \o c) = Len(s) + 1
    BY <1>2, <1>3, <2>1
  <2>3. ASSUME NEW i \in 1..(Len(s) + 1) PROVE (ae \o c)[i] = IF i <= k THEN ae[i] ELSE c[i - k]
    BY <1>2, <1>3, <2>1
  <2> QED BY <2>2, <2>3
<1>6. ASSUME NEW i \in 1..(Len(s) + 1)
      PROVE  (ae \o c)[i] = IF i < k THEN s[i] ELSE IF i = k THEN e ELSE s[i - 1]
  <2>1. (ae \o c)[i] = IF i <= k THEN ae[i] ELSE c[i - k]
    BY <1>5
  <2>2. CASE i < k
    <3>1. i \in 1..(k - 1) /\ i <= k
      BY <2>2
    <3> QED BY <1>1, <1>3, <2>1, <2>2, <3>1
  <2>3. CASE i = k
    BY <1>3, <2>1, <2>3
  <2>4. CASE k < i
    <3>1. i - k \in 1..Len(c) /\ k + (i - k) - 1 = i - 1 /\ ~(i <= k) /\ ~(i < k) /\ i # k
      BY <1>2, <2>4
    <3>2. c[i - k] = s[k + (i - k) - 1]
      BY <1>2, <3>1
    <3> QED BY <2>1, <3>1, <3>2
  <2>5. i < k \/ i = k \/ k < i
    OBVIOUS
  <2> QED BY <2>2, <2>3, <2>4, <2>5
<1> QED BY <1>4, <1>5, <1>6

\* Removal by sliding: what lies behind k moves down by one.
LEMMA RemoveAtFacts ==
  ASSUME NEW S, NEW s \in Seq(S), NEW k \in 1..Len(s)
  PROVE  /\ RemoveAt(s, k) \in Seq(S)
         /\ Len(RemoveAt(s, k)) = Len(s) - 1
         /\ \A i \in 1..(Len(s) - 1) : RemoveAt(s, k)[i] = IF i < k THEN s[i] ELSE s[i + 1]
<1> DEFINE a == SubSeq(s, 1, k - 1)
           c == SubSeq(s, k + 1, Len(s))
<1>1. a \in Seq(S) /\ Len(a) = k - 1 /\ \A i \in 1..(k - 1) : a[i] = s[i]
  OBVIOUS
<1>2. c \in Seq(S) /\ Len(c) = Len(s) - k /\ \A i \in 1..Len(c) : c[i] = s[k + i]
  OBVIOUS
<1>3. RemoveAt(s, k) = a \o c
  BY DEF RemoveAt
<1> HIDE DEF a, c
<1>4. a \o c \in Seq(S) /\ Len(a \o c) = Len(s) - 1
  <2>1. a \in Seq(S) /\ c \in Seq(S)
    BY <1>1, <1>2
  <2>2. a \o c \in Seq(S) /\ Len(a \o c) = Len(a) + Len(c)
    BY <2>1
  <2>3. k \in Int /\ Len(s) \in Int
    OBVIOUS
  <2> QED BY <1>1, <1>2, <2>2, <2>3
<1>5. ASSUME NEW i \in 1..(Len(s) - 1)
      PROVE  (a \o c)[i] = IF i < k THEN s[i] ELSE s[i + 1]
  <2>1. (a \o c)[i] = IF i <= Len(a) THEN a[i] ELSE c[i - Len(a)]
    BY <1>1, <1>2
  <2>2. CASE i < k
    <3>1. i \in 1..(k - 1) /\ i <= k - 1
      BY <2>2
    <3> QED BY <1>1, <2>1, <2>2, <3>1
  <2>3. CASE ~(i < k)
    <3>1. i - (k - 1) \in 1..Len(c) /\ k + (i - (k - 1)) = i + 1 /\ ~(i <= k - 1)
      BY <1>2, <2>3
    <3>2. c[i - (k - 1)] = s[k + (i - (k - 1))]
      BY <1>2, <3>1
    <3> QED BY <1>1, <2>1, <2>3, <3>1, <3>2
  <2> QED BY <2>2, <2>3
<1> QED BY <1>3, <1>4, <1>5

-----------------------------------------------------------------------------
(* The invariant. It is stated of a record like State, so that each method can be *)
(* followed from record to record; X are the dots that have no action for the      *)
(* moment, Y those that are up but have not taken the channel yet.                  *)

Entries == [dot : Dots, at : Nat]
Records ==
    [active : BOOLEAN, expires : Nat, duration : Nat, period : Nat, left : Int, done : Nat,
     tickAt : Nat \cup {Nil}]
States ==
    [dot : [Dots -> Records], queue : Seq(Entries), channel : [Casters -> Dots \cup {Nil}],
     last : [Dots -> Nat], strays : SUBSET Dots]

Up(S, d) == S.dot[d].active

\* The queue is sorted and holds one action for each dot that is up, due when the dot thinks.
SortedQueue(S) == \A i, j \in 1..Len(S.queue) : i < j => S.queue[i].at <= S.queue[j].at
OneEach(S) == \A i, j \in 1..Len(S.queue) : S.queue[i].dot = S.queue[j].dot => i = j
NoneLeft(S, X) ==
    \A i \in 1..Len(S.queue) :
        /\ S.queue[i].dot \in Dots \ X /\ Up(S, S.queue[i].dot)
        /\ S.dot[S.queue[i].dot].tickAt = S.queue[i].at
AllQueued(S, X) ==
    \A d \in Dots \ X : Up(S, d) => \E i \in 1..Len(S.queue) : S.queue[i].dot = d
Queued(S, X) == SortedQueue(S) /\ OneEach(S) /\ NoneLeft(S, X) /\ AllQueued(S, X)

\* The numbers of a dot that is up: r what it knows, l when it last ticked.
OnBeat(d, r, l) == IF d \in Extended THEN r.tickAt > l ELSE r.tickAt = l + r.period
Counted(d, r) ==
    d \notin Refreshed =>
        /\ r.left >= 1 /\ r.expires = r.tickAt + (r.left - 1) * r.period
        /\ d \notin Extended => (r.done + r.left) * r.period = r.duration
Timed(d, r, l, t) ==
    r.period > 0 /\ r.tickAt \in Nat /\ r.tickAt >= t /\ OnBeat(d, r, l) /\ Counted(d, r)
TimesInv(S, t, X) ==
    \A d \in Dots :
        /\ S.last[d] <= t
        /\ ~Up(S, d) => S.dot[d] = Idle
        /\ Up(S, d) /\ d \notin X => Timed(d, S.dot[d], S.last[d], t)

ChannelInv(S, Y) ==
    /\ \A c \in Casters : S.channel[c] # Nil =>
          S.channel[c] \in Channels \ Y /\ CasterOf(S.channel[c]) = c /\ Up(S, S.channel[c])
    /\ \A d \in Channels \ Y : Up(S, d) => S.channel[CasterOf(d)] = d

GroupInv(S) ==
    \A d, e \in Dots : Up(S, d) /\ Up(S, e) /\ GroupOf(d) # Nil /\ e \in Rivals(d) => d = e

DotsInv(S, t, X, Y) ==
    /\ S \in States
    /\ Queued(S, X) /\ TimesInv(S, t, X) /\ ChannelInv(S, Y) /\ GroupInv(S)

\* Between two steps every aura that is up has some time left.
Alive(S, t) == \A d \in Dots : Up(S, d) => S.dot[d].expires > t /\ S.dot[d].duration > 0
IndInv ==
    /\ now \in 0..Horizon /\ ops \in 0..MaxOps /\ speed \in [Casters -> Speeds]
    /\ DotsInv(State, now, {}, {}) /\ Alive(State, now)
    /\ strays \subseteq twice /\ twice \subseteq Dots

-----------------------------------------------------------------------------
(* Numbers *)

\* Rounding to even rounds to at least one what is at least one.
LEMMA RoundEvenFacts ==
  ASSUME NEW a \in Nat, NEW b \in Nat \ {0}
  PROVE  RoundEven(a, b) \in Nat /\ (a >= b => RoundEven(a, b) >= 1)
<1>1. a \div b \in Nat /\ a % b \in Nat /\ a = b * (a \div b) + (a % b) /\ (a % b) < b
  OBVIOUS
<1>2. a >= b => a \div b >= 1
  <2> DEFINE q == a \div b
             r == a % b
  <2>1. q \in Nat /\ r \in Nat /\ a = b * q + r /\ r < b
    BY <1>1
  <2> HIDE DEF q, r
  <2>2. q = 0 => a < b
    BY <2>1
  <2>3. a >= b => q >= 1
    BY <2>1, <2>2
  <2> QED BY <2>3 DEF q
<1> QED BY <1>1, <1>2 DEF RoundEven

\* A product with a number that is not zero is not below its other factor.
LEMMA TimesGrows ==
  ASSUME NEW m \in Nat, NEW n \in Nat \ {0}
  PROVE  n * m \in Nat /\ n * m >= m
<1> DEFINE k == n - 1
<1>1. k \in Nat /\ n * m = k * m + m
  OBVIOUS
<1>2. k * m \in Nat
  BY <1>1
<1> HIDE DEF k
<1> QED BY <1>1, <1>2

\* A hasted period is not longer than the base tick.
LEMMA RoundUpFacts ==
  ASSUME NEW a \in Nat \ {0}, NEW b \in Nat \ {0}
  PROVE  RoundUp(a, b) \in Nat /\ RoundUp(a, b) <= a
<1> DEFINE q == (2 * a + b) \div (2 * b)
           r == (2 * a + b) % (2 * b)
<1>1. 2 * b \in Nat \ {0} /\ 2 * a + b \in Nat
  OBVIOUS
<1>2. q \in Nat /\ r \in Nat /\ 2 * a + b = (2 * b) * q + r /\ r < 2 * b
  <2> HIDE DEF q, r
  <2> QED BY <1>1 DEF q, r
<1> HIDE DEF q, r
<1>3. q <= a
  <2> SUFFICES ASSUME q >= a + 1 PROVE FALSE
    BY <1>2
  <2> DEFINE x == q - (a + 1)
  <2>1. x \in Nat /\ q = a + 1 + x
    BY <1>2
  <2> HIDE DEF x
  <2>2. b * q = b * a + b + b * x
    BY <2>1
  <2>3. b * a >= a /\ b * x \in Nat /\ b * a \in Nat
    BY <2>1, TimesGrows
  <2>4. (2 * b) * q = 2 * (b * q)
    BY <1>2
  <2>5. b * q \in Nat
    BY <1>2
  <2> QED BY <1>2, <2>2, <2>3, <2>4, <2>5
<1> QED BY <1>2, <1>3 DEF RoundUp, q

\* The numbers of a cast.
LEMMA PeriodFacts ==
  ASSUME NEW d \in Dots, NEW s \in Speeds
  PROVE  LET p == CalcTickPeriod(d, s)
             by == CountOf(d) * LengthOf(d)
         IN  /\ p \in Nat \ {0} /\ by \in Nat /\ p <= by
             /\ TickCount(d, p) \in Nat \ {0} /\ FreshCount(d, p) \in Nat \ {0}
<1> DEFINE p == CalcTickPeriod(d, s)
           by == CountOf(d) * LengthOf(d)
<1>1. LengthOf(d) \in Nat \ {0} /\ CountOf(d) \in Nat \ {0} /\ s \in Nat \ {0}
      /\ p > 0 /\ FreshCount(d, p) > 0
  BY DotsAssumption
<1>2. p \in Nat \ {0} /\ p <= LengthOf(d)
  <2>1. RoundUp(LengthOf(d), s) \in Nat /\ RoundUp(LengthOf(d), s) <= LengthOf(d)
    BY <1>1, RoundUpFacts
  <2> QED BY <1>1, <2>1 DEF CalcTickPeriod
<1>3. by \in Nat /\ by >= LengthOf(d)
  BY <1>1, TimesGrows
<1> HIDE DEF p, by
<1>4. TickCount(d, p) \in Nat /\ TickCount(d, p) >= 1
  <2>1. TickCount(d, p) = RoundEven(by, p)
    BY DEF TickCount, by
  <2> QED BY <1>1, <1>2, <1>3, <2>1, RoundEvenFacts
<1>5. FreshCount(d, p) \in Nat \ {0}
  BY <1>1, <1>4 DEF FreshCount
<1> QED BY <1>2, <1>3, <1>4, <1>5, <1>1 DEF p, by

-----------------------------------------------------------------------------
(* The queue *)

\* The queue looks only at whether a dot is up and at when it thinks it ticks.
LEMMA QueueSame ==
  ASSUME NEW S, NEW R, NEW X, Queued(S, X), R.queue = S.queue,
         \A d \in Dots \ X : Up(R, d) = Up(S, d) /\ R.dot[d].tickAt = S.dot[d].tickAt
  PROVE  Queued(R, X)
<1>1. SortedQueue(R) /\ OneEach(R)
  BY DEF Queued, SortedQueue, OneEach
<1>2. NoneLeft(R, X)
  BY DEF Queued, NoneLeft
<1>3. AllQueued(R, X)
  BY DEF Queued, AllQueued
<1> QED BY <1>1, <1>2, <1>3 DEF Queued

\* A dot that is down has no action, and needs none.
LEMMA QueueDown ==
  ASSUME NEW S, NEW X, NEW d, Queued(S, X \cup {d}), ~Up(S, d)
  PROVE  Queued(S, X \ {d})
BY DEF Queued, NoneLeft, AllQueued

\* A cancelled action is off the queue, and no other is.
LEMMA CancelFacts ==
  ASSUME NEW S \in States, NEW d \in Dots, NEW X, Queued(S, X)
  PROVE  LET R == Cancel(S, d)
         IN  /\ R \in States /\ R.dot = S.dot /\ R.channel = S.channel
             /\ R.last = S.last /\ R.strays = S.strays
             /\ Queued(R, X \cup {d})
<1> DEFINE q == S.queue
           e == [dot |-> d, at |-> S.dot[d].tickAt]
           r == RemoveFirst(q, e)
           R == Cancel(S, d)
<1>1. q \in Seq(Entries) /\ Len(q) \in Nat /\ \A i \in 1..Len(q) : q[i] \in Entries
  BY DEF States
<1>2. R = [dot |-> S.dot, queue |-> r, channel |-> S.channel, last |-> S.last, strays |-> S.strays]
  BY DEF Cancel, States
<1>3. \A i \in 1..Len(q) : q[i].dot = d <=> q[i] = e
  <2> TAKE i \in 1..Len(q)
  <2>1. q[i].dot = d => q[i].at = S.dot[d].tickAt
    BY DEF Queued, NoneLeft
  <2>2. q[i] = [dot |-> q[i].dot, at |-> q[i].at]
    BY <1>1 DEF Entries
  <2> QED BY <2>1, <2>2
<1>4. CASE \E i \in 1..Len(q) : q[i] = e
  <2>1. PICK i \in 1..Len(q) : q[i] = e
    BY <1>4
  <2>2. {j \in 1..Len(q) : q[j] = e} = {i}
    <3>1. \A j \in 1..Len(q) : q[j] = e => j = i
      BY <2>1 DEF Queued, OneEach
    <3> QED BY <2>1, <3>1
  <2>3. SelectInSeq(q, LAMBDA v : v = e) = i
    <3>1. Min({i}) = i
      BY <2>1 DEF Min
    <3> HIDE DEF e, q
    <3> QED BY <2>2, <3>1 DEF SelectInSeq
  <2>4. r = RemoveAt(q, i)
    BY <1>4, <2>3 DEF RemoveFirst
  <2> HIDE DEF r, e, q
  <2>5. /\ r \in Seq(Entries) /\ Len(r) = Len(q) - 1
        /\ \A j \in 1..(Len(q) - 1) : r[j] = IF j < i THEN q[j] ELSE q[j + 1]
    BY <1>1, <2>1, <2>4, RemoveAtFacts
  <2> DEFINE at(j) == IF j < i THEN j ELSE j + 1
  <2>6. \A j \in 1..Len(r) : at(j) \in 1..Len(q) /\ at(j) # i /\ r[j] = q[at(j)]
    BY <1>1, <2>1, <2>5
  <2>7. \A j, k \in 1..Len(r) : (j < k => at(j) < at(k)) /\ (at(j) = at(k) => j = k)
    BY <1>1, <2>5
  <2>8. \A k \in 1..Len(q) : k # i => \E j \in 1..Len(r) : at(j) = k
    <3> TAKE k \in 1..Len(q)
    <3>1. CASE k < i
      BY <1>1, <2>1, <2>5, <3>1
    <3>2. CASE k > i
      <4>1. k - 1 \in 1..Len(r) /\ at(k - 1) = k
        BY <1>1, <2>1, <2>5, <3>2
      <4> QED BY <4>1
    <3> QED BY <2>1, <3>1, <3>2
  <2> HIDE DEF at
  <2>9. R.queue = r /\ R.dot = S.dot
    BY <1>2
  <2>10. SortedQueue(R) /\ OneEach(R)
    <3>1. \A j, k \in 1..Len(q) : j < k => q[j].at <= q[k].at
      BY DEF Queued, SortedQueue, q
    <3>2. \A j, k \in 1..Len(q) : q[j].dot = q[k].dot => j = k
      BY DEF Queued, OneEach, q
    <3>3. SortedQueue(R)
      BY <2>6, <2>7, <2>9, <3>1 DEF SortedQueue
    <3>4. OneEach(R)
      BY <2>6, <2>7, <2>9, <3>2 DEF OneEach
    <3> QED BY <3>3, <3>4
  <2>11. NoneLeft(R, X \cup {d})
    <3>1. \A j \in 1..Len(q) : /\ q[j].dot \in Dots \ X /\ Up(S, q[j].dot)
                               /\ S.dot[q[j].dot].tickAt = q[j].at
      BY DEF Queued, NoneLeft, q
    <3>2. \A j \in 1..Len(q) : q[j].dot = d => j = i
      BY <1>3, <2>2
    <3> QED BY <2>6, <2>9, <3>1, <3>2 DEF NoneLeft, Up
  <2>12. AllQueued(R, X \cup {d})
    <3> SUFFICES ASSUME NEW c \in Dots \ (X \cup {d}), Up(R, c)
                 PROVE  \E j \in 1..Len(R.queue) : R.queue[j].dot = c
      BY DEF AllQueued
    <3>1. PICK k \in 1..Len(q) : q[k].dot = c
      BY <2>9 DEF Queued, AllQueued, Up, q
    <3>2. k # i
      BY <1>3, <2>1, <3>1
    <3>3. PICK j \in 1..Len(r) : at(j) = k
      BY <2>8, <3>2
    <3> QED BY <2>6, <2>9, <3>1, <3>3
  <2>13. R \in States
    BY <1>2, <2>5 DEF States
  <2> QED BY <1>2, <2>10, <2>11, <2>12, <2>13 DEF Queued
<1>5. CASE ~\E i \in 1..Len(q) : q[i] = e
  <2>1. r = q
    BY <1>5 DEF RemoveFirst
  <2> HIDE DEF r
  <2>2. R \in States /\ R.queue = q /\ R.dot = S.dot
    BY <1>2, <2>1 DEF States
  <2>3. \A i \in 1..Len(q) : q[i].dot # d
    BY <1>3, <1>5
  <2> HIDE DEF e, R
  <2>4. SortedQueue(R) /\ OneEach(R)
    BY <2>2 DEF Queued, SortedQueue, OneEach
  <2>5. NoneLeft(R, X \cup {d})
    BY <2>2, <2>3 DEF Queued, NoneLeft, Up
  <2>6. AllQueued(R, X \cup {d})
    BY <2>2 DEF Queued, AllQueued, Up
  <2>7. R.channel = S.channel /\ R.last = S.last /\ R.strays = S.strays
    BY <1>2 DEF R
  <2> QED BY <2>2, <2>4, <2>5, <2>6, <2>7 DEF Queued, R
<1> QED BY <1>4, <1>5

\* An action is added where the queue stays sorted.
LEMMA AddFacts ==
  ASSUME NEW S \in States, NEW X, NEW d \in Dots, d \in X, NEW at \in Nat, Queued(S, X), Up(S, d)
  PROVE  LET R == AddAction(S, d, at)
         IN  /\ R \in States /\ R.channel = S.channel /\ R.last = S.last /\ R.strays = S.strays
             /\ R.dot = [S.dot EXCEPT ![d] = [S.dot[d] EXCEPT !.tickAt = at]]
             /\ Queued(R, X \ {d})
<1> DEFINE q == S.queue
           e == [dot |-> d, at |-> at]
           ahead == {i \in DOMAIN q : q[i].at <= at}
           k == Cardinality(ahead) + 1
           r == InsertAt(q, k, e)
           dd == [S.dot EXCEPT ![d] = [S.dot[d] EXCEPT !.tickAt = at]]
           R == AddAction(S, d, at)
<1>1. /\ q \in Seq(Entries) /\ Len(q) \in Nat /\ \A i \in 1..Len(q) : q[i] \in Entries
      /\ DOMAIN q = 1..Len(q) /\ \A i \in 1..Len(q) : q[i].at \in Nat
  <2>1. S.queue \in Seq(Entries)
    BY DEF States
  <2>2. q \in Seq(Entries)
    BY <2>1
  <2> HIDE DEF q
  <2>3. /\ Len(q) \in Nat /\ DOMAIN q = 1..Len(q)
        /\ \A i \in 1..Len(q) : q[i] \in Entries
    BY <2>2
  <2> QED BY <2>2, <2>3 DEF Entries
<1>2. R = [dot |-> dd, queue |-> r, channel |-> S.channel, last |-> S.last, strays |-> S.strays]
  <2>1. S = [dot |-> S.dot, queue |-> q, channel |-> S.channel, last |-> S.last,
             strays |-> S.strays]
    BY DEF States
  <2>2. R = [[S EXCEPT !.queue = r] EXCEPT !.dot[d].tickAt = at]
    BY DEF AddAction
  <2> HIDE DEF R, r, q
  <2>3. [S EXCEPT !.queue = r] = [dot |-> S.dot, queue |-> r, channel |-> S.channel,
                                  last |-> S.last, strays |-> S.strays]
    BY <2>1
  <2> QED BY <2>2, <2>3
<1>3. /\ \A i, j \in 1..Len(q) : i < j => q[i].at <= q[j].at
      /\ \A i, j \in 1..Len(q) : q[i].dot = q[j].dot => i = j
      /\ \A i \in 1..Len(q) : /\ q[i].dot \in Dots \ X /\ Up(S, q[i].dot)
                              /\ S.dot[q[i].dot].tickAt = q[i].at
      /\ \A c \in Dots \ X : Up(S, c) => \E i \in 1..Len(q) : q[i].dot = c
  BY DEF Queued, SortedQueue, OneEach, NoneLeft, AllQueued
<1> HIDE DEF q, R, dd
<1>4. /\ k \in 1..(Len(q) + 1)
      /\ \A i \in 1..Len(q) : i < k => q[i].at <= at
      /\ \A i \in 1..Len(q) : i >= k => at <= q[i].at
  <2> DEFINE T == {i \in 1..(Len(q) + 1) : i = Len(q) + 1 \/ at < q[i].at}
  <2>1. T # {} /\ T \subseteq Nat
    BY <1>1
  <2>2. PICK m \in T : \A i \in T : m <= i
    BY <2>1, LeastNatural DEF HasLeast
  <2>3. m \in 1..(Len(q) + 1) /\ m - 1 \in Nat
    BY <1>1, <2>2
  <2>4. \A i \in 1..Len(q) : i < m => q[i].at <= at
    BY <1>1, <2>2, <2>3
  <2>5. \A i \in 1..Len(q) : i >= m => at < q[i].at
    <3> SUFFICES ASSUME NEW i \in 1..Len(q), i >= m PROVE at < q[i].at
      OBVIOUS
    <3>1. m \in 1..Len(q) /\ at < q[m].at
      BY <1>1, <2>2, <2>3
    <3>2. q[m].at <= q[i].at
      BY <1>1, <1>3, <3>1
    <3> QED BY <1>1, <3>1, <3>2
  <2>6. ahead = 1..(m - 1)
    BY <1>1, <2>3, <2>4, <2>5
  <2>7. Cardinality(1..(m - 1)) = m - 1
    BY <2>3, FS_Interval
  <2>8. k = m
    <3>1. Cardinality(ahead) = m - 1
      BY <2>6, <2>7
    <3> HIDE DEF ahead, T
    <3> QED BY <2>3, <3>1
  <2> HIDE DEF k, T
  <2> QED BY <1>1, <2>3, <2>4, <2>5, <2>8
<1> HIDE DEF k
<1>5. /\ r \in Seq(Entries) /\ Len(r) = Len(q) + 1
      /\ \A i \in 1..(Len(q) + 1) : r[i] = IF i < k THEN q[i] ELSE IF i = k THEN e ELSE q[i - 1]
  <2>1. e \in Entries
    BY DEF Entries
  <2> HIDE DEF e
  <2> QED BY <1>1, <1>4, <2>1, InsertAtFacts
<1>6. e.dot = d /\ e.at = at
  OBVIOUS
<1> HIDE DEF r, e
<1>7. /\ R.dot = dd /\ R.queue = r /\ R.channel = S.channel /\ R.last = S.last
      /\ R.strays = S.strays
  BY <1>2
<1>8. dd \in [Dots -> Records]
  <2>1. S.dot \in [Dots -> Records] /\ at \in Nat \cup {Nil}
    BY DEF States
  <2>2. [S.dot[d] EXCEPT !.tickAt = at] \in Records
    BY <2>1 DEF Records
  <2> QED BY <2>1, <2>2 DEF dd
<1>9. R \in States
  BY <1>2, <1>5, <1>8 DEF States
<1>10. /\ \A c \in Dots : Up(R, c) = Up(S, c)
       /\ \A c \in Dots : c # d => R.dot[c].tickAt = S.dot[c].tickAt
       /\ R.dot[d].tickAt = at
  <2>1. S.dot \in [Dots -> Records] /\ S.dot[d] \in Records
    BY DEF States
  <2> QED BY <1>7, <2>1 DEF dd, Up, Records
<1>11. SortedQueue(R)
  <2> SUFFICES ASSUME NEW i \in 1..Len(r), NEW j \in 1..Len(r), i < j PROVE r[i].at <= r[j].at
    BY <1>7 DEF SortedQueue
  <2>1. CASE i < k /\ j < k
    BY <1>1, <1>3, <1>4, <1>5, <2>1
  <2>2. CASE i < k /\ j = k
    BY <1>1, <1>4, <1>5, <1>6, <2>2
  <2>3. CASE i < k /\ j > k
    BY <1>1, <1>3, <1>4, <1>5, <2>3
  <2>4. CASE i = k
    BY <1>1, <1>4, <1>5, <1>6, <2>4
  <2>5. CASE i > k
    BY <1>1, <1>3, <1>4, <1>5, <2>5
  <2> QED BY <1>1, <1>4, <1>5, <2>1, <2>2, <2>3, <2>4, <2>5
<1>12. \A i \in 1..Len(q) : q[i].dot # d
  BY <1>3
<1>13. OneEach(R)
  <2> SUFFICES ASSUME NEW i \in 1..Len(r), NEW j \in 1..Len(r), r[i].dot = r[j].dot PROVE i = j
    BY <1>7 DEF OneEach
  <2> DEFINE old(x) == IF x < k THEN x ELSE x - 1
  <2>1. \A x \in 1..Len(r) : x # k => old(x) \in 1..Len(q) /\ r[x] = q[old(x)]
    BY <1>1, <1>4, <1>5
  <2>2. r[k].dot = d /\ k \in 1..Len(r)
    BY <1>1, <1>4, <1>5, <1>6
  <2>3. old(i) = old(j) /\ i # k /\ j # k => i = j
    BY <1>1, <1>4, <1>5
  <2> HIDE DEF old
  <2>4. CASE i = k
    BY <1>12, <2>1, <2>2, <2>4
  <2>5. CASE j = k
    BY <1>12, <2>1, <2>2, <2>5
  <2>6. CASE i # k /\ j # k
    BY <1>3, <2>1, <2>3, <2>6
  <2> QED BY <2>4, <2>5, <2>6
<1>14. NoneLeft(R, X \ {d})
  <2> SUFFICES ASSUME NEW i \in 1..Len(r)
               PROVE  /\ r[i].dot \in Dots \ (X \ {d}) /\ Up(R, r[i].dot)
                      /\ R.dot[r[i].dot].tickAt = r[i].at
    BY <1>7 DEF NoneLeft
  <2>1. CASE i = k
    BY <1>1, <1>4, <1>5, <1>6, <1>10, <2>1
  <2>2. CASE i # k
    <3>1. PICK j \in 1..Len(q) : r[i] = q[j]
      BY <1>1, <1>4, <1>5, <2>2
    <3> QED BY <1>3, <1>10, <1>12, <3>1
  <2> QED BY <2>1, <2>2
<1>15. AllQueued(R, X \ {d})
  <2> SUFFICES ASSUME NEW c \in Dots \ (X \ {d}), Up(R, c)
               PROVE  \E i \in 1..Len(r) : r[i].dot = c
    BY <1>7 DEF AllQueued
  <2>1. CASE c = d
    BY <1>1, <1>4, <1>5, <1>6, <2>1
  <2>2. CASE c # d
    <3>1. PICK i \in 1..Len(q) : q[i].dot = c
      BY <1>3, <1>10, <2>2
    <3>2. CASE i < k
      BY <1>1, <1>4, <1>5, <3>1, <3>2
    <3>3. CASE i >= k
      <4>1. i + 1 \in 1..Len(r) /\ r[i + 1] = q[i]
        BY <1>1, <1>4, <1>5, <3>3
      <4> QED BY <3>1, <4>1
    <3> QED BY <1>4, <3>2, <3>3
  <2> QED BY <2>1, <2>2
<1> QED BY <1>7, <1>9, <1>11, <1>13, <1>14, <1>15 DEF Queued, R, dd

-----------------------------------------------------------------------------
(* The end of a dot *)

\* R is S once the dots ds have ended; in Ended no tick was out of time.
Done(S, R, ds) ==
    /\ R.dot = [d \in Dots |-> IF d \in ds THEN Idle ELSE S.dot[d]]
    /\ R.channel = [c \in Casters |-> IF S.channel[c] \in ds THEN Nil ELSE S.channel[c]]
    /\ \A d \in Dots : d \notin ds \/ ~Up(S, d) => R.last[d] = S.last[d]
Ended(S, R, ds) == Done(S, R, ds) /\ R.strays = S.strays

\* What the end of d ticks: nothing but a tick that is due at t, which is in time unless the
\* action is off the queue.
LastTicked(S, R, d, X, t) ==
    /\ S.dot[d].tickAt # t => R.last = S.last
    /\ d \notin X \/ S.dot[d].tickAt # t => R.strays = S.strays
    /\ R.strays \subseteq S.strays \cup {d}

\* What is kept when dots end.
LEMMA EndedKeeps ==
  ASSUME NEW S, NEW R, NEW t \in Nat, NEW X, NEW Y, NEW d \in Dots, DotsInv(S, t, X, Y),
         Done(S, R, {d}), R \in States, Queued(R, X \ {d}), R.last[d] <= t
  PROVE  DotsInv(R, t, X \ {d}, Y)
<1>1. /\ \A e \in Dots : Up(R, e) => e # d /\ Up(S, e)
      /\ \A e \in Dots : e # d => R.dot[e] = S.dot[e] /\ R.last[e] = S.last[e]
      /\ R.dot[d] = Idle /\ ~Up(R, d)
  BY DEF Done, Up, Idle
<1>2. TimesInv(R, t, X \ {d})
  BY <1>1 DEF DotsInv, TimesInv, Up
<1>3. ChannelInv(R, Y)
  <2>1. \A c \in Casters : R.channel[c] = IF S.channel[c] = d THEN Nil ELSE S.channel[c]
    BY DEF Done
  <2>2. ASSUME NEW c \in Casters, R.channel[c] # Nil
        PROVE  R.channel[c] \in Channels \ Y /\ CasterOf(R.channel[c]) = c /\ Up(R, R.channel[c])
    <3>1. S.channel[c] # d /\ R.channel[c] = S.channel[c]
      BY <2>1, <2>2
    <3>2. S.channel[c] \in Channels \ Y /\ CasterOf(S.channel[c]) = c /\ Up(S, S.channel[c])
      BY <2>2, <3>1 DEF DotsInv, ChannelInv
    <3>3. S.channel[c] \in Dots
      BY <3>2, DotsAssumption
    <3> QED BY <1>1, <3>1, <3>2, <3>3 DEF Up
  <2>3. ASSUME NEW e \in Channels \ Y, Up(R, e) PROVE R.channel[CasterOf(e)] = e
    <3>1. e \in Dots /\ CasterOf(e) \in Casters
      BY DotsAssumption
    <3>2. e # d /\ S.channel[CasterOf(e)] = e
      BY <1>1, <2>3, <3>1 DEF DotsInv, ChannelInv
    <3> QED BY <2>1, <3>1, <3>2
  <2> QED BY <2>2, <2>3 DEF ChannelInv
<1>4. GroupInv(R)
  BY <1>1 DEF DotsInv, GroupInv
<1> QED BY <1>2, <1>3, <1>4 DEF DotsInv

\* A tick counts, and changes nothing else its dot knows.
LEMMA TickedFacts ==
  ASSUME NEW r \in Records
  PROVE  LET n == Ticked(r)
         IN  /\ n \in Records /\ n.left = r.left - 1 /\ n.done = r.done + 1
             /\ n.active = r.active /\ n.expires = r.expires /\ n.duration = r.duration
             /\ n.period = r.period /\ n.tickAt = r.tickAt
<1>1. PICK x \in Int : x = r.left - 1
  BY DEF Records
<1>2. PICK y \in Nat : y = r.done + 1
  BY DEF Records
<1> DEFINE n == [r EXCEPT !.left = x, !.done = y]
<1>3. n \in Records
  BY DEF Records
<1>4. /\ n.left = x /\ n.done = y /\ n.active = r.active /\ n.expires = r.expires
      /\ n.duration = r.duration /\ n.period = r.period /\ n.tickAt = r.tickAt
  BY DEF Records
<1>5. Ticked(r) = n
  BY <1>1, <1>2 DEF Ticked
<1> HIDE DEF n
<1> QED BY <1>1, <1>2, <1>3, <1>4, <1>5

\* A tick changes the counts of its dot, and when it last ticked; out of time it is a stray.
LEMMA TickFacts ==
  ASSUME NEW S \in States, NEW d \in Dots, NEW t \in Nat
  PROVE  LET R == TickOnce(S, d, t)
         IN  /\ R \in States /\ R.queue = S.queue /\ R.channel = S.channel
             /\ R.strays = IF OnTime(S, d, t) THEN S.strays ELSE S.strays \cup {d}
             /\ R.dot = [S.dot EXCEPT ![d] = Ticked(S.dot[d])]
             /\ R.last = [S.last EXCEPT ![d] = t]
<1> DEFINE R == TickOnce(S, d, t)
           r == Ticked(S.dot[d])
           dd == [S.dot EXCEPT ![d] = r]
           l == [S.last EXCEPT ![d] = t]
           w == IF OnTime(S, d, t) THEN S.strays ELSE S.strays \cup {d}
<1>1. /\ S = [dot |-> S.dot, queue |-> S.queue, channel |-> S.channel, last |-> S.last,
              strays |-> S.strays]
      /\ S.dot \in [Dots -> Records] /\ S.last \in [Dots -> Nat] /\ S.dot[d] \in Records
  <2>1. S = [dot |-> S.dot, queue |-> S.queue, channel |-> S.channel, last |-> S.last,
             strays |-> S.strays]
    BY DEF States
  <2>2. S.dot \in [Dots -> Records] /\ S.last \in [Dots -> Nat]
    BY DEF States
  <2> QED BY <2>1, <2>2
<1>2. r \in Records
  BY <1>1, TickedFacts
<1>3. l \in [Dots -> Nat]
  BY <1>1
<1>4. R = [[[S EXCEPT !.dot[d] = r] EXCEPT !.last[d] = t] EXCEPT !.strays = w]
  BY DEF TickOnce
<1> HIDE DEF R, r
<1>5. [S EXCEPT !.dot[d] = r]
        = [dot |-> dd, queue |-> S.queue, channel |-> S.channel, last |-> S.last,
           strays |-> S.strays]
  BY <1>1
<1> HIDE DEF dd
<1>9. w \subseteq Dots
  BY DEF States
<1> HIDE DEF w
<1>6. R = [dot |-> dd, queue |-> S.queue, channel |-> S.channel, last |-> l, strays |-> w]
  BY <1>4, <1>5
<1>7. dd \in [Dots -> Records]
  BY <1>1, <1>2 DEF dd
<1> HIDE DEF l
<1>8. R \in States
  BY <1>1, <1>3, <1>6, <1>7, <1>9 DEF States
<1> QED BY <1>6, <1>8 DEF R, dd, l, r, w

\* The end of an aura keeps the invariant; it ticks only if the tick is due at this very instant,
\* and out of time only if the dot ticks already.
LEMMA DeactivateFacts ==
  ASSUME NEW S, NEW t \in Nat, NEW X, NEW Y, NEW d \in Dots \ Y, DotsInv(S, t, X, Y)
  PROVE  LET R == Deactivate(S, d, t)
         IN  DotsInv(R, t, X \ {d}, Y) /\ Done(S, R, {d}) /\ LastTicked(S, R, d, X, t)
<1> DEFINE R == Deactivate(S, d, t)
           A == LastTick(S, d, t)
           B == Cancel(A, d)
<1>1. /\ S \in States /\ Queued(S, X)
      /\ S.dot \in [Dots -> Records] /\ S.dot[d] \in Records /\ S.last \in [Dots -> Nat]
      /\ S.channel \in [Casters -> Dots \cup {Nil}] /\ S.last[d] <= t
  BY DEF DotsInv, TimesInv, States
<1>2. CASE ~Up(S, d)
  <2>1. R = S /\ S.dot[d] = Idle
    BY <1>2 DEF Deactivate, Up, DotsInv, TimesInv
  <2> HIDE DEF R
  <2>2. \A c \in Casters : S.channel[c] # d
    BY <1>2, DotsAssumption DEF DotsInv, ChannelInv
  <2>3. Done(S, R, {d})
    <3>1. S.dot = [e \in Dots |-> IF e \in {d} THEN Idle ELSE S.dot[e]]
      BY <1>1, <2>1
    <3>2. S.channel = [c \in Casters |-> IF S.channel[c] \in {d} THEN Nil ELSE S.channel[c]]
      BY <1>1, <2>2
    <3> QED BY <2>1, <3>1, <3>2 DEF Done
  <2>4. Queued(S, X \cup {d})
    BY <1>1, <1>2 DEF Queued, NoneLeft, AllQueued
  <2>5. Queued(R, X \ {d})
    BY <1>2, <2>1, <2>4, QueueDown
  <2>6. DotsInv(R, t, X \ {d}, Y)
    BY <1>1, <2>1, <2>3, <2>5, EndedKeeps
  <2>7. LastTicked(S, R, d, X, t)
    BY <2>1 DEF LastTicked
  <2> QED BY <2>3, <2>6, <2>7 DEF R
<1>3. CASE Up(S, d)
  <2>1. /\ A \in States /\ A.queue = S.queue /\ A.channel = S.channel
        /\ \A e \in Dots : /\ Up(A, e) = Up(S, e) /\ A.dot[e].tickAt = S.dot[e].tickAt
                           /\ e # d => A.dot[e] = S.dot[e] /\ A.last[e] = S.last[e]
        /\ A.last[d] <= t /\ (S.dot[d].tickAt # t => A.last = S.last)
        /\ d \notin X \/ S.dot[d].tickAt # t => A.strays = S.strays
        /\ A.strays \subseteq S.strays \cup {d}
    <3>1. CASE S.dot[d].tickAt = t
      <4>1. d \notin X => Timed(d, S.dot[d], S.last[d], t)
        BY <1>3 DEF DotsInv, TimesInv
      <4>2. d \notin X => OnTime(S, d, t)
        BY <3>1, <4>1 DEF Timed, OnBeat, OnTime
      <4>3. A = TickOnce(S, d, t)
        BY <3>1 DEF LastTick
      <4> HIDE DEF A
      <4>4. /\ A \in States /\ A.queue = S.queue /\ A.channel = S.channel
            /\ A.strays = IF OnTime(S, d, t) THEN S.strays ELSE S.strays \cup {d}
            /\ A.dot = [S.dot EXCEPT ![d] = Ticked(S.dot[d])]
            /\ A.last = [S.last EXCEPT ![d] = t]
        BY <1>1, <4>3, TickFacts
      <4>5. A.dot[d] = Ticked(S.dot[d])
        BY <1>1, <4>4
      <4>6. A.dot[d].active = S.dot[d].active /\ A.dot[d].tickAt = S.dot[d].tickAt
        BY <1>1, <4>5, TickedFacts
      <4>7. \A e \in Dots : e # d => A.dot[e] = S.dot[e] /\ A.last[e] = S.last[e]
        BY <1>1, <4>4
      <4>8. A.last[d] = t
        BY <1>1, <4>4
      <4>9. (d \notin X => A.strays = S.strays) /\ A.strays \subseteq S.strays \cup {d}
        BY <4>2, <4>4
      <4> QED BY <3>1, <4>4, <4>6, <4>7, <4>8, <4>9 DEF Up
    <3>2. CASE S.dot[d].tickAt # t
      BY <1>1, <3>2 DEF LastTick, Up
    <3> QED BY <3>1, <3>2
  <2>2. R = [[B EXCEPT !.dot[d] = Idle] EXCEPT !.channel[CasterOf(d)] = IF d \in Channels THEN Nil ELSE @]
    BY <1>3 DEF Deactivate, Up
  <2> HIDE DEF A, B, R
  <2>3. Queued(A, X)
    BY <1>1, <2>1, QueueSame
  <2>4. /\ B \in States /\ B.dot = A.dot /\ B.channel = S.channel /\ B.last = A.last
        /\ B.strays = A.strays /\ Queued(B, X \cup {d})
    BY <2>1, <2>3, CancelFacts DEF B
  <2> DEFINE dd == [B.dot EXCEPT ![d] = Idle]
             cc == [S.channel EXCEPT ![CasterOf(d)] = IF d \in Channels THEN Nil ELSE @]
  <2>5. R = [dot |-> dd, queue |-> B.queue, channel |-> cc, last |-> B.last, strays |-> B.strays]
    <3>1. B = [dot |-> B.dot, queue |-> B.queue, channel |-> S.channel, last |-> B.last,
               strays |-> B.strays]
      BY <2>4 DEF States
    <3>2. [B EXCEPT !.dot[d] = Idle] = [dot |-> dd, queue |-> B.queue, channel |-> S.channel,
                                        last |-> B.last, strays |-> B.strays]
      BY <3>1
    <3> HIDE DEF dd
    <3> QED BY <2>2, <3>2
  <2>6. dd = [e \in Dots |-> IF e \in {d} THEN Idle ELSE S.dot[e]]
    <3>1. B.dot \in [Dots -> Records]
      BY <2>4 DEF States
    <3> QED BY <2>1, <2>4, <3>1
  <2>7. cc = [c \in Casters |-> IF S.channel[c] \in {d} THEN Nil ELSE S.channel[c]]
    <3>1. CASE d \in Channels
      <4>1. S.channel[CasterOf(d)] = d /\ CasterOf(d) \in Casters
        BY <1>3, <3>1, DotsAssumption DEF DotsInv, ChannelInv
      <4>2. \A c \in Casters : S.channel[c] = d => c = CasterOf(d)
        BY DotsAssumption DEF DotsInv, ChannelInv
      <4> QED BY <1>1, <3>1, <4>1, <4>2
    <3>2. CASE d \notin Channels
      <4>1. \A c \in Casters : S.channel[c] # d
        BY <3>2, DotsAssumption DEF DotsInv, ChannelInv
      <4> QED BY <1>1, <3>2, <4>1
    <3> QED BY <3>1, <3>2
  <2>8. cc \in [Casters -> Dots \cup {Nil}] /\ dd \in [Dots -> Records]
    <3>1. Idle \in Records
      BY DEF Idle, Records
    <3>2. cc \in [Casters -> Dots \cup {Nil}]
      <4> HIDE DEF dd
      <4> QED BY <1>1, <2>7
    <3> HIDE DEF cc
    <3> QED BY <1>1, <2>6, <3>1, <3>2
  <2> HIDE DEF dd, cc
  <2>9. R \in States
    BY <2>4, <2>5, <2>8 DEF States
  <2>10. Done(S, R, {d})
    BY <1>3, <2>1, <2>4, <2>5, <2>6, <2>7 DEF Done
  <2>11. \A e \in Dots : e # d => R.dot[e] = B.dot[e]
    BY <2>1, <2>4, <2>5, <2>6
  <2>12. ~Up(R, d)
    BY <2>5, <2>6 DEF Up, Idle
  <2>13. Queued(R, X \cup {d})
    BY <2>4, <2>5, <2>11, QueueSame DEF Up
  <2>14. Queued(R, X \ {d})
    BY <2>12, <2>13, QueueDown
  <2>15. R.last[d] <= t /\ R.strays = A.strays /\ R.last = A.last
    BY <2>1, <2>4, <2>5
  <2>16. DotsInv(R, t, X \ {d}, Y)
    BY <2>9, <2>10, <2>14, <2>15, EndedKeeps
  <2>17. LastTicked(S, R, d, X, t)
    BY <2>1, <2>15 DEF LastTicked
  <2> QED BY <2>10, <2>16, <2>17 DEF R
<1> QED BY <1>2, <1>3

\* So no tick is out of time, but that of a dot whose action is due and is not on the queue.
LEMMA DeactivateKeeps ==
  ASSUME NEW S, NEW t \in Nat, NEW X, NEW Y, NEW d \in Dots \ Y, DotsInv(S, t, X, Y),
         d \in X => S.dot[d].tickAt # t
  PROVE  LET R == Deactivate(S, d, t)
         IN  /\ DotsInv(R, t, X \ {d}, Y) /\ Ended(S, R, {d})
             /\ S.dot[d].tickAt # t => R.last = S.last
<1> DEFINE R == Deactivate(S, d, t)
<1>1. R = Deactivate(S, d, t)
  OBVIOUS
<1> HIDE DEF R
<1>2. DotsInv(R, t, X \ {d}, Y) /\ Done(S, R, {d}) /\ LastTicked(S, R, d, X, t)
  BY <1>1, DeactivateFacts
<1>3. Ended(S, R, {d}) /\ (S.dot[d].tickAt # t => R.last = S.last)
  BY <1>2 DEF Ended, LastTicked
<1> QED BY <1>2, <1>3 DEF R

\* A dot that is cut ends without a tick.
LEMMA CutKeeps ==
  ASSUME NEW S, NEW t \in Nat, t < Never, NEW X, NEW Y, NEW d \in Dots \ Y,
         DotsInv(S, t, X, Y), Up(S, d)
  PROVE  LET R == Cut(S, d, t)
         IN  /\ DotsInv(R, t, X \ {d}, Y) /\ Ended(S, R, {d})
             /\ R.last = S.last
<1> DEFINE R == Cut(S, d, t)
           A == Cancel(S, d)
           B == StopTicking(S, d)
<1>1. /\ S \in States /\ Queued(S, X) /\ S.dot \in [Dots -> Records]
      /\ S.dot[d] \in Records
  BY DEF DotsInv, States
<1>2. /\ A \in States /\ A.dot = S.dot /\ A.channel = S.channel /\ A.last = S.last
      /\ A.strays = S.strays /\ Queued(A, X \cup {d})
  BY <1>1, CancelFacts
<1> DEFINE dd == [S.dot EXCEPT ![d] = [S.dot[d] EXCEPT !.tickAt = Never]]
<1>3. B = [dot |-> dd, queue |-> A.queue, channel |-> S.channel, last |-> S.last, strays |-> S.strays]
  <2>1. B = [A EXCEPT !.dot[d].tickAt = Never]
    BY DEF StopTicking
  <2> HIDE DEF A, B
  <2>2. A = [dot |-> S.dot, queue |-> A.queue, channel |-> S.channel, last |-> S.last,
             strays |-> S.strays]
    BY <1>2 DEF States
  <2> QED BY <2>1, <2>2
<1>4. R = Deactivate(B, d, t)
  BY DEF Cut
<1> HIDE DEF A, B, R
<1>5. /\ dd \in [Dots -> Records] /\ dd[d].active /\ dd[d].tickAt = Never
      /\ \A e \in Dots : e # d => dd[e] = S.dot[e]
  <2>1. Never \in Nat
    BY DotsAssumption
  <2>2. [S.dot[d] EXCEPT !.tickAt = Never] \in Records
    BY <1>1, <2>1 DEF Records
  <2>3. S.dot[d].active
    BY DEF Up
  <2> QED BY <1>1, <2>2, <2>3 DEF Records
<1> HIDE DEF dd
<1>6. B \in States
  BY <1>1, <1>2, <1>3, <1>5 DEF States
<1>7. /\ B.dot = dd /\ B.queue = A.queue /\ B.channel = S.channel /\ B.last = S.last
      /\ B.strays = S.strays
  BY <1>3
<1>8. \A e \in Dots : Up(B, e) = Up(S, e) /\ (e # d => B.dot[e] = S.dot[e])
  BY <1>5, <1>7, <1>1 DEF Up, Records
<1>9. DotsInv(B, t, X \cup {d}, Y)
  <2>1. Queued(B, X \cup {d})
    BY <1>2, <1>7, <1>8, QueueSame DEF Up
  <2>2. TimesInv(B, t, X \cup {d})
    BY <1>7, <1>8 DEF DotsInv, TimesInv
  <2>3. ChannelInv(B, Y)
    BY <1>7, <1>8, DotsAssumption DEF DotsInv, ChannelInv
  <2>4. GroupInv(B)
    BY <1>8 DEF DotsInv, GroupInv
  <2> QED BY <1>1, <1>6, <1>7, <2>1, <2>2, <2>3, <2>4 DEF DotsInv
<1>10. B.dot[d].tickAt # t
  BY <1>5, <1>7, DotsAssumption
<1>11. /\ DotsInv(R, t, (X \cup {d}) \ {d}, Y) /\ Ended(B, R, {d})
       /\ R.last = B.last
  BY <1>4, <1>9, <1>10, DeactivateKeeps
<1>12. (X \cup {d}) \ {d} = X \ {d}
  OBVIOUS
<1>13. Ended(S, R, {d})
  BY <1>7, <1>8, <1>11 DEF Ended, Done
<1> QED BY <1>7, <1>11, <1>12, <1>13 DEF R

-----------------------------------------------------------------------------
(* The end of several dots, one after the other. FoldSet's function is defined by an equation, *)
(* so that it has a solution is to be shown first.                                              *)

\* One dot ends, in its time or cut.
EndOne(S, d, t, cut) == IF cut THEN Cut(S, d, t) ELSE Deactivate(S, d, t)
\* The order FoldSet takes.
Pick(s) == CHOOSE x \in s : TRUE
\* What g is for the dots s, from what it is for fewer.
EndNext(g, S, t, cut, s) == IF s = {} THEN S ELSE EndOne(g[s \ {Pick(s)}], Pick(s), t, cut)
Ends(g, S, t, cut, ds) == g = [s \in SUBSET ds |-> EndNext(g, S, t, cut, s)]
EndsIn(g, S, t, cut, ds, n) ==
    \A s \in SUBSET ds : Cardinality(s) <= n => g[s] = EndNext(g, S, t, cut, s)

\* A set that is not empty is one larger than without its pick.
LEMMA PickFacts ==
  ASSUME NEW s, s \subseteq Dots, s # {}
  PROVE  /\ Pick(s) \in s /\ IsFiniteSet(s) /\ IsFiniteSet(s \ {Pick(s)})
         /\ Cardinality(s) \in Nat /\ Cardinality(s \ {Pick(s)}) \in Nat
         /\ Cardinality(s) = Cardinality(s \ {Pick(s)}) + 1
<1>1. Pick(s) \in s
  BY DEF Pick
<1>2. IsFiniteSet(s)
  BY DotsAssumption, FS_Subset
<1>3. IsFiniteSet(s \ {Pick(s)}) /\ Cardinality(s \ {Pick(s)}) = Cardinality(s) - 1
  BY <1>1, <1>2, FS_RemoveElement
<1> QED BY <1>1, <1>2, <1>3, FS_CardinalityType

\* There is a function that ends the dots of each set.
LEMMA EndsExist ==
  ASSUME NEW S, NEW t, NEW cut, NEW ds, ds \subseteq Dots
  PROVE  \E g : Ends(g, S, t, cut, ds)
<1> DEFINE T == {n \in Nat : ~\E g : EndsIn(g, S, t, cut, ds, n)}
<1>1. T = {}
  <2> SUFFICES ASSUME T # {} PROVE FALSE
    OBVIOUS
  <2>1. T \subseteq Nat
    OBVIOUS
  <2>2. PICK m \in T : \A n \in T : m <= n
    BY <2>1, LeastNatural DEF HasLeast
  <2>3. m \in Nat /\ ~\E g : EndsIn(g, S, t, cut, ds, m)
    OBVIOUS
  <2>4. PICK g : \A s \in SUBSET ds : Cardinality(s) <= m - 1 => g[s] = EndNext(g, S, t, cut, s)
    <3>1. CASE m = 0
      <4>1. \A s \in SUBSET ds : ~(Cardinality(s) <= m - 1)
        <5> TAKE s \in SUBSET ds
        <5>1. Cardinality(s) \in Nat
          BY DotsAssumption, FS_Subset, FS_CardinalityType
        <5> QED BY <3>1, <5>1
      <4> QED BY <4>1
    <3>2. CASE m # 0
      <4>1. m - 1 \in Nat /\ m - 1 \notin T
        BY <2>2, <2>3, <3>2
      <4> QED BY <4>1 DEF EndsIn
    <3> QED BY <3>1, <3>2
  <2> HIDE DEF T
  <2> DEFINE h == [s \in SUBSET ds |-> EndNext(g, S, t, cut, s)]
  <2>5. ASSUME NEW s \in SUBSET ds, Cardinality(s) <= m PROVE h[s] = EndNext(h, S, t, cut, s)
    <3>1. h[s] = EndNext(g, S, t, cut, s)
      OBVIOUS
    <3>2. CASE s = {}
      BY <3>1, <3>2 DEF EndNext
    <3>3. CASE s # {}
      <4> DEFINE r == s \ {Pick(s)}
      <4>3. Cardinality(s) \in Nat /\ Cardinality(r) \in Nat /\ Cardinality(s) = Cardinality(r) + 1
        BY <3>3, PickFacts
      <4>1. r \in SUBSET ds /\ Cardinality(r) <= m - 1
        BY <2>3, <2>5, <4>3
      <4>2. g[r] = EndNext(g, S, t, cut, r) /\ h[r] = EndNext(g, S, t, cut, r)
        BY <2>4, <4>1
      <4> HIDE DEF h
      <4> QED BY <3>1, <3>3, <4>2 DEF EndNext
    <3> QED BY <3>2, <3>3
  <2> HIDE DEF h
  <2> QED BY <2>3, <2>5 DEF EndsIn
<1>2. IsFiniteSet(ds) /\ Cardinality(ds) \in Nat
  BY DotsAssumption, FS_Subset, FS_CardinalityType
<1>3. PICK g : EndsIn(g, S, t, cut, ds, Cardinality(ds))
  BY <1>1, <1>2
<1> DEFINE h == [s \in SUBSET ds |-> g[s]]
<1>4. ASSUME NEW s \in SUBSET ds PROVE h[s] = EndNext(h, S, t, cut, s)
  <2>1. Cardinality(s) <= Cardinality(ds)
    BY <1>2, FS_Subset
  <2>2. g[s] = EndNext(g, S, t, cut, s)
    BY <1>3, <2>1 DEF EndsIn
  <2>3. h[s] = g[s] /\ h[s \ {Pick(s)}] = g[s \ {Pick(s)}]
    OBVIOUS
  <2> HIDE DEF h
  <2> QED BY <2>2, <2>3 DEF EndNext
<1>5. h = [s \in SUBSET ds |-> h[s]]
  OBVIOUS
<1> HIDE DEF h
<1>6. h = [s \in SUBSET ds |-> EndNext(h, S, t, cut, s)]
  BY <1>4, <1>5
<1> QED BY <1>6 DEF Ends

\* What ends one dot keeps, it keeps for each of a set of them.
LEMMA EndsKeep ==
  ASSUME NEW S, NEW t \in Nat, t < Never, NEW cut \in BOOLEAN, NEW ds, ds \subseteq Dots, NEW g,
         Ends(g, S, t, cut, ds),
         DotsInv(S, t, {}, {}), cut => \A d \in ds : Up(S, d)
  PROVE  /\ DotsInv(g[ds], t, {}, {}) /\ Ended(S, g[ds], ds)
         /\ cut => g[ds].last = S.last
<1> DEFINE Good(s) == /\ DotsInv(g[s], t, {}, {}) /\ Ended(S, g[s], s)
                      /\ cut => g[s].last = S.last
           T == {n \in Nat : \E s \in SUBSET ds : Cardinality(s) = n /\ ~Good(s)}
<1>1. T = {}
  <2> SUFFICES ASSUME T # {} PROVE FALSE
    OBVIOUS
  <2>1. T \subseteq Nat
    OBVIOUS
  <2>2. PICK m \in T : \A n \in T : m <= n
    BY <2>1, LeastNatural DEF HasLeast
  <2>3. PICK s \in SUBSET ds : Cardinality(s) = m /\ ~Good(s)
    OBVIOUS
  <2>4. g[s] = EndNext(g, S, t, cut, s)
    BY DEF Ends
  <2>5. CASE s = {}
    <3>1. g[s] = S
      BY <2>4, <2>5 DEF EndNext
    <3>2. S.dot \in [Dots -> Records] /\ S.channel \in [Casters -> Dots \cup {Nil}]
      BY DEF DotsInv, States
    <3>3. S.dot = [d \in Dots |-> IF d \in {} THEN Idle ELSE S.dot[d]]
      BY <3>2
    <3>4. S.channel = [c \in Casters |-> IF S.channel[c] \in {} THEN Nil ELSE S.channel[c]]
      BY <3>2
    <3>5. Ended(S, S, {})
      BY <3>3, <3>4 DEF Ended, Done
    <3> QED BY <2>3, <2>5, <3>1, <3>5
  <2>6. CASE s # {}
    <3> DEFINE d == Pick(s)
               r == s \ {d}
               A == g[r]
               B == g[s]
    <3>1. r \in SUBSET ds /\ Cardinality(r) \in Nat /\ Cardinality(r) < m /\ d \in s
      <4>1. /\ d \in s /\ Cardinality(s) \in Nat /\ Cardinality(r) \in Nat
            /\ Cardinality(s) = Cardinality(r) + 1
        BY <2>6, PickFacts
      <4> HIDE DEF T, Good
      <4> QED BY <2>3, <4>1
    <3>2. Good(r)
      <4>1. Cardinality(r) \notin T
        <5> HIDE DEF T, r
        <5> QED BY <2>1, <2>2, <3>1
      <4> HIDE DEF Good, r
      <4> QED BY <3>1, <4>1
    <3>3. B = EndOne(A, d, t, cut)
      BY <2>4, <2>6 DEF EndNext
    <3>4. DotsInv(A, t, {}, {}) /\ Ended(S, A, r) /\ (cut => A.last = S.last)
      BY <3>2
    <3>5. d \in Dots /\ d \notin r /\ s = r \cup {d}
      BY <3>1
    <3> HIDE DEF A, B, d, r, T, Good
    <3>6. A.dot[d] = S.dot[d]
      BY <3>4, <3>5 DEF Ended, Done
    <3>7. DotsInv(B, t, {}, {}) /\ Ended(A, B, {d}) /\ (cut => B.last = A.last)
      <4>1. {} \ {d} = {} /\ d \in Dots \ {} /\ d \notin {}
        BY <3>5
      <4>2. CASE cut
        <5>1. Up(A, d)
          BY <3>1, <3>6, <4>2 DEF Up
        <5>2. B = Cut(A, d, t)
          BY <3>3, <4>2 DEF EndOne
        <5>3. /\ DotsInv(B, t, {} \ {d}, {}) /\ Ended(A, B, {d})
              /\ B.last = A.last
          BY <3>4, <4>1, <5>1, <5>2, CutKeeps
        <5> QED BY <4>1, <5>3
      <4>3. CASE ~cut
        <5>1. B = Deactivate(A, d, t)
          BY <3>3, <4>3 DEF EndOne
        <5>2. DotsInv(B, t, {} \ {d}, {}) /\ Ended(A, B, {d})
          BY <3>4, <4>1, <5>1, DeactivateKeeps
        <5> QED BY <4>1, <4>3, <5>2
      <4> QED BY <4>2, <4>3
    <3>8. Ended(S, B, s)
      <4>1. B.dot = [e \in Dots |-> IF e \in s THEN Idle ELSE S.dot[e]]
        BY <3>4, <3>5, <3>7 DEF Ended, Done
      <4>2. B.channel = [c \in Casters |-> IF S.channel[c] \in s THEN Nil ELSE S.channel[c]]
        <5>1. Nil # d
          BY <3>5, DotsAssumption
        <5> QED BY <3>4, <3>5, <3>7, <5>1 DEF Ended, Done
      <4>3. \A e \in Dots : e \notin s \/ ~Up(S, e) => B.last[e] = S.last[e]
        <5> SUFFICES ASSUME NEW e \in Dots, e \notin s \/ ~Up(S, e) PROVE B.last[e] = S.last[e]
          OBVIOUS
        <5>1. A.last[e] = S.last[e]
          BY <3>4, <3>5 DEF Ended, Done
        <5>2. e # d \/ ~Up(A, e)
          BY <3>5, <3>6, <3>1 DEF Up
        <5>3. B.last[e] = A.last[e]
          BY <3>7, <5>2 DEF Ended, Done
        <5> QED BY <5>1, <5>3
      <4>4. B.strays = S.strays
        BY <3>4, <3>7 DEF Ended, Done
      <4> QED BY <4>1, <4>2, <4>3, <4>4 DEF Ended, Done
    <3>9. Good(s)
      BY <3>4, <3>7, <3>8 DEF Good, B
    <3> QED BY <2>3, <3>9
  <2> QED BY <2>5, <2>6
<1>2. Cardinality(ds) \in Nat
  BY DotsAssumption, FS_Subset, FS_CardinalityType
<1>3. Cardinality(ds) \notin T
  BY <1>1
<1>4. Good(ds)
  <2> HIDE DEF Good
  <2> QED BY <1>2, <1>3
<1> QED BY <1>4

\* Dots that end in their time.
LEMMA AllKeep ==
  ASSUME NEW S, NEW t \in Nat, t < Never, NEW ds, ds \subseteq Dots, DotsInv(S, t, {}, {})
  PROVE  LET R == DeactivateAll(S, ds, t)
         IN  DotsInv(R, t, {}, {}) /\ Ended(S, R, ds)
<1> DEFINE F(g) == g = [s \in SUBSET ds |-> IF s = {} THEN S ELSE
                          Deactivate(g[s \ {CHOOSE x \in s : TRUE}], CHOOSE x \in s : TRUE, t)]
           f == CHOOSE g : F(g)
<1>1. \A g : F(g) <=> Ends(g, S, t, FALSE, ds)
  BY DEF Ends, EndNext, EndOne, Pick
<1>2. \E g : F(g)
  <2>1. \E g : Ends(g, S, t, FALSE, ds)
    BY EndsExist
  <2> HIDE DEF F
  <2> QED BY <1>1, <2>1
<1>3. F(f)
  <2> HIDE DEF F
  <2> QED BY <1>2
<1>4. DeactivateAll(S, ds, t) = f[ds]
  BY DEF DeactivateAll, FoldSet, MapThenFoldSet
<1> HIDE DEF F, f
<1>5. Ends(f, S, t, FALSE, ds)
  BY <1>1, <1>3
<1>6. DotsInv(f[ds], t, {}, {}) /\ Ended(S, f[ds], ds)
  BY <1>5, EndsKeep
<1> QED BY <1>4, <1>6

\* Channels that are cut.
CutAll(S, ds, t) == FoldSet(LAMBDA d, R : Cut(R, d, t), S, ds)

\* Channels that are cut one after another keep the invariant, as each does.
LEMMA AllCutKeep ==
  ASSUME NEW S, NEW t \in Nat, t < Never, NEW ds, ds \subseteq Dots, DotsInv(S, t, {}, {}),
         \A d \in ds : Up(S, d)
  PROVE  LET R == CutAll(S, ds, t)
         IN  /\ DotsInv(R, t, {}, {}) /\ Ended(S, R, ds)
             /\ R.last = S.last
<1> DEFINE F(g) == g = [s \in SUBSET ds |-> IF s = {} THEN S ELSE
                          Cut(g[s \ {CHOOSE x \in s : TRUE}], CHOOSE x \in s : TRUE, t)]
           f == CHOOSE g : F(g)
<1>1. \A g : F(g) <=> Ends(g, S, t, TRUE, ds)
  BY DEF Ends, EndNext, EndOne, Pick
<1>2. \E g : F(g)
  <2>1. \E g : Ends(g, S, t, TRUE, ds)
    BY EndsExist
  <2> HIDE DEF F
  <2> QED BY <1>1, <2>1
<1>3. F(f)
  <2> HIDE DEF F
  <2> QED BY <1>2
<1>4. CutAll(S, ds, t) = f[ds]
  BY DEF CutAll, FoldSet, MapThenFoldSet
<1> HIDE DEF F, f
<1>5. Ends(f, S, t, TRUE, ds)
  BY <1>1, <1>3
<1>6. /\ DotsInv(f[ds], t, {}, {}) /\ Ended(S, f[ds], ds)
      /\ f[ds].last = S.last
  BY <1>5, EndsKeep
<1> QED BY <1>4, <1>6

-----------------------------------------------------------------------------
(* The start of a dot *)

\* What the start of dot d for n periods of p leaves: the dot is up, it has its channel, and no
\* other dot ticked or started.
Started(S, R, d, t, p, n) ==
    /\ Up(R, d) /\ R.dot[d].expires = t + p * n /\ R.dot[d].duration = p * n
    /\ d \in Channels => R.channel[CasterOf(d)] = d
    /\ \A e \in Dots : e # d => R.dot[e] \in {S.dot[e], Idle} /\ R.last[e] = S.last[e]
    /\ R.strays = S.strays

\* A channel starts over the one that runs, which is cut first.
LEMMA TakeChannelKeeps ==
  ASSUME NEW S, NEW t \in Nat, t < Never, NEW d \in Dots, DotsInv(S, t, {}, {d}), Up(S, d)
  PROVE  LET R == TakeChannel(S, d, t)
         IN  /\ DotsInv(R, t, {}, {}) /\ R.dot[d] = S.dot[d] /\ R.strays = S.strays
             /\ d \in Channels => R.channel[CasterOf(d)] = d
             /\ \A e \in Dots : e # d => R.dot[e] \in {S.dot[e], Idle} /\ R.last[e] = S.last[e]
<1> DEFINE c == CasterOf(d)
           free == IF S.channel[c] = Nil THEN S ELSE Cut(S, S.channel[c], t)
           R == TakeChannel(S, d, t)
<1>1. c \in Casters /\ d # Nil /\ Nil \notin Dots /\ Channels \subseteq Dots
  BY DotsAssumption
<1>2. CASE d \notin Channels
  <2>1. R = S
    BY <1>2 DEF TakeChannel
  <2>2. ChannelInv(S, {})
    BY <1>2 DEF DotsInv, ChannelInv
  <2>3. DotsInv(S, t, {}, {})
    BY <2>2 DEF DotsInv
  <2> HIDE DEF R
  <2> QED BY <1>2, <2>1, <2>3 DEF R
<1>3. CASE d \in Channels
  <2>1. R = [free EXCEPT !.channel[c] = d]
    BY <1>3 DEF TakeChannel
  <2>2. /\ DotsInv(free, t, {}, {d}) /\ free.channel[c] = Nil /\ free.dot[d] = S.dot[d]
        /\ \A e \in Dots : free.dot[e] \in {S.dot[e], Idle} /\ free.last[e] = S.last[e]
        /\ free.strays = S.strays
    <3>1. CASE S.channel[c] = Nil
      BY <3>1
    <3>2. CASE S.channel[c] # Nil
      <4> DEFINE e == S.channel[c]
      <4>1. e \in Channels \ {d} /\ Up(S, e)
        BY <1>1, <3>2 DEF DotsInv, ChannelInv
      <4>2. e \in Dots \ {d} /\ {} \ {e} = {}
        BY <1>1, <4>1
      <4>3. free = Cut(S, e, t)
        BY <3>2
      <4> HIDE DEF free, e
      <4>4. /\ DotsInv(free, t, {} \ {e}, {d}) /\ Ended(S, free, {e})
            /\ free.last = S.last
        BY <4>1, <4>2, <4>3, CutKeeps
      <4>5. free.channel[c] = Nil
        BY <1>1, <4>4 DEF Ended, Done, e
      <4>6. free.strays = S.strays
        BY <4>4 DEF Ended, Done
      <4>7. free.dot[d] = S.dot[d] /\ \A x \in Dots : free.dot[x] \in {S.dot[x], Idle}
        BY <4>2, <4>4 DEF Ended, Done
      <4> QED BY <4>2, <4>4, <4>5, <4>7, <4>6
    <3> QED BY <3>1, <3>2
  <2> HIDE DEF free, R
  <2> DEFINE cc == [free.channel EXCEPT ![c] = d]
  <2>3. free \in States
    BY <2>2 DEF DotsInv
  <2>4. R = [dot |-> free.dot, queue |-> free.queue, channel |-> cc, last |-> free.last,
             strays |-> free.strays]
    <3>1. free = [dot |-> free.dot, queue |-> free.queue, channel |-> free.channel,
                  last |-> free.last, strays |-> free.strays]
      BY <2>3 DEF States
    <3> HIDE DEF c
    <3> QED BY <2>1, <3>1
  <2>5. free.channel \in [Casters -> Dots \cup {Nil}]
    BY <2>3 DEF States
  <2>6. /\ cc \in [Casters -> Dots \cup {Nil}] /\ cc[c] = d
        /\ \A x \in Casters : x # c => cc[x] = free.channel[x]
    BY <1>1, <2>5
  <2> HIDE DEF cc
  <2>7. R \in States
    BY <2>3, <2>4, <2>6 DEF States
  <2>8. /\ R.dot = free.dot /\ R.queue = free.queue /\ R.channel = cc /\ R.last = free.last
        /\ R.strays = free.strays
    BY <2>4
  <2>9. Queued(R, {})
    BY <2>2, <2>8, QueueSame DEF DotsInv, Up
  <2>10. TimesInv(R, t, {}) /\ GroupInv(R)
    BY <2>2, <2>8 DEF DotsInv, TimesInv, GroupInv, Up
  <2>11. ChannelInv(R, {})
    <3>1. Up(free, d)
      BY <2>2 DEF Up
    <3>2. ChannelInv(free, {d})
      BY <2>2 DEF DotsInv
    <3>3. ASSUME NEW x \in Casters, cc[x] # Nil
          PROVE  cc[x] \in Channels /\ CasterOf(cc[x]) = x /\ Up(free, cc[x])
      <4>1. CASE x = c
        BY <1>3, <2>6, <3>1, <4>1
      <4>2. CASE x # c
        BY <2>6, <3>2, <3>3, <4>2 DEF ChannelInv
      <4> QED BY <4>1, <4>2
    <3>4. ASSUME NEW e \in Channels, Up(free, e) PROVE cc[CasterOf(e)] = e
      <4>1. CASE e = d
        BY <2>6, <4>1
      <4>2. CASE e # d
        <5>1. free.channel[CasterOf(e)] = e /\ CasterOf(e) \in Casters /\ e # Nil
          BY <1>1, <3>2, <3>4, <4>2, DotsAssumption DEF ChannelInv
        <5>2. CasterOf(e) # c
          BY <2>2, <5>1
        <5> QED BY <2>6, <5>1, <5>2
      <4> QED BY <4>1, <4>2
    <3> QED BY <2>8, <3>3, <3>4 DEF ChannelInv, Up
  <2>12. DotsInv(R, t, {}, {})
    BY <2>2, <2>7, <2>8, <2>9, <2>10, <2>11 DEF DotsInv
  <2> QED BY <2>2, <2>6, <2>8, <2>12 DEF R
<1> QED BY <1>2, <1>3

\* The numbers of a dot at its start: the ticks fill its time.
LEMMA FreshNumbers ==
  ASSUME NEW t \in Nat, NEW p \in Nat \ {0}, NEW n \in Nat \ {0}
  PROVE  /\ p * n \in Nat /\ p * n > 0 /\ t + p * n \in Nat /\ t + p * n > t
         /\ t + p * n = (t + p) + (n - 1) * p /\ (0 + n) * p = p * n
<1> DEFINE k == n - 1
<1>1. k \in Nat /\ n = k + 1
  OBVIOUS
<1> HIDE DEF k
<1>2. p * n = p * k + p /\ n * p = p * n /\ k * p = p * k /\ p * k \in Nat
  BY <1>1
<1>3. (n - 1) * p = p * k
  BY <1>1, <1>2
<1> QED BY <1>2, <1>3

\* A dot that is down starts, no rank of its group being up.
LEMMA ActivateKeeps ==
  ASSUME NEW S, NEW t \in Nat, t < Never, NEW d \in Dots, DotsInv(S, t, {}, {}), ~Up(S, d),
         NEW p \in Nat \ {0}, NEW n \in Nat \ {0},
         GroupOf(d) # Nil => \A e \in Rivals(d) : ~Up(S, e)
  PROVE  LET R == Activate(S, d, t, p, n)
         IN  DotsInv(R, t, {}, {}) /\ Started(S, R, d, t, p, n)
<1> DEFINE r == [active |-> TRUE, expires |-> t + p * n, duration |-> p * n,
                 period |-> p, left |-> n, done |-> 0, tickAt |-> Nil]
           dd == [S.dot EXCEPT ![d] = r]
           l == [S.last EXCEPT ![d] = t]
           U == [dot |-> dd, queue |-> S.queue, channel |-> S.channel, last |-> l,
                 strays |-> S.strays]
           A == AddAction(U, d, t + p)
           R == Activate(S, d, t, p, n)
<1>1. /\ S \in States /\ Queued(S, {}) /\ S.dot \in [Dots -> Records]
      /\ S.last \in [Dots -> Nat]
      /\ S = [dot |-> S.dot, queue |-> S.queue, channel |-> S.channel, last |-> S.last,
              strays |-> S.strays]
  <2>1. S \in States /\ Queued(S, {})
    BY DEF DotsInv
  <2> QED BY <2>1 DEF States
<1>2. R = TakeChannel(A, d, t)
  <2> DEFINE V == [S EXCEPT !.dot[d] = r]
  <2>1. R = TakeChannel(AddAction([V EXCEPT !.last[d] = t], d, t + p), d, t)
    BY DEF Activate
  <2> HIDE DEF r, R
  <2>2. V = [dot |-> dd, queue |-> S.queue, channel |-> S.channel, last |-> S.last,
             strays |-> S.strays]
    BY <1>1
  <2> HIDE DEF dd, V
  <2>3. [V EXCEPT !.last[d] = t] = U
    BY <2>2
  <2> QED BY <2>1, <2>3
<1>3. /\ r.active /\ r.expires = t + p * n /\ r.duration = p * n /\ r.period = p /\ r.left = n
      /\ r.done = 0 /\ r.tickAt = Nil
  OBVIOUS
<1>4. r \in Records
  BY FreshNumbers DEF Records
<1> HIDE DEF r, A, R
<1>5. /\ dd \in [Dots -> Records] /\ dd[d] = r /\ \A e \in Dots : e # d => dd[e] = S.dot[e]
      /\ l \in [Dots -> Nat] /\ l[d] = t /\ \A e \in Dots : e # d => l[e] = S.last[e]
  BY <1>1, <1>4
<1> HIDE DEF dd, l
<1>6. U \in States
  BY <1>1, <1>5 DEF States
<1>7. /\ U.dot = dd /\ U.queue = S.queue /\ U.channel = S.channel /\ U.last = l
      /\ U.strays = S.strays
  BY <1>1
<1> HIDE DEF U
<1>8. Up(U, d) /\ \A e \in Dots : e # d => Up(U, e) = Up(S, e)
  BY <1>3, <1>5, <1>7 DEF Up
<1>9. Queued(U, {d})
  <2>1. Queued(S, {d})
    BY <1>1 DEF Queued, NoneLeft, AllQueued
  <2> QED BY <1>5, <1>7, <1>8, <2>1, QueueSame DEF Up
<1>10. GroupInv(U)
  <2> SUFFICES ASSUME NEW x \in Dots, NEW y \in Dots, Up(U, x), Up(U, y), GroupOf(x) # Nil,
                      y \in Rivals(x)
               PROVE  x = y
    BY DEF GroupInv
  <2>1. CASE x # d /\ y # d
    BY <1>8, <2>1 DEF DotsInv, GroupInv
  <2>2. CASE x = d /\ y # d
    BY <1>8, <2>2
  <2>3. CASE x # d /\ y = d
    <3>1. GroupOf(d) # Nil /\ x \in Rivals(d)
      BY <2>3 DEF Rivals, Ranks
    <3> QED BY <1>8, <2>3, <3>1
  <2> QED BY <2>1, <2>2, <2>3
<1>11. ChannelInv(U, {d})
  <2>1. \A c \in Casters : S.channel[c] # Nil => S.channel[c] # d /\ S.channel[c] \in Dots
    BY DotsAssumption DEF DotsInv, ChannelInv
  <2>2. Channels \subseteq Dots
    BY DotsAssumption
  <2> QED BY <1>7, <1>8, <2>1, <2>2 DEF DotsInv, ChannelInv
<1>12. t + p \in Nat /\ d \in {d} /\ {d} \ {d} = {}
  OBVIOUS
<1>13. /\ A \in States /\ A.channel = S.channel /\ A.last = l /\ A.strays = S.strays
       /\ A.dot = [dd EXCEPT ![d] = [dd[d] EXCEPT !.tickAt = t + p]]
       /\ Queued(A, {})
  <2>1. LET a == AddAction(U, d, t + p)
        IN  /\ a \in States /\ a.channel = U.channel /\ a.last = U.last /\ a.strays = U.strays
            /\ a.dot = [U.dot EXCEPT ![d] = [U.dot[d] EXCEPT !.tickAt = t + p]]
            /\ Queued(a, {d} \ {d})
    BY <1>6, <1>8, <1>9, <1>12, AddFacts
  <2> QED BY <1>7, <1>12, <2>1 DEF A
<1>14. /\ A.dot[d].active /\ A.dot[d].expires = t + p * n /\ A.dot[d].duration = p * n
       /\ A.dot[d].period = p /\ A.dot[d].left = n /\ A.dot[d].done = 0 /\ A.dot[d].tickAt = t + p
       /\ \A e \in Dots : e # d => A.dot[e] = S.dot[e]
  <2>1. A.dot[d] = [r EXCEPT !.tickAt = t + p]
    BY <1>5, <1>13
  <2>2. \A e \in Dots : e # d => A.dot[e] = S.dot[e]
    BY <1>5, <1>13
  <2> QED BY <1>3, <1>4, <2>1, <2>2 DEF Records
<1>15. /\ Up(A, d) /\ \A e \in Dots : Up(A, e) <=> Up(U, e)
       /\ \A e \in Dots : e # d => A.last[e] = S.last[e]
       /\ A.last[d] = t
  BY <1>5, <1>8, <1>13, <1>14 DEF Up
<1>16. Timed(d, A.dot[d], A.last[d], t)
  <2>1. /\ p * n \in Nat /\ p * n > 0 /\ t + p * n \in Nat /\ t + p * n > t
        /\ t + p * n = (t + p) + (n - 1) * p /\ (0 + n) * p = p * n
    BY FreshNumbers
  <2>2. Counted(d, A.dot[d])
    BY <1>14, <2>1 DEF Counted
  <2>3. OnBeat(d, A.dot[d], A.last[d])
    BY <1>14, <1>15 DEF OnBeat
  <2> QED BY <1>14, <2>2, <2>3 DEF Timed
<1>17. TimesInv(A, t, {})
  BY <1>14, <1>15, <1>16 DEF DotsInv, TimesInv, Up
<1>18. ChannelInv(A, {d}) /\ GroupInv(A)
  BY <1>7, <1>10, <1>11, <1>13, <1>15, DotsAssumption DEF ChannelInv, GroupInv
<1>19. DotsInv(A, t, {}, {d})
  BY <1>1, <1>13, <1>17, <1>18 DEF DotsInv
<1>20. /\ DotsInv(R, t, {}, {}) /\ R.dot[d] = A.dot[d] /\ R.strays = A.strays
       /\ d \in Channels => R.channel[CasterOf(d)] = d
       /\ \A e \in Dots : e # d => R.dot[e] \in {A.dot[e], Idle} /\ R.last[e] = A.last[e]
  BY <1>2, <1>15, <1>19, TakeChannelKeeps
<1>21. Started(S, R, d, t, p, n)
  BY <1>13, <1>14, <1>15, <1>20 DEF Started, Up
<1> QED BY <1>20, <1>21 DEF R

-----------------------------------------------------------------------------
(* The next tick of a dot that stays up *)

\* An action on the queue ticks nothing.
LEMMA AddStrays ==
  ASSUME NEW S \in States, NEW d \in Dots, NEW at \in Nat
  PROVE  AddAction(S, d, at).strays = S.strays
BY DEF AddAction, States

\* The action of a dot that is up is due again at a time its numbers agree with.
LEMMA RequeueKeeps ==
  ASSUME NEW U, NEW t \in Nat, NEW d \in Dots, NEW at \in Nat, DotsInv(U, t, {d}, {}), Up(U, d),
         Timed(d, [U.dot[d] EXCEPT !.tickAt = at], U.last[d], t)
  PROVE  LET R == AddAction(U, d, at)
         IN  /\ DotsInv(R, t, {}, {}) /\ R.channel = U.channel /\ R.last = U.last
             /\ R.dot[d] = [U.dot[d] EXCEPT !.tickAt = at]
             /\ \A e \in Dots : e # d => R.dot[e] = U.dot[e]
<1> DEFINE R == AddAction(U, d, at)
           r == [U.dot[d] EXCEPT !.tickAt = at]
<1>1. U \in States /\ Queued(U, {d}) /\ U.dot \in [Dots -> Records]
      /\ U.dot[d] \in Records
  BY DEF DotsInv, States
<1>2. d \in {d} /\ {d} \ {d} = {}
  OBVIOUS
<1>3. /\ R \in States /\ R.channel = U.channel /\ R.last = U.last /\ R.strays = U.strays
      /\ R.dot = [U.dot EXCEPT ![d] = r] /\ Queued(R, {d} \ {d})
  BY <1>1, <1>2, AddFacts
<1>4. r.active = U.dot[d].active
  BY <1>1 DEF Records
<1> HIDE DEF R, r
<1>5. R.dot[d] = r /\ \A e \in Dots : e # d => R.dot[e] = U.dot[e]
  BY <1>1, <1>3
<1>6. \A e \in Dots : Up(R, e) = Up(U, e)
  BY <1>4, <1>5 DEF Up
<1>7. TimesInv(R, t, {})
  <2> SUFFICES ASSUME NEW e \in Dots
               PROVE  /\ R.last[e] <= t
                      /\ ~Up(R, e) => R.dot[e] = Idle
                      /\ Up(R, e) => Timed(e, R.dot[e], R.last[e], t)
    BY DEF TimesInv
  <2>1. CASE e = d
    <3>1. Timed(d, r, U.last[d], t) /\ U.last[d] <= t
      BY DEF r, DotsInv, TimesInv
    <3> QED BY <1>3, <1>5, <1>6, <2>1, <3>1
  <2>2. CASE e # d
    BY <1>3, <1>5, <1>6, <2>2 DEF DotsInv, TimesInv
  <2> QED BY <2>1, <2>2
<1>8. ChannelInv(R, {}) /\ GroupInv(R)
  BY <1>3, <1>6, DotsAssumption DEF DotsInv, ChannelInv, GroupInv
<1>9. DotsInv(R, t, {}, {})
  BY <1>1, <1>2, <1>3, <1>7, <1>8 DEF DotsInv
<1> QED BY <1>3, <1>5, <1>9 DEF R, r

\* The next action is off the queue before it runs.
LEMMA TailFacts ==
  ASSUME NEW S, NEW t \in Nat, DotsInv(S, t, {}, {}), S.queue # <<>>
  PROVE  LET d == Head(S.queue).dot
             R == [S EXCEPT !.queue = Tail(@)]
         IN  /\ d \in Dots /\ Up(S, d) /\ S.dot[d].tickAt = Head(S.queue).at
             /\ R.dot = S.dot /\ R.channel = S.channel /\ R.last = S.last
             /\ R.strays = S.strays /\ DotsInv(R, t, {d}, {})
<1> DEFINE q == S.queue
           r == Tail(q)
           d == Head(q).dot
           R == [S EXCEPT !.queue = r]
<1>1. /\ S \in States /\ Queued(S, {}) /\ q \in Seq(Entries)
      /\ S = [dot |-> S.dot, queue |-> q, channel |-> S.channel, last |-> S.last,
              strays |-> S.strays]
  BY DEF DotsInv, States
<1>2. /\ \A i, j \in 1..Len(q) : i < j => q[i].at <= q[j].at
      /\ \A i, j \in 1..Len(q) : q[i].dot = q[j].dot => i = j
      /\ \A i \in 1..Len(q) : /\ q[i].dot \in Dots /\ Up(S, q[i].dot)
                              /\ S.dot[q[i].dot].tickAt = q[i].at
      /\ \A c \in Dots : Up(S, c) => \E i \in 1..Len(q) : q[i].dot = c
  BY <1>1 DEF Queued, SortedQueue, OneEach, NoneLeft, AllQueued
<1> HIDE DEF q
<1>3. q # <<>>
  BY DEF q
<1>4. /\ Len(q) \in Nat /\ 1 \in 1..Len(q) /\ Head(q) = q[1]
      /\ r \in Seq(Entries) /\ Len(r) = Len(q) - 1
      /\ \A i \in 1..(Len(q) - 1) : r[i] = q[i + 1]
  BY <1>1, <1>3
<1> HIDE DEF r
<1>5. R = [dot |-> S.dot, queue |-> r, channel |-> S.channel, last |-> S.last,
           strays |-> S.strays]
  <2>1. S = [dot |-> S.dot, queue |-> q, channel |-> S.channel, last |-> S.last,
             strays |-> S.strays]
    BY <1>1
  <2>2. R = [S EXCEPT !.queue = r]
    OBVIOUS
  <2> HIDE DEF R
  <2> QED BY <2>1, <2>2
<1> HIDE DEF R
<1>6. R \in States
  BY <1>1, <1>4, <1>5 DEF States
<1>7. /\ R.queue = r /\ R.dot = S.dot /\ R.channel = S.channel /\ R.last = S.last
      /\ R.strays = S.strays
  BY <1>1, <1>5
<1>8. d = q[1].dot /\ d \in Dots /\ Up(S, d) /\ S.dot[d].tickAt = Head(q).at
  BY <1>2, <1>4
<1> HIDE DEF d
<1>9. SortedQueue(R) /\ OneEach(R)
  <2>1. \A i \in 1..Len(r) : i + 1 \in 1..Len(q) /\ r[i] = q[i + 1]
    BY <1>4
  <2>2. SortedQueue(R)
    <3> SUFFICES ASSUME NEW i \in 1..Len(r), NEW j \in 1..Len(r), i < j
                 PROVE  r[i].at <= r[j].at
      BY <1>7 DEF SortedQueue
    <3>1. i + 1 \in 1..Len(q) /\ j + 1 \in 1..Len(q) /\ i + 1 < j + 1
      BY <2>1
    <3>2. q[i + 1].at <= q[j + 1].at
      BY <1>2, <3>1
    <3> QED BY <2>1, <3>2
  <2>3. OneEach(R)
    <3> SUFFICES ASSUME NEW i \in 1..Len(r), NEW j \in 1..Len(r), r[i].dot = r[j].dot PROVE i = j
      BY <1>7 DEF OneEach
    <3>1. /\ i + 1 \in 1..Len(q) /\ j + 1 \in 1..Len(q)
          /\ q[i + 1].dot = q[j + 1].dot
      BY <2>1
    <3>2. i + 1 = j + 1
      BY <1>2, <3>1
    <3> QED BY <1>4, <3>2
  <2> QED BY <2>2, <2>3
<1>10. NoneLeft(R, {d})
  <2> SUFFICES ASSUME NEW i \in 1..Len(r)
               PROVE  /\ r[i].dot \in Dots \ {d} /\ Up(S, r[i].dot)
                      /\ S.dot[r[i].dot].tickAt = r[i].at
    BY <1>7 DEF NoneLeft, Up
  <2>1. i + 1 \in 1..Len(q) /\ r[i] = q[i + 1] /\ i + 1 # 1
    BY <1>4
  <2>2. r[i].dot # d
    BY <1>2, <1>4, <1>8, <2>1
  <2> QED BY <1>2, <2>1, <2>2
<1>11. AllQueued(R, {d})
  <2> SUFFICES ASSUME NEW c \in Dots \ {d}, Up(S, c) PROVE \E i \in 1..Len(r) : r[i].dot = c
    BY <1>7 DEF AllQueued, Up
  <2>1. PICK i \in 1..Len(q) : q[i].dot = c
    BY <1>2
  <2>2. i # 1
    BY <1>8, <2>1
  <2>3. i - 1 \in 1..Len(r) /\ r[i - 1] = q[i]
    BY <1>4, <2>1, <2>2
  <2> QED BY <2>1, <2>3
<1>12. TimesInv(R, t, {d}) /\ ChannelInv(R, {}) /\ GroupInv(R)
  BY <1>7 DEF DotsInv, TimesInv, ChannelInv, GroupInv, Up
<1>13. DotsInv(R, t, {d}, {})
  BY <1>6, <1>7, <1>9, <1>10, <1>11, <1>12 DEF DotsInv, Queued
<1> QED BY <1>7, <1>8, <1>13 DEF q, d, r, R

\* One tick fewer is to come of those that fill the time left.
LEMMA TickNumbers ==
  ASSUME NEW r \in Records, NEW t \in Nat, NEW d, NEW l, Timed(d, r, l, t), r.expires > r.tickAt
  PROVE  /\ r.tickAt + r.period \in Nat
         /\ d \notin Refreshed => Ticked(r).left >= 1
         /\ LET at == r.tickAt + r.period
            IN  Timed(d, [Ticked(r) EXCEPT !.tickAt = at], r.tickAt, r.tickAt)
<1> DEFINE p == r.period
           n == r.left
           at == r.tickAt + p
           s == [Ticked(r) EXCEPT !.tickAt = at]
<1>1. p \in Nat \ {0} /\ r.tickAt \in Nat /\ n \in Int /\ r.done \in Nat /\ at \in Nat
  BY DEF Timed, Records
<1>2. /\ s.tickAt = at /\ s.period = p /\ s.left = n - 1 /\ s.done = r.done + 1
      /\ s.expires = r.expires /\ s.duration = r.duration /\ Ticked(r).left = n - 1
  BY TickedFacts DEF Records
<1>3. ASSUME d \notin Refreshed
      PROVE  /\ n - 1 >= 1 /\ r.expires = at + ((n - 1) - 1) * p
             /\ d \notin Extended => ((r.done + 1) + (n - 1)) * p = r.duration
  <2>1. /\ n >= 1 /\ r.expires = r.tickAt + (n - 1) * p
        /\ d \notin Extended => (r.done + n) * p = r.duration
    BY <1>3 DEF Timed, Counted
  <2>2. (r.done + 1) + (n - 1) = r.done + n
    BY <1>1
  <2> HIDE DEF n, p
  <2>3. n # 1
    BY <1>1, <2>1
  <2> DEFINE k == n - 2
  <2>4. k \in Nat /\ n = k + 2 /\ n - 1 = k + 1 /\ (n - 1) - 1 = k
    BY <1>1, <2>1, <2>3
  <2> HIDE DEF k
  <2>5. (k + 1) * p = k * p + p /\ k * p \in Nat
    BY <1>1, <2>4
  <2> QED BY <1>1, <2>1, <2>2, <2>4, <2>5
<1> HIDE DEF s
<1>4. Counted(d, s)
  BY <1>2, <1>3 DEF Counted
<1>5. OnBeat(d, s, r.tickAt)
  BY <1>1, <1>2 DEF OnBeat
<1>6. Timed(d, s, r.tickAt, r.tickAt)
  BY <1>1, <1>2, <1>4, <1>5 DEF Timed
<1> QED BY <1>1, <1>2, <1>3, <1>6 DEF s

-----------------------------------------------------------------------------
(* An extension *)

\* The larger and the smaller of two numbers.
LEMMA MaxMinOfTwo ==
  ASSUME NEW a \in Int, NEW b \in Int
  PROVE  /\ Max({a, b}) \in {a, b} /\ Max({a, b}) >= a /\ Max({a, b}) >= b
         /\ Min({a, b}) \in {a, b} /\ Min({a, b}) <= a /\ Min({a, b}) <= b
<1>1. \E x \in {a, b} : \A y \in {a, b} : x >= y
  <2>1. CASE a >= b
    BY <2>1
  <2>2. CASE b >= a
    BY <2>2
  <2> QED BY <2>1, <2>2
<1>2. \E x \in {a, b} : \A y \in {a, b} : x <= y
  <2>1. CASE a >= b
    BY <2>1
  <2>2. CASE b >= a
    BY <2>2
  <2> QED BY <2>1, <2>2
<1>3. Max({a, b}) \in {a, b} /\ \A y \in {a, b} : Max({a, b}) >= y
  BY <1>1 DEF Max
<1>4. Min({a, b}) \in {a, b} /\ \A y \in {a, b} : Min({a, b}) <= y
  BY <1>2 DEF Min
<1> QED BY <1>3, <1>4

\* The numbers of an extension at t by the time by, of a dot that ends at e and ticks at a.
LEMMA ExtendNumbers ==
  ASSUME NEW e \in Nat, NEW a \in Nat, NEW o \in Nat, NEW t \in Nat, NEW p \in Nat \ {0},
         NEW by \in Nat, NEW k \in Nat \ {0}, p <= by, e > t, e >= a
  PROVE  LET next == Max({a - o + p, t + 1})
             total == Min({e - t + by, p * (k - 1) + next - t})
             n == RoundEven(total - (next - t), p) + 1
             duration == next - t + (n - 1) * p
         IN  /\ next \in Nat /\ next > t /\ n \in Nat /\ n >= 1
             /\ duration \in Nat /\ duration > 0 /\ t + duration = next + (n - 1) * p
             /\ t + duration \in Nat /\ t + duration > t
<1> DEFINE next == Max({a - o + p, t + 1})
           total == Min({e - t + by, p * (k - 1) + next - t})
           m == RoundEven(total - (next - t), p)
           n == m + 1
           duration == next - t + (n - 1) * p
<1>1. next \in Nat /\ next > t /\ e + by >= next
  <2>1. next \in {a - o + p, t + 1} /\ next >= t + 1
    BY MaxMinOfTwo
  <2> HIDE DEF next
  <2> QED BY <2>1
<1> HIDE DEF next
<1>2. total - (next - t) \in Nat
  <2> DEFINE x == p * (k - 1)
             u == e - t + by
             v == x + next - t
  <2>1. x \in Nat
    OBVIOUS
  <2>2. total = Min({u, v})
    OBVIOUS
  <2> HIDE DEF x, total
  <2>3. u \in Int /\ v \in Int
    BY <1>1, <2>1
  <2>4. total \in {u, v}
    <3> HIDE DEF u, v
    <3> QED BY <2>2, <2>3, MaxMinOfTwo
  <2> QED BY <1>1, <2>1, <2>4
<1> HIDE DEF total
<1>3. m \in Nat
  BY <1>2, RoundEvenFacts
<1> HIDE DEF m
<1>4. n \in Nat /\ n >= 1 /\ n - 1 = m /\ m * p \in Nat
  BY <1>3
<1>5. /\ duration \in Nat /\ duration > 0 /\ t + duration = next + (n - 1) * p
      /\ t + duration \in Nat /\ t + duration > t
  <2> DEFINE x == m * p
  <2>1. x \in Nat /\ duration = next - t + x /\ (n - 1) * p = x
    BY <1>4
  <2> HIDE DEF x, duration, n
  <2> QED BY <1>1, <2>1
<1> QED BY <1>1, <1>4, <1>5 DEF next, total, m

\* What Extend makes of the dots S at t, with the caster's haste s.
Prolonged(S, d, t, s) ==
    LET was == S.dot[d]
        by == CountOf(d) * LengthOf(d)
        p == CalcTickPeriod(d, s)
        next == Max({was.tickAt - was.period + p, t + 1})
        total == Min({was.expires - t + by, p * (TickCount(d, p) - 1) + next - t})
        n == RoundEven(total - (next - t), p) + 1
        duration == next - t + (n - 1) * p
    IN  AddAction([Cancel(S, d) EXCEPT !.dot[d] =
                      [was EXCEPT !.period = p, !.left = n, !.duration = duration,
                                  !.expires = t + duration]],
                  d, next)

\* An extended dot goes on, its action due at another time.
LEMMA ExtendKeeps ==
  ASSUME NEW S, NEW t \in Nat, NEW d \in Extended, DotsInv(S, t, {}, {}), Up(S, d),
         S.dot[d].expires > t, NEW s \in Speeds
  PROVE  LET R == Prolonged(S, d, t, s)
         IN  /\ DotsInv(R, t, {}, {}) /\ R.channel = S.channel /\ R.last = S.last
             /\ R.strays = S.strays /\ R.dot[d].expires > t /\ R.dot[d].duration > 0
             /\ \A e \in Dots : e # d => R.dot[e] = S.dot[e]
<1> DEFINE was == S.dot[d]
           by == CountOf(d) * LengthOf(d)
           p == CalcTickPeriod(d, s)
           k == TickCount(d, p)
           next == Max({was.tickAt - was.period + p, t + 1})
           total == Min({was.expires - t + by, p * (k - 1) + next - t})
           n == RoundEven(total - (next - t), p) + 1
           duration == next - t + (n - 1) * p
           r == [was EXCEPT !.period = p, !.left = n, !.duration = duration,
                            !.expires = t + duration]
           A == Cancel(S, d)
           U == [A EXCEPT !.dot[d] = r]
           R == AddAction(U, d, next)
<1>1. /\ S \in States /\ Queued(S, {}) /\ S.dot \in [Dots -> Records]
      /\ was \in Records /\ d \in Dots /\ d \notin Refreshed
  <2>1. d \in Dots /\ d \notin Refreshed
    BY DotsAssumption
  <2> QED BY <2>1 DEF DotsInv, States
<1>2. Timed(d, was, S.last[d], t) /\ S.last[d] <= t /\ S.last[d] \in Nat
  BY <1>1 DEF DotsInv, TimesInv, States
<1>3. /\ was.expires \in Nat /\ was.tickAt \in Nat /\ was.period \in Nat
      /\ was.expires > t /\ was.expires >= was.tickAt
  <2> DEFINE x == (was.left - 1) * was.period
  <2>1. /\ was.expires \in Nat /\ was.tickAt \in Nat /\ was.period \in Nat
        /\ was.left - 1 \in Nat /\ was.expires = was.tickAt + x
    BY <1>1, <1>2 DEF Timed, Counted, Records
  <2>2. x \in Nat
    BY <2>1
  <2> HIDE DEF x, was
  <2>3. was.expires > t
    BY DEF was
  <2> QED BY <2>1, <2>2, <2>3
<1>4. p \in Nat \ {0} /\ by \in Nat /\ p <= by /\ k \in Nat \ {0}
  BY <1>1, PeriodFacts
<1> HIDE DEF was, by, p, k
<1>5. /\ next \in Nat /\ next > t /\ n \in Nat /\ n >= 1
      /\ duration \in Nat /\ duration > 0 /\ t + duration = next + (n - 1) * p
      /\ t + duration \in Nat /\ t + duration > t
  BY <1>3, <1>4, ExtendNumbers
<1> HIDE DEF next, total, n, duration
<1>6. /\ r \in Records /\ r.period = p /\ r.left = n /\ r.duration = duration
      /\ r.expires = t + duration /\ r.active = was.active
  <2>1. PICK e \in Nat : e = t + duration
    BY <1>5
  <2>2. r = [was EXCEPT !.period = p, !.left = n, !.duration = duration, !.expires = e]
    BY <2>1
  <2>3. was \in Records /\ p \in Nat /\ n \in Int /\ duration \in Nat
    BY <1>1, <1>4, <1>5 DEF was
  <2> HIDE DEF r
  <2>4. /\ r \in Records /\ r.period = p /\ r.left = n /\ r.duration = duration
        /\ r.expires = e /\ r.active = was.active
    BY <2>2, <2>3 DEF Records
  <2> QED BY <2>1, <2>4
<1> HIDE DEF r
<1>7. /\ A \in States /\ A.dot = S.dot /\ A.channel = S.channel /\ A.last = S.last
      /\ A.strays = S.strays /\ Queued(A, {d})
  <2>1. {} \cup {d} = {d}
    OBVIOUS
  <2> QED BY <1>1, <2>1, CancelFacts
<1> DEFINE dd == [S.dot EXCEPT ![d] = r]
<1>8. U = [dot |-> dd, queue |-> A.queue, channel |-> S.channel, last |-> S.last,
           strays |-> S.strays]
  <2>1. A = [dot |-> S.dot, queue |-> A.queue, channel |-> S.channel, last |-> S.last,
             strays |-> S.strays]
    BY <1>7 DEF States
  <2> HIDE DEF A
  <2> QED BY <2>1
<1> HIDE DEF A, U, R
<1>9. /\ dd \in [Dots -> Records] /\ dd[d] = r
      /\ \A e \in Dots : e # d => dd[e] = S.dot[e]
  BY <1>1, <1>6
<1> HIDE DEF dd
<1>10. /\ U.dot = dd /\ U.queue = A.queue /\ U.channel = S.channel /\ U.last = S.last
       /\ U.strays = S.strays /\ U \in States
  BY <1>7, <1>8, <1>9 DEF States
<1>11. \A e \in Dots : Up(U, e) = Up(S, e)
  BY <1>6, <1>9, <1>10 DEF Up, was
<1>12. DotsInv(U, t, {d}, {})
  <2>1. Queued(U, {d})
    BY <1>7, <1>9, <1>10, <1>11, QueueSame DEF Up
  <2>2. TimesInv(U, t, {d})
    BY <1>9, <1>10, <1>11 DEF DotsInv, TimesInv
  <2>3. ChannelInv(U, {}) /\ GroupInv(U)
    BY <1>10, <1>11, DotsAssumption DEF DotsInv, ChannelInv, GroupInv
  <2> QED BY <1>1, <1>10, <2>1, <2>2, <2>3 DEF DotsInv
<1>13. Timed(d, [U.dot[d] EXCEPT !.tickAt = next], U.last[d], t)
  <2> DEFINE z == [r EXCEPT !.tickAt = next]
  <2>1. /\ z.tickAt = next /\ z.period = p /\ z.left = n /\ z.expires = t + duration
    BY <1>6 DEF Records
  <2> HIDE DEF z
  <2>2. OnBeat(d, z, S.last[d])
    BY <1>2, <1>5, <2>1 DEF OnBeat
  <2>3. Counted(d, z)
    BY <1>5, <2>1 DEF Counted
  <2>4. Timed(d, z, S.last[d], t)
    BY <1>4, <1>5, <2>1, <2>2, <2>3 DEF Timed
  <2> QED BY <1>9, <1>10, <2>4 DEF z
<1>14. /\ DotsInv(R, t, {}, {}) /\ R.channel = U.channel /\ R.last = U.last
       /\ R.dot[d] = [U.dot[d] EXCEPT !.tickAt = next]
       /\ \A e \in Dots : e # d => R.dot[e] = U.dot[e]
  <2>1. d \in Dots /\ next \in Nat /\ Up(U, d)
    BY <1>1, <1>5, <1>11
  <2>2. R = AddAction(U, d, next)
    BY DEF R
  <2> QED BY <1>12, <1>13, <2>1, <2>2, RequeueKeeps
<1>15. R.strays = S.strays
  <2>1. d \in Dots /\ next \in Nat /\ R = AddAction(U, d, next)
    BY <1>1, <1>5 DEF R
  <2> QED BY <1>10, <2>1, AddStrays
<1>16. R.dot[d].expires = t + duration /\ R.dot[d].duration = duration
  <2>1. R.dot[d] = [r EXCEPT !.tickAt = next]
    BY <1>9, <1>10, <1>14
  <2> QED BY <1>6, <2>1 DEF Records
<1>17. /\ DotsInv(R, t, {}, {}) /\ R.channel = S.channel /\ R.last = S.last
       /\ R.strays = S.strays /\ R.dot[d].expires > t /\ R.dot[d].duration > 0
       /\ \A e \in Dots : e # d => R.dot[e] = S.dot[e]
  BY <1>5, <1>9, <1>10, <1>14, <1>16, <1>15
<1>18. Prolonged(S, d, t, s) = R
  BY DEF Prolonged, R, U, A, r, duration, n, total, next, k, p, by, was
<1> QED BY <1>17, <1>18

-----------------------------------------------------------------------------
(* The actions *)

\* The body of CutWithoutTick.
CutClean ==
    \A c \in Casters :
       LET d == channel[c]
       IN  (d # Nil /\ channel'[c] # d /\ ops' > ops) => last'[d] = last[d]

\* What the invariant says of the dots, at the present time.
LEMMA InvFacts ==
  ASSUME IndInv
  PROVE  /\ now \in Nat /\ now <= Horizon /\ now < Never /\ Horizon < Never
         /\ DotsInv(State, now, {}, {}) /\ Alive(State, now)
         /\ State.dot = dot /\ State.queue = queue /\ State.channel = channel
         /\ State.last = last /\ State.strays = strays
         /\ strays \subseteq twice /\ twice \subseteq Dots
         /\ \A d \in Dots : Up(State, d) <=> dot[d].active
         /\ \A c \in Casters : channel[c] # Nil =>
               /\ channel[c] \in Channels /\ channel[c] \in Dots /\ CasterOf(channel[c]) = c
               /\ Up(State, channel[c])
<1>1. /\ State.dot = dot /\ State.queue = queue /\ State.channel = channel
      /\ State.last = last /\ State.strays = strays
  BY DEF State
<1>2. DotsInv(State, now, {}, {}) /\ Alive(State, now)
  BY DEF IndInv
<1>3. now \in Nat /\ now <= Horizon /\ now < Never /\ Horizon < Never
  BY DotsAssumption DEF IndInv
<1>4. strays \subseteq twice /\ twice \subseteq Dots
  BY DEF IndInv
<1>5. \A c \in Casters : channel[c] # Nil =>
         /\ channel[c] \in Channels /\ channel[c] \in Dots /\ CasterOf(channel[c]) = c
         /\ Up(State, channel[c])
  BY <1>1, <1>2, DotsAssumption DEF DotsInv, ChannelInv
<1>6. \A d \in Dots : Up(State, d) <=> dot[d].active
  BY <1>1 DEF Up
<1> QED BY <1>1, <1>2, <1>3, <1>5, <1>6, <1>4

\* A step keeps the invariant when the dots it leaves do.
LEMMA StepKeeps ==
  ASSUME NEW R, Becomes(R), DotsInv(R, now', {}, {}), Alive(R, now'), R.strays \subseteq twice',
         now' \in 0..Horizon, ops' \in 0..MaxOps, speed' \in [Casters -> Speeds],
         twice' \subseteq Dots
  PROVE  IndInv'
<1>1. State' = R
  <2>1. R = [dot |-> R.dot, queue |-> R.queue, channel |-> R.channel, last |-> R.last,
             strays |-> R.strays]
    BY DEF DotsInv, States
  <2> QED BY <2>1 DEF State, Becomes
<1>2. DotsInv(State', now', {}, {}) /\ Alive(State', now')
  BY <1>1
<1>3. strays' \subseteq twice'
  BY DEF Becomes
<1> QED BY <1>2, <1>3 DEF IndInv

\* What happens to the dots from outside takes no time.
LEMMA ActsFacts ==
  ASSUME IndInv, Acts
  PROVE  now' = now /\ now' \in 0..Horizon /\ ops' \in 0..MaxOps /\ ops' = ops + 1
         /\ ops \in Nat /\ twice' \subseteq Dots /\ strays \subseteq twice'
BY DotsAssumption DEF IndInv, Acts

\* A cast: the ranks beside it and its own old aura end, and it starts.
LEMMA ApplyStep ==
  ASSUME IndInv, NEW d \in Dots, Apply(d)
  PROVE  IndInv' /\ CutClean
<1> DEFINE p == CalcTickPeriod(d, speed[CasterOf(d)])
           n == FreshCount(d, p)
           ds == Replaced(d) \cup {d}
           A == DeactivateAll(State, ds, now)
           R == Activate(A, d, now, p, n)
<1>1. Acts /\ Becomes(R) /\ speed' = speed
  BY DEF Apply
<1>2. speed[CasterOf(d)] \in Speeds /\ CasterOf(d) \in Casters
  BY DotsAssumption DEF IndInv
<1>3. p \in Nat \ {0} /\ n \in Nat \ {0}
  BY <1>2, PeriodFacts
<1>4. ds \subseteq Dots /\ d \in ds /\ (GroupOf(d) # Nil => Rivals(d) \subseteq ds)
  BY DEF Replaced, Rivals, Ranks
<1> HIDE DEF p, n, ds
<1>5. DotsInv(A, now, {}, {}) /\ Ended(State, A, ds)
  BY <1>4, AllKeep, InvFacts
<1> HIDE DEF A
<1>6. \A e \in Dots : A.dot[e] = IF e \in ds THEN Idle ELSE dot[e]
  BY <1>5, InvFacts DEF Ended, Done
<1>7. ~Up(A, d) /\ (GroupOf(d) # Nil => \A e \in Rivals(d) : ~Up(A, e))
  BY <1>4, <1>6 DEF Up, Idle
<1>8. DotsInv(R, now, {}, {}) /\ Started(A, R, d, now, p, n)
  BY <1>3, <1>5, <1>7, ActivateKeeps, InvFacts
<1> HIDE DEF R
<1>9. Alive(R, now)
  <2> SUFFICES ASSUME NEW e \in Dots, Up(R, e) PROVE R.dot[e].expires > now /\ R.dot[e].duration > 0
    BY DEF Alive
  <2>1. CASE e = d
    BY <1>3, <1>8, <2>1, FreshNumbers, InvFacts DEF Started
  <2>2. CASE e # d
    <3>1. R.dot[e] \in {A.dot[e], Idle} /\ ~Idle.active
      BY <1>8, <2>2 DEF Started, Idle
    <3>2. R.dot[e] = dot[e]
      BY <1>6, <3>1 DEF Up
    <3> QED BY <3>2, InvFacts DEF Alive, Up
  <2> QED BY <2>1, <2>2
<1>10. speed' \in [Casters -> Speeds]
  BY <1>1 DEF IndInv
<1>11. IndInv'
  <2>1. R.strays \subseteq twice'
    BY <1>1, <1>5, <1>8, ActsFacts, InvFacts DEF Ended, Started
  <2> QED BY <2>1, <1>1, <1>8, <1>9, <1>10, ActsFacts, StepKeeps
<1>12. CutClean
  <2> SUFFICES ASSUME NEW c \in Casters, channel[c] # Nil, channel'[c] # channel[c]
               PROVE  last'[channel[c]] = last[channel[c]]
    BY DEF CutClean
  <2> DEFINE e == channel[c]
  <2>1. e \in Channels /\ e \in Dots /\ CasterOf(e) = c
    BY InvFacts
  <2>2. channel' = R.channel /\ last' = R.last
    BY <1>1 DEF Becomes
  <2>3. e # d
    BY <1>8, <2>1, <2>2 DEF Started
  <2>4. e \notin ds
    <3>1. GroupOf(e) = Nil
      BY <2>1, DotsAssumption
    <3> QED BY <2>3, <3>1 DEF ds, Replaced, Rivals, Ranks
  <2>5. A.last[e] = last[e]
    BY <1>5, <2>1, <2>4, InvFacts DEF Ended, Done
  <2>6. R.last[e] = A.last[e]
    BY <1>8, <2>1, <2>3 DEF Started
  <2> QED BY <2>2, <2>5, <2>6
<1> QED BY <1>11, <1>12

\* An extension.
LEMMA ExtendStep ==
  ASSUME IndInv, NEW d \in Dots, Extend(d)
  PROVE  IndInv' /\ CutClean
<1> DEFINE R == Prolonged(State, d, now, speed[CasterOf(d)])
<1>1. Acts /\ Becomes(R) /\ speed' = speed /\ d \in Extended /\ dot[d].active
  BY InvFacts DEF Extend, Prolonged
<1>2. speed[CasterOf(d)] \in Speeds
  BY DotsAssumption DEF IndInv
<1>3. Up(State, d) /\ State.dot[d].expires > now
  BY <1>1, InvFacts DEF Alive
<1>4. /\ DotsInv(R, now, {}, {}) /\ R.channel = State.channel /\ R.last = State.last
      /\ R.strays = strays
      /\ R.dot[d].expires > now /\ R.dot[d].duration > 0
      /\ \A e \in Dots : e # d => R.dot[e] = State.dot[e]
  BY <1>1, <1>2, <1>3, ExtendKeeps, InvFacts
<1> HIDE DEF R
<1>5. Alive(R, now)
  BY <1>4, InvFacts DEF Alive, Up
<1>6. speed' \in [Casters -> Speeds]
  BY <1>1 DEF IndInv
<1>7. IndInv'
  <2>1. R.strays \subseteq twice'
    BY <1>1, <1>4, ActsFacts, InvFacts
  <2> QED BY <2>1, <1>1, <1>4, <1>5, <1>6, ActsFacts, StepKeeps
<1>8. CutClean
  BY <1>1, <1>4, InvFacts DEF CutClean, Becomes
<1> QED BY <1>7, <1>8

\* A refresh of the aura alone.
LEMMA RefreshStep ==
  ASSUME IndInv, NEW d \in Dots, Refresh(d)
  PROVE  IndInv' /\ CutClean
<1> DEFINE e == now + dot[d].duration
           r == [dot[d] EXCEPT !.expires = e]
           R == [dot |-> dot', queue |-> queue, channel |-> channel, last |-> last,
                 strays |-> strays]
<1>1. /\ Acts /\ d \in Refreshed /\ dot[d].active /\ dot' = [dot EXCEPT ![d] = r]
      /\ UNCHANGED <<speed, queue, channel, last, strays>>
  BY DEF Refresh
<1>2. /\ State \in States /\ Queued(State, {}) /\ dot \in [Dots -> Records]
      /\ dot[d] \in Records
  BY InvFacts DEF DotsInv, States
<1>3. e \in Nat /\ e > now /\ dot[d].duration > 0
  <2>1. dot[d].duration > 0 /\ dot[d].duration \in Nat
    BY <1>1, <1>2, InvFacts DEF Alive, Records
  <2> QED BY <2>1, InvFacts
<1> HIDE DEF e
<1>4. /\ r \in Records /\ r.expires = e /\ r.active = dot[d].active /\ r.duration = dot[d].duration
      /\ r.period = dot[d].period /\ r.left = dot[d].left /\ r.done = dot[d].done
      /\ r.tickAt = dot[d].tickAt
  BY <1>2, <1>3 DEF Records
<1> HIDE DEF r
<1>5. dot' \in [Dots -> Records] /\ dot'[d] = r /\ \A x \in Dots : x # d => dot'[x] = dot[x]
  BY <1>1, <1>2, <1>4
<1>6. /\ R.dot = dot' /\ R.queue = queue /\ R.channel = channel /\ R.last = last
      /\ R.strays = strays /\ R \in States
  BY <1>2, <1>5, InvFacts DEF States
<1>7. Becomes(R)
  BY <1>1, <1>6 DEF Becomes
<1> HIDE DEF R
<1>8. \A x \in Dots : Up(R, x) = Up(State, x) /\ R.dot[x].tickAt = State.dot[x].tickAt
  BY <1>4, <1>5, <1>6, InvFacts DEF Up
<1>9. Queued(R, {})
  BY <1>2, <1>6, <1>8, QueueSame, InvFacts
<1>10. TimesInv(R, now, {})
  <2> SUFFICES ASSUME NEW x \in Dots
               PROVE  /\ R.last[x] <= now
                      /\ ~Up(R, x) => R.dot[x] = Idle
                      /\ Up(R, x) => Timed(x, R.dot[x], R.last[x], now)
    BY DEF TimesInv
  <2>1. /\ last[x] <= now
        /\ ~Up(State, x) => dot[x] = Idle
        /\ Up(State, x) => Timed(x, dot[x], last[x], now)
    BY InvFacts DEF DotsInv, TimesInv
  <2>2. CASE x = d
    <3>1. Timed(d, dot[d], last[d], now)
      BY <1>1, <2>1, <2>2, InvFacts
    <3>2. Timed(d, r, last[d], now)
      BY <1>1, <1>4, <3>1 DEF Timed, OnBeat, Counted
    <3> QED BY <1>1, <1>5, <1>6, <1>8, <2>1, <2>2, <3>2, InvFacts
  <2>3. CASE x # d
    BY <1>5, <1>6, <1>8, <2>1, <2>3
  <2> QED BY <2>2, <2>3
<1>11. ChannelInv(R, {}) /\ GroupInv(R)
  BY <1>6, <1>8, InvFacts, DotsAssumption DEF DotsInv, ChannelInv, GroupInv
<1>12. DotsInv(R, now, {}, {})
  BY <1>2, <1>6, <1>9, <1>10, <1>11 DEF DotsInv
<1>13. Alive(R, now)
  BY <1>3, <1>4, <1>5, <1>6, <1>8, InvFacts DEF Alive
<1>14. speed' \in [Casters -> Speeds]
  BY <1>1 DEF IndInv
<1>15. IndInv'
  <2>1. R.strays \subseteq twice'
    BY <1>1, <1>6, ActsFacts, InvFacts
  <2> QED BY <2>1, <1>1, <1>7, <1>12, <1>13, <1>14, ActsFacts, StepKeeps
<1>16. CutClean
  BY <1>1 DEF CutClean
<1> QED BY <1>15, <1>16

\* Dots that end leave the others the time they had.
LEMMA EndedAlive ==
  ASSUME NEW S, NEW R, NEW t, NEW ds, Ended(S, R, ds),
         \A d \in Dots \ ds : Up(S, d) => S.dot[d].expires > t /\ S.dot[d].duration > 0
  PROVE  Alive(R, t)
BY DEF Ended, Done, Alive, Up, Idle

\* A dot that is used up.
LEMMA ConsumeStep ==
  ASSUME IndInv, NEW d \in Dots, Consume(d)
  PROVE  IndInv' /\ CutClean
<1> DEFINE R == Deactivate(State, d, now)
<1>1. Acts /\ Becomes(R) /\ speed' = speed /\ d \notin Channels
  BY DEF Consume
<1>2. {} \ {d} = {} /\ d \in Dots \ {} /\ d \notin {}
  OBVIOUS
<1>3. DotsInv(R, now, {} \ {d}, {}) /\ Ended(State, R, {d})
  BY <1>2, DeactivateKeeps, InvFacts
<1> HIDE DEF R
<1>4. Alive(R, now)
  BY <1>3, EndedAlive, InvFacts DEF Alive
<1>5. speed' \in [Casters -> Speeds]
  BY <1>1 DEF IndInv
<1>6. IndInv'
  <2>1. R.strays \subseteq twice'
    BY <1>1, <1>3, ActsFacts, InvFacts DEF Ended
  <2> QED BY <2>1, <1>1, <1>2, <1>3, <1>4, <1>5, ActsFacts, StepKeeps
<1>7. CutClean
  <2>1. \A c \in Casters : channel'[c] = channel[c] \/ channel[c] = d
    BY <1>1, <1>3, InvFacts DEF Ended, Done, Becomes
  <2> QED BY <1>1, <2>1, InvFacts DEF CutClean
<1> QED BY <1>6, <1>7

\* A channel that is cut.
LEMMA CutStep ==
  ASSUME IndInv, NEW c \in Casters, channel[c] # Nil, Acts, Becomes(Cut(State, channel[c], now)),
         speed' = speed
  PROVE  IndInv' /\ CutClean
<1> DEFINE d == channel[c]
           R == Cut(State, d, now)
<1>1. Becomes(R)
  OBVIOUS
<1>2. {} \ {d} = {} /\ d \in Dots \ {} /\ Up(State, d)
  BY InvFacts
<1> HIDE DEF d
<1>3. /\ DotsInv(R, now, {} \ {d}, {}) /\ Ended(State, R, {d})
      /\ R.last = State.last
  BY <1>2, CutKeeps, InvFacts
<1> HIDE DEF R
<1>4. Alive(R, now)
  BY <1>3, EndedAlive, InvFacts DEF Alive
<1>5. speed' \in [Casters -> Speeds]
  BY DEF IndInv
<1>6. IndInv'
  <2>1. R.strays \subseteq twice'
    BY <1>3, ActsFacts, InvFacts DEF Ended
  <2> QED BY <2>1, <1>1, <1>2, <1>3, <1>4, <1>5, ActsFacts, StepKeeps
<1>7. CutClean
  BY <1>1, <1>3, InvFacts DEF CutClean, Becomes
<1> QED BY <1>6, <1>7

\* Between two steps a channel has ticks to come, so that one that ends is cut.
LEMMA LookStep ==
  ASSUME IndInv, NEW c \in Casters, LookAtChannel(c)
  PROVE  IndInv' /\ CutClean
<1>1. channel[c] # Nil /\ channel[c] \in Channels /\ Up(State, channel[c])
  BY InvFacts DEF LookAtChannel
<1>2. channel[c] \in Dots \ Refreshed
  BY <1>1, DotsAssumption
<1>3. dot[channel[c]].left >= 1
  BY <1>1, <1>2, InvFacts DEF DotsInv, TimesInv, Timed, Counted
<1>4. Acts /\ Becomes(Cut(State, channel[c], now)) /\ speed' = speed
  BY <1>3 DEF LookAtChannel
<1> QED BY <1>1, <1>4, CutStep

\* A target goes away: the channels on it are cut, and every other dot on it ends.
LEMMA DisableStep ==
  ASSUME IndInv, NEW u \in Units, Disable(u)
  PROVE  IndInv' /\ CutClean
<1> DEFINE A == CutAll(State, Running(u), now)
           R == DeactivateAll(A, On(u), now)
<1>1. Acts /\ Becomes(R) /\ speed' = speed
  BY DEF Disable, CutAll
<1>2. /\ On(u) \subseteq Dots /\ Running(u) \subseteq On(u)
      /\ \A d \in Running(u) : Up(State, d)
  <2>1. ASSUME NEW d \in Running(u) PROVE Up(State, d)
    <3>1. d \in Dots /\ d \in Channels /\ channel[CasterOf(d)] = d /\ CasterOf(d) \in Casters
          /\ d # Nil
      BY <2>1, DotsAssumption DEF Running, On
    <3> QED BY <3>1, InvFacts
  <2> QED BY <2>1 DEF Running, On
<1> DEFINE run == Running(u)
           ds == On(u)
<1> HIDE DEF run, ds
<1>3. /\ ds \subseteq Dots /\ run \subseteq ds /\ \A d \in run : Up(State, d)
      /\ A = CutAll(State, run, now) /\ R = DeactivateAll(A, ds, now)
  BY <1>2 DEF run, ds
<1> HIDE DEF A, R
<1>4. /\ DotsInv(A, now, {}, {}) /\ Ended(State, A, run)
      /\ A.last = State.last
  <2>1. run \subseteq Dots
    BY <1>3
  <2> QED BY <1>3, <2>1, AllCutKeep, InvFacts
<1>5. DotsInv(R, now, {}, {}) /\ Ended(A, R, ds)
  BY <1>3, <1>4, AllKeep, InvFacts
<1>6. Alive(A, now)
  BY <1>4, EndedAlive, InvFacts DEF Alive
<1>7. Alive(R, now)
  BY <1>5, <1>6, EndedAlive DEF Alive
<1>8. speed' \in [Casters -> Speeds]
  BY <1>1 DEF IndInv
<1>9. IndInv'
  <2>1. R.strays \subseteq twice'
    BY <1>1, <1>4, <1>5, ActsFacts, InvFacts DEF Ended
  <2> QED BY <2>1, <1>1, <1>5, <1>7, <1>8, ActsFacts, StepKeeps
<1>10. CutClean
  <2> SUFFICES ASSUME NEW c \in Casters, channel[c] # Nil, channel'[c] # channel[c]
               PROVE  last'[channel[c]] = last[channel[c]]
    BY DEF CutClean
  <2> DEFINE e == channel[c]
  <2>1. e \in Channels /\ e \in Dots /\ CasterOf(e) = c
    BY InvFacts
  <2>2. channel' = R.channel /\ last' = R.last
    BY <1>1 DEF Becomes
  <2>3. R.channel[c] = IF A.channel[c] \in ds THEN Nil ELSE A.channel[c]
    BY <1>5 DEF Ended, Done
  <2>4. A.channel[c] = IF e \in run THEN Nil ELSE e
    BY <1>4, InvFacts DEF Ended, Done
  <2>5. e \in run
    <3>1. e \in run \/ e \in ds
      BY <2>2, <2>3, <2>4
    <3>2. e \in ds => e \in run
      BY <2>1 DEF ds, run, Running
    <3> QED BY <3>1, <3>2
  <2>6. ~Up(A, e)
    BY <1>4, <2>1, <2>5 DEF Ended, Done, Up, Idle
  <2>7. R.last[e] = A.last[e]
    BY <1>5, <2>1, <2>6 DEF Ended, Done
  <2> QED BY <1>4, <2>2, <2>7, InvFacts
<1> QED BY <1>9, <1>10

\* The dots keep theirs when nothing about them changes.
LEMMA ChangeSpeedStep ==
  ASSUME IndInv, NEW c \in Casters, ChangeSpeed(c)
  PROVE  IndInv' /\ CutClean
<1>1. /\ Acts /\ UNCHANGED <<dot, queue, channel, last, strays>>
      /\ \E s \in Speeds \ {speed[c]} : speed' = [speed EXCEPT ![c] = s]
  BY DEF ChangeSpeed
<1>2. speed' \in [Casters -> Speeds]
  BY <1>1 DEF IndInv
<1>3. Becomes(State)
  BY <1>1, InvFacts DEF Becomes
<1>4. IndInv'
  BY <1>1, <1>2, <1>3, ActsFacts, InvFacts, StepKeeps
<1>5. CutClean
  BY <1>1 DEF CutClean
<1> QED BY <1>4, <1>5

\* The invariant looks at a later time as well, up to the first action that is due.
LEMMA LaterKeeps ==
  ASSUME NEW S, NEW t \in Nat, NEW u \in Nat, t <= u, DotsInv(S, t, {}, {}),
         \A i \in 1..Len(S.queue) : u <= S.queue[i].at
  PROVE  DotsInv(S, u, {}, {})
<1> SUFFICES ASSUME NEW d \in Dots
             PROVE  /\ S.last[d] <= u
                    /\ Up(S, d) => Timed(d, S.dot[d], S.last[d], u)
  BY DEF DotsInv, TimesInv
<1>1. S.last[d] <= u
  <2>1. S.last[d] \in Nat /\ S.last[d] <= t
    BY DEF DotsInv, States, TimesInv
  <2> QED BY <2>1
<1>2. ASSUME Up(S, d) PROVE Timed(d, S.dot[d], S.last[d], u)
  <2>1. Timed(d, S.dot[d], S.last[d], t)
    BY <1>2 DEF DotsInv, TimesInv
  <2>2. PICK i \in 1..Len(S.queue) : S.queue[i].dot = d
    BY <1>2 DEF DotsInv, Queued, AllQueued
  <2>3. S.dot[d].tickAt = S.queue[i].at
    BY <2>2 DEF DotsInv, Queued, NoneLeft
  <2> QED BY <2>1, <2>2, <2>3 DEF Timed
<1> QED BY <1>1, <1>2

\* At a new instant no dot has ticked yet.
LEMMA AfreshKeeps ==
  ASSUME IndInv
  PROVE  /\ DotsInv(Afresh, now, {}, {}) /\ Afresh.dot = dot /\ Afresh.queue = queue
         /\ Afresh.strays = {}
         /\ \A d \in Dots : Up(Afresh, d) = Up(State, d)
<1>1. State \in States
  BY InvFacts DEF DotsInv
<1>2. Afresh = [dot |-> dot, queue |-> queue, channel |-> channel, last |-> last, strays |-> {}]
  BY DEF Afresh, State
<1>3. /\ Afresh.dot = dot /\ Afresh.queue = queue /\ Afresh.channel = channel
      /\ Afresh.last = last /\ Afresh.strays = {} /\ Afresh \in States
  BY <1>1, <1>2 DEF State, States
<1>4. \A d \in Dots : Up(Afresh, d) = Up(State, d) /\ Afresh.dot[d].tickAt = State.dot[d].tickAt
  BY <1>3, InvFacts DEF Up
<1>5. Queued(Afresh, {})
  BY <1>3, <1>4, QueueSame, InvFacts DEF DotsInv
<1>6. TimesInv(Afresh, now, {})
  BY <1>3, <1>4, InvFacts DEF DotsInv, TimesInv
<1>7. ChannelInv(Afresh, {}) /\ GroupInv(Afresh)
  BY <1>3, <1>4, InvFacts, DotsAssumption DEF DotsInv, ChannelInv, GroupInv
<1> QED BY <1>3, <1>4, <1>5, <1>6, <1>7 DEF DotsInv

\* Time moves on, and the auras whose time is up end.
LEMMA AdvanceStep ==
  ASSUME IndInv, NEW t \in 1..Horizon, Advance(t)
  PROVE  IndInv' /\ CutClean
<1> DEFINE ds == {d \in Dots : dot[d].expires <= t}
           R == DeactivateAll(Afresh, ds, t)
<1>1. /\ now < t /\ (queue # <<>> => t <= Head(queue).at) /\ now' = t /\ Becomes(R)
      /\ speed' = speed /\ ops' = ops /\ twice' = {}
  BY DEF Advance
<1>2. t \in Nat /\ t < Never /\ t <= Horizon /\ now <= t
  BY <1>1, DotsAssumption, InvFacts
<1>3. \A i \in 1..Len(queue) : t <= queue[i].at
  <2> SUFFICES ASSUME NEW i \in 1..Len(queue) PROVE t <= queue[i].at
    OBVIOUS
  <2>1. queue \in Seq(Entries) /\ SortedQueue(State)
    BY InvFacts DEF DotsInv, States, Queued
  <2>2. Len(queue) \in Nat /\ queue # <<>> /\ 1 \in 1..Len(queue) /\ Head(queue) = queue[1]
    BY <2>1
  <2>3. queue[1] \in Entries /\ queue[i] \in Entries
    BY <2>1, <2>2
  <2>4. i = 1 \/ queue[1].at <= queue[i].at
    BY <2>1, <2>2, InvFacts DEF SortedQueue
  <2>5. queue[1].at \in Nat /\ queue[i].at \in Nat
    BY <2>3 DEF Entries
  <2> QED BY <1>1, <1>2, <2>2, <2>4, <2>5
<1>4. DotsInv(Afresh, t, {}, {})
  BY <1>2, <1>3, AfreshKeeps, LaterKeeps, InvFacts
<1>5. DotsInv(R, t, {}, {}) /\ Ended(Afresh, R, ds)
  <2>1. ds \subseteq Dots
    OBVIOUS
  <2> HIDE DEF ds
  <2> QED BY <1>2, <1>4, <2>1, AfreshKeeps, AllKeep
<1>6. Alive(R, t)
  <2>1. ASSUME NEW d \in Dots \ ds, Up(Afresh, d)
        PROVE  Afresh.dot[d].expires > t /\ Afresh.dot[d].duration > 0
    <3>1. dot[d].expires \in Nat /\ ~(dot[d].expires <= t)
      BY <2>1, InvFacts DEF DotsInv, States, Records
    <3> QED BY <1>2, <2>1, <3>1, AfreshKeeps, InvFacts DEF Alive
  <2> HIDE DEF ds, R
  <2> QED BY <1>5, <2>1, EndedAlive
<1> HIDE DEF R
<1>7. now' \in 0..Horizon /\ ops' \in 0..MaxOps /\ speed' \in [Casters -> Speeds] /\ ops \in Nat
  BY <1>1, <1>2 DEF IndInv
<1>8. IndInv'
  <2>1. R.strays \subseteq twice'
    BY <1>1, <1>5, AfreshKeeps DEF Ended
  <2> QED BY <2>1, <1>1, <1>5, <1>6, <1>7, StepKeeps
<1>9. CutClean
  BY <1>1, <1>7 DEF CutClean
<1> QED BY <1>8, <1>9

\* The action that is due ticks, and is due again one period later, or the channel is cut, or the
\* dot ended by its tick.
LEMMA TickStep ==
  ASSUME IndInv, PeriodicTick
  PROVE  IndInv' /\ CutClean
<1> DEFINE d == Head(queue).dot
           T == [State EXCEPT !.queue = Tail(@)]
           S == TickOnce(T, d, now)
           r == dot[d]
           at == now + S.dot[d].period
<1>1. /\ queue # <<>> /\ Head(queue).at = now /\ UNCHANGED <<now, speed, ops>>
      /\ \/ Becomes(IF S.dot[d].active /\ (d \in Channels => S.dot[d].left > 0)
                    THEN AddAction(S, d, at) ELSE S) /\ twice' = twice
         \/ Becomes(Cut(S, d, now)) /\ twice' = twice
         \/ Becomes(Deactivate(S, d, now)) /\ twice' = twice \cup {d}
  BY DEF PeriodicTick, NextTick
<1>2. /\ d \in Dots /\ Up(State, d) /\ r.tickAt = now
      /\ T.dot = dot /\ T.channel = channel /\ T.last = last
      /\ T.strays = strays /\ DotsInv(T, now, {d}, {})
  BY <1>1, InvFacts, TailFacts
<1> HIDE DEF d, T
<1>3. /\ T \in States /\ Queued(T, {d}) /\ dot \in [Dots -> Records]
      /\ r \in Records /\ last \in [Dots -> Nat]
  BY <1>2 DEF DotsInv, States
<1>4. Timed(d, r, last[d], now) /\ r.expires > now
  BY <1>2, InvFacts DEF DotsInv, TimesInv, Alive
<1>5. OnTime(T, d, now)
  BY <1>2, <1>4 DEF Timed, OnBeat, OnTime
<1>6. /\ S \in States /\ S.queue = T.queue /\ S.channel = channel /\ S.strays = strays
      /\ S.dot = [dot EXCEPT ![d] = Ticked(r)] /\ S.last = [last EXCEPT ![d] = now]
  <2>1. now \in Nat /\ d \in Dots /\ T \in States /\ S = TickOnce(T, d, now)
    BY <1>2, <1>3, InvFacts
  <2> HIDE DEF S
  <2>2. /\ S \in States /\ S.queue = T.queue /\ S.channel = T.channel /\ S.strays = T.strays
        /\ S.dot = [T.dot EXCEPT ![d] = Ticked(T.dot[d])] /\ S.last = [T.last EXCEPT ![d] = now]
    BY <1>5, <2>1, TickFacts
  <2> QED BY <1>2, <1>3, <2>2
<1> HIDE DEF S
<1>7. /\ S.dot[d] = Ticked(r) /\ \A e \in Dots : e # d => S.dot[e] = dot[e]
      /\ S.last[d] = now /\ \A e \in Dots : e # d => S.last[e] = last[e]
  BY <1>2, <1>3, <1>6
<1> HIDE DEF r
<1>8. /\ Ticked(r) \in Records /\ Ticked(r).active = r.active /\ Ticked(r).tickAt = r.tickAt
      /\ Ticked(r).expires = r.expires /\ Ticked(r).duration = r.duration
      /\ Ticked(r).period = r.period
  BY <1>3, TickedFacts
<1>9. \A e \in Dots : Up(S, e) = Up(T, e) /\ S.dot[e].tickAt = T.dot[e].tickAt
  BY <1>2, <1>7, <1>8 DEF Up, r
<1>10. DotsInv(S, now, {d}, {})
  <2>1. Queued(S, {d})
    BY <1>3, <1>6, <1>9, QueueSame
  <2>2. TimesInv(S, now, {d})
    <3> SUFFICES ASSUME NEW e \in Dots
                 PROVE  /\ S.last[e] <= now
                        /\ ~Up(S, e) => S.dot[e] = Idle
                        /\ Up(S, e) /\ e # d => Timed(e, S.dot[e], S.last[e], now)
      BY DEF TimesInv
    <3>1. /\ T.last[e] <= now
          /\ ~Up(T, e) => T.dot[e] = Idle
          /\ Up(T, e) /\ e # d => Timed(e, T.dot[e], T.last[e], now)
      BY <1>2 DEF DotsInv, TimesInv
    <3>2. CASE e = d
      <4>1. Up(S, d)
        BY <1>2, <1>9, InvFacts DEF Up
      <4> QED BY <1>7, <3>2, <4>1, InvFacts
    <3>3. CASE e # d
      BY <1>2, <1>7, <1>9, <3>1, <3>3
    <3> QED BY <3>2, <3>3
  <2>3. ChannelInv(S, {}) /\ GroupInv(S)
    BY <1>2, <1>6, <1>9, DotsAssumption DEF DotsInv, ChannelInv, GroupInv
  <2> QED BY <1>3, <1>6, <2>1, <2>2, <2>3 DEF DotsInv
<1>11. Up(S, d) /\ Alive(S, now)
  <2>1. Up(S, d)
    BY <1>2, <1>9, InvFacts DEF Up
  <2> QED BY <1>2, <1>7, <1>8, <1>9, <2>1, InvFacts DEF Alive, Up, r
<1>12. /\ r.tickAt + r.period \in Nat /\ (d \notin Refreshed => Ticked(r).left >= 1)
       /\ Timed(d, [Ticked(r) EXCEPT !.tickAt = r.tickAt + r.period], r.tickAt, r.tickAt)
  BY <1>2, <1>3, <1>4, TickNumbers, InvFacts
<1>13. at = r.tickAt + r.period
  BY <1>2, <1>7, <1>8 DEF r
<1> HIDE DEF at
<1>14. now' \in 0..Horizon /\ ops' \in 0..MaxOps /\ speed' \in [Casters -> Speeds] /\ ops \in Nat
       /\ now' = now /\ ops' = ops /\ strays \subseteq twice /\ twice \subseteq Dots
  BY <1>1 DEF IndInv
<1>15. ASSUME Becomes(IF S.dot[d].active /\ (d \in Channels => S.dot[d].left > 0)
                      THEN AddAction(S, d, at) ELSE S),
              twice' = twice
       PROVE  IndInv'
  <2> DEFINE R == AddAction(S, d, at)
  <2>1. d \in Channels => S.dot[d].left > 0
    <3>1. Ticked(r).left \in Int
      BY <1>8 DEF Records
    <3> QED BY <1>7, <1>12, <3>1, DotsAssumption
  <2>2. Becomes(R)
    BY <1>11, <1>15, <2>1 DEF Up
  <2>3. at \in Nat /\ Timed(d, [S.dot[d] EXCEPT !.tickAt = at], S.last[d], now)
    BY <1>2, <1>7, <1>12, <1>13 DEF r
  <2>4. /\ DotsInv(R, now, {}, {}) /\ R.dot[d] = [S.dot[d] EXCEPT !.tickAt = at]
        /\ \A e \in Dots : e # d => R.dot[e] = S.dot[e]
    BY <1>2, <1>10, <1>11, <2>3, RequeueKeeps, InvFacts
  <2>5. R.strays = S.strays
    BY <1>2, <1>6, <2>3, AddStrays
  <2> HIDE DEF R
  <2>6. R.strays \subseteq twice'
    BY <1>6, <1>14, <1>15, <2>5
  <2>7. Alive(R, now)
    <3>1. R.dot[d].active = S.dot[d].active /\ R.dot[d].expires = S.dot[d].expires
          /\ R.dot[d].duration = S.dot[d].duration
      BY <1>7, <1>8, <2>4 DEF Records
    <3> QED BY <1>11, <2>4, <3>1 DEF Alive, Up
  <2> QED BY <1>14, <1>15, <2>2, <2>4, <2>7, <2>6, StepKeeps
<1>16. ASSUME Becomes(Cut(S, d, now)), twice' = twice
       PROVE  IndInv'
  <2> DEFINE R == Cut(S, d, now)
  <2>1. d \in Dots \ {} /\ {d} \ {d} = {}
    BY <1>2
  <2>2. DotsInv(R, now, {d} \ {d}, {}) /\ Ended(S, R, {d})
    BY <1>10, <1>11, <2>1, CutKeeps, InvFacts
  <2>3. Becomes(R)
    BY <1>16
  <2> HIDE DEF R
  <2>4. Alive(R, now)
    BY <1>11, <2>2, EndedAlive DEF Alive
  <2>5. R.strays \subseteq twice'
    BY <1>6, <1>14, <1>16, <2>2 DEF Ended
  <2> QED BY <1>14, <1>16, <2>1, <2>2, <2>3, <2>4, <2>5, StepKeeps
<1>17. ASSUME Becomes(Deactivate(S, d, now)), twice' = twice \cup {d}
       PROVE  IndInv'
  <2> DEFINE R == Deactivate(S, d, now)
  <2>1. d \in Dots \ {} /\ {d} \ {d} = {} /\ twice' \subseteq Dots
    BY <1>2, <1>14, <1>17
  <2>2. DotsInv(R, now, {d} \ {d}, {}) /\ Done(S, R, {d}) /\ LastTicked(S, R, d, {d}, now)
    BY <1>10, <2>1, DeactivateFacts, InvFacts
  <2>3. Becomes(R)
    BY <1>17
  <2> HIDE DEF R
  <2>4. Alive(R, now)
    BY <1>11, <2>2 DEF Done, Alive, Up, Idle
  <2>5. R.strays \subseteq twice'
    BY <1>6, <1>14, <1>17, <2>2 DEF LastTicked
  <2> QED BY <1>14, <2>1, <2>2, <2>3, <2>4, <2>5, StepKeeps
<1>18. IndInv'
  BY <1>1, <1>15, <1>16, <1>17
<1>19. CutClean
  BY <1>14 DEF CutClean
<1> QED BY <1>18, <1>19

\* The dots before the iteration begins.
Fresh ==
    [dot |-> [d \in Dots |-> Idle], queue |-> <<>>, channel |-> [c \in Casters |-> Nil],
     last |-> [d \in Dots |-> 0], strays |-> {}]

\* No dot is up.
LEMMA FreshKeeps == DotsInv(Fresh, 0, {}, {}) /\ Alive(Fresh, 0)
<1>1. /\ Fresh.dot = [d \in Dots |-> Idle] /\ Fresh.queue = <<>>
      /\ Fresh.channel = [c \in Casters |-> Nil] /\ Fresh.last = [d \in Dots |-> 0]
      /\ Fresh.strays = {}
  BY DEF Fresh
<1>2. Idle \in Records /\ ~Idle.active
  BY DEF Idle, Records
<1>3. Fresh \in States
  <2>1. <<>> \in Seq(Entries)
    OBVIOUS
  <2> QED BY <1>2, <2>1 DEF Fresh, States
<1>4. \A d \in Dots : Fresh.dot[d] = Idle /\ ~Up(Fresh, d) /\ Fresh.last[d] = 0
  BY <1>1, <1>2 DEF Up
<1>5. 1..Len(Fresh.queue) = {}
  BY <1>1
<1>6. Queued(Fresh, {})
  BY <1>4, <1>5 DEF Queued, SortedQueue, OneEach, NoneLeft, AllQueued
<1>7. TimesInv(Fresh, 0, {})
  BY <1>4 DEF TimesInv
<1>8. ChannelInv(Fresh, {})
  BY <1>1, <1>4, DotsAssumption DEF ChannelInv
<1>9. GroupInv(Fresh) /\ Alive(Fresh, 0)
  BY <1>4 DEF GroupInv, Alive
<1> QED BY <1>1, <1>3, <1>6, <1>7, <1>8, <1>9 DEF DotsInv

\* The invariant holds at first.
LEMMA DotsInit == Init => IndInv
<1> SUFFICES ASSUME Init PROVE IndInv
  OBVIOUS
<1>1. State = Fresh /\ now = 0 /\ strays = {} /\ twice = {}
  BY DEF Init, State, Fresh
<1>2. DotsInv(State, now, {}, {}) /\ Alive(State, now)
  BY <1>1, FreshKeeps
<1>3. now \in 0..Horizon /\ ops \in 0..MaxOps /\ speed \in [Casters -> Speeds]
  BY DotsAssumption DEF Init
<1> QED BY <1>1, <1>2, <1>3 DEF IndInv

\* The last auras end with the iteration, which leaves nothing to the next.
LEMMA EndStep ==
  ASSUME IndInv, EndIteration
  PROVE  IndInv' /\ CutClean
<1> DEFINE R == DeactivateAll(Afresh, Dots, Horizon)
<1>1. /\ \A i \in DOMAIN queue : queue[i].at > Horizon
      /\ dot' = R.dot /\ strays' = R.strays /\ twice' = {} /\ now' = 0 /\ ops' = 0
      /\ speed' = [c \in Casters |-> 1] /\ queue' = <<>>
      /\ channel' = [c \in Casters |-> Nil] /\ last' = [d \in Dots |-> 0]
  BY DEF EndIteration
<1>2. Horizon \in Nat /\ 1 \in Speeds /\ MaxOps \in Nat
  BY DotsAssumption
<1>3. \A i \in 1..Len(queue) : Horizon <= queue[i].at
  <2>1. queue \in Seq(Entries)
    BY InvFacts DEF DotsInv, States
  <2>2. DOMAIN queue = 1..Len(queue) /\ \A i \in 1..Len(queue) : queue[i] \in Entries
    BY <2>1
  <2>3. \A i \in 1..Len(queue) : queue[i].at \in Nat
    BY <2>2 DEF Entries
  <2> QED BY <1>1, <1>2, <2>2, <2>3
<1>4. DotsInv(Afresh, Horizon, {}, {})
  BY <1>2, <1>3, AfreshKeeps, LaterKeeps, InvFacts
<1>5. DotsInv(R, Horizon, {}, {}) /\ Ended(Afresh, R, Dots)
  BY <1>2, <1>4, AllKeep, InvFacts
<1> HIDE DEF R
<1>6. R.dot = [d \in Dots |-> Idle] /\ R.strays = {}
  BY <1>5, AfreshKeeps DEF Ended, Done
<1>7. Becomes(Fresh)
  BY <1>1, <1>6 DEF Becomes, Fresh
<1>8. /\ DotsInv(Fresh, now', {}, {}) /\ Alive(Fresh, now')
      /\ Fresh.strays \subseteq twice'
  BY <1>1, FreshKeeps DEF Fresh
<1>9. now' \in 0..Horizon /\ ops' \in 0..MaxOps /\ speed' \in [Casters -> Speeds]
      /\ twice' \subseteq Dots
  BY <1>1, <1>2
<1>10. IndInv'
  BY <1>7, <1>8, <1>9, StepKeeps
<1>11. CutClean
  BY <1>1 DEF CutClean, IndInv
<1> QED BY <1>10, <1>11

\* Each step keeps the invariant, and cuts a channel without a tick.
LEMMA DotsNext ==
  ASSUME IndInv, Next
  PROVE  IndInv' /\ CutClean
<1>1. ASSUME NEW d \in Dots, Apply(d) \/ Extend(d) \/ Refresh(d) \/ Consume(d)
      PROVE  IndInv' /\ CutClean
  BY <1>1, ApplyStep, ExtendStep, RefreshStep, ConsumeStep
<1>2. ASSUME NEW c \in Casters, Interrupt(c) \/ LookAtChannel(c) \/ ChangeSpeed(c)
      PROVE  IndInv' /\ CutClean
  <2>1. CASE Interrupt(c)
    <3>1. channel[c] # Nil /\ Acts /\ Becomes(Cut(State, channel[c], now)) /\ speed' = speed
      BY <2>1 DEF Interrupt
    <3> QED BY <3>1, CutStep
  <2> QED BY <1>2, <2>1, LookStep, ChangeSpeedStep
<1> QED BY <1>1, <1>2, DisableStep, AdvanceStep, TickStep, EndStep DEF Next

\* Nothing changes where nothing happens.
LEMMA DotsStutter ==
  ASSUME IndInv, UNCHANGED vars
  PROVE  IndInv'
<1>1. State' = State /\ now' = now /\ ops' = ops /\ speed' = speed /\ twice' = twice
  BY DEF vars, State
<1>2. Becomes(State) /\ DotsInv(State, now', {}, {}) /\ Alive(State, now')
  BY <1>1, InvFacts DEF Becomes, vars
<1>3. strays \subseteq twice' /\ now' \in 0..Horizon /\ ops' \in 0..MaxOps /\ speed' \in [Casters -> Speeds]
      /\ twice' \subseteq Dots
  BY <1>1 DEF IndInv
<1> QED BY <1>2, <1>3, StepKeeps, InvFacts

\* The inductive invariant holds of every state.
LEMMA DotsInvariant == Spec => []IndInv
<1>1. IndInv /\ [Next]_vars => IndInv'
  BY DotsNext, DotsStutter
<1> QED BY <1>1, DotsInit, PTL DEF Spec

-----------------------------------------------------------------------------
(* The properties *)

\* Each variable has its type, and a dot and its action keep together: a dot that is up has one
\* tick on the queue, when the dot thinks and not in the past, and one that is down has none.
THEOREM OneTickCorrect == Spec => []OneTickQueued
<1>1. IndInv => OneTickQueued
  <2> SUFFICES ASSUME IndInv PROVE OneTickQueued
    OBVIOUS
  <2>1. /\ State \in States /\ dot \in [Dots -> Records] /\ queue \in Seq(Entries)
        /\ channel \in [Casters -> Dots \cup {Nil}] /\ last \in [Dots -> Nat]
        /\ strays \subseteq Dots /\ twice \subseteq Dots
    BY InvFacts DEF DotsInv, States
  <2>2. DOMAIN queue = 1..Len(queue) /\ \A i \in 1..Len(queue) : queue[i] \in Entries
    BY <2>1
  <2>3. TypeOK
    <3>1. last \in [Dots -> 0..Horizon]
      <4>1. \A d \in Dots : last[d] \in 0..Horizon
        <5> TAKE d \in Dots
        <5>1. last[d] \in Nat /\ last[d] <= now
          BY <2>1, InvFacts DEF DotsInv, TimesInv
        <5> QED BY <5>1, InvFacts, DotsAssumption
      <4> QED BY <2>1, <4>1
    <3>2. \A d \in Dots :
             /\ dot[d].active \in BOOLEAN
             /\ \A f \in {"expires", "duration", "period", "done"} : dot[d][f] \in Nat
             /\ dot[d].left \in Int /\ dot[d].tickAt \in Nat \cup {Nil}
      BY <2>1 DEF Records
    <3>3. queue \in Seq([dot : Dots, at : Nat])
      BY <2>1 DEF Entries
    <3>4. now \in 0..Horizon /\ ops \in 0..MaxOps /\ speed \in [Casters -> Speeds]
      BY DEF IndInv
    <3> QED BY <2>1, <3>1, <3>2, <3>3, <3>4 DEF TypeOK
  <2>4. ASSUME NEW d \in Active
        PROVE  \E i \in DOMAIN queue :
                  EntriesOf(d) = {i} /\ queue[i].at = dot[d].tickAt /\ queue[i].at >= now
    <3>1. d \in Dots /\ Up(State, d)
      BY InvFacts DEF Active
    <3>2. PICK i \in 1..Len(queue) : queue[i].dot = d
      BY <3>1, InvFacts DEF DotsInv, Queued, AllQueued
    <3>3. dot[d].tickAt = queue[i].at
      BY <3>2, InvFacts DEF DotsInv, Queued, NoneLeft
    <3>4. dot[d].tickAt >= now
      BY <3>1, InvFacts DEF DotsInv, TimesInv, Timed
    <3>5. \A j \in 1..Len(queue) : queue[j].dot = d => j = i
      BY <3>2, InvFacts DEF DotsInv, Queued, OneEach
    <3> QED BY <2>2, <3>2, <3>3, <3>4, <3>5 DEF EntriesOf
  <2>5. ASSUME NEW d \in Dots \ Active PROVE EntriesOf(d) = {} /\ dot[d].tickAt = Nil
    <3>1. d \in Dots /\ ~Up(State, d)
      BY InvFacts DEF Active
    <3>2. dot[d] = Idle
      BY <3>1, InvFacts DEF DotsInv, TimesInv
    <3>3. \A i \in 1..Len(queue) : queue[i].dot # d
      BY <3>1, InvFacts DEF DotsInv, Queued, NoneLeft
    <3> QED BY <2>2, <3>2, <3>3 DEF EntriesOf, Idle
  <2> QED BY <2>3, <2>4, <2>5 DEF OneTickQueued
<1> QED BY <1>1, DotsInvariant, PTL

\* remainingTicks is true of a dot that is up: the ticks to come, one a period, reach to the end of
\* its aura.
THEOREM RemainingCorrect == Spec => []RemainingIsTrue
<1>1. IndInv => RemainingIsTrue
  <2> SUFFICES ASSUME IndInv, NEW d \in Active \ Refreshed
               PROVE  /\ dot[d].left >= 1
                      /\ dot[d].expires = dot[d].tickAt + (dot[d].left - 1) * dot[d].period
                      /\ d \notin Extended =>
                            (dot[d].done + dot[d].left) * dot[d].period = dot[d].duration
    BY DEF RemainingIsTrue
  <2>1. Timed(d, dot[d], last[d], now)
    BY InvFacts DEF Active, DotsInv, TimesInv
  <2> QED BY <2>1 DEF Timed, Counted
<1> QED BY <1>1, DotsInvariant, PTL

\* No tick is done twice or between the beats of its dot, but by a dot that its own tick ended at
\* this very instant.
THEOREM TicksCorrect == Spec => []TicksKeepTime
<1>1. IndInv => TicksKeepTime
  BY DEF IndInv, TicksKeepTime
<1> QED BY <1>1, DotsInvariant, PTL

\* A caster keeps one rank of a periodic on a unit, and its ChanneledDot is its one channel up.
THEOREM OnePerCasterCorrect == Spec => []OnePerCaster
<1>1. IndInv => OnePerCaster
  <2> SUFFICES ASSUME IndInv PROVE OnePerCaster
    OBVIOUS
  <2>1. \A d, e \in Active : (GroupOf(d) # Nil /\ e \in Rivals(d)) => d = e
    BY InvFacts DEF Active, DotsInv, GroupInv
  <2>2. ASSUME NEW c \in Casters
        PROVE  {d \in Active \cap Channels : CasterOf(d) = c} = {channel[c]} \ {Nil}
    <3>1. ASSUME NEW d \in Active \cap Channels, CasterOf(d) = c
          PROVE  d = channel[c] /\ d # Nil
      BY <3>1, InvFacts, DotsAssumption DEF Active, DotsInv, ChannelInv
    <3>2. channel[c] # Nil =>
             channel[c] \in Active \cap Channels /\ CasterOf(channel[c]) = c
      BY InvFacts DEF Active
    <3> QED BY <3>1, <3>2
  <2> QED BY <2>1, <2>2 DEF OnePerCaster
<1> QED BY <1>1, DotsInvariant, PTL

\* A channel that is replaced, interrupted or whose target goes away does no tick more.
THEOREM CutCorrect == Spec => CutWithoutTick
<1>1. IndInv /\ [Next]_vars => [CutClean]_vars
  BY DotsNext
<1>2. Spec => [][CutClean]_vars
  BY <1>1, DotsInvariant, PTL DEF Spec
<1> QED BY <1>2 DEF CutWithoutTick, CutClean

===============================================================================
