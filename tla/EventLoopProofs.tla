---------------------------- MODULE EventLoopProofs ----------------------------
(***************************************************************************)
(* Theorems about EventLoop.                                               *)
(***************************************************************************)
EXTENDS EventLoop, TLAPS

-----------------------------------------------------------------------------
(* Slices that are edited, element by element *)

\* slices.Insert: what lies before k stays, the new element is at k, the rest moves up.
LEMMA InsertAtFacts ==
  ASSUME NEW S, NEW s \in Seq(S), NEW e \in S, NEW k \in 1..(Len(s) + 1)
  PROVE  /\ InsertAt(s, k, e) \in Seq(S)
         /\ Len(InsertAt(s, k, e)) = Len(s) + 1
         /\ \A i \in 1..(Len(s) + 1) :
               InsertAt(s, k, e)[i] = IF i < k THEN s[i] ELSE IF i = k THEN e ELSE s[i - 1]
<1> DEFINE a == SubSeq(s, 1, k - 1)
           c == SubSeq(s, k, Len(s))
           ae == a \o <<e>>
<1>1. a \in Seq(S) /\ Len(a) = k - 1 /\ \A i \in 1..(k - 1) : a[i] = s[i]
  OBVIOUS
<1>2. c \in Seq(S) /\ Len(c) = Len(s) - k + 1 /\ \A i \in 1..Len(c) : c[i] = s[k + i - 1]
  OBVIOUS
<1>3. ae \in Seq(S) /\ Len(ae) = k /\ (\A i \in 1..(k - 1) : ae[i] = a[i]) /\ ae[k] = e
  <2> HIDE DEF a
  <2> QED BY <1>1
<1>4. InsertAt(s, k, e) = ae \o c
  BY DEF InsertAt
<1> HIDE DEF a, c, ae
<1>5. /\ ae \o c \in Seq(S) /\ Len(ae \o c) = Len(s) + 1
      /\ \A i \in 1..(Len(s) + 1) : (ae \o c)[i] = IF i <= k THEN ae[i] ELSE c[i - k]
  <2>1. Len(ae) = k /\ Len(c) = Len(s) - k + 1 /\ k \in Nat /\ Len(s) \in Nat
    BY <1>2, <1>3
  <2>2. ae \o c \in Seq(S) /\ Len(ae \o c) = Len(s) + 1
    BY <1>2, <1>3, <2>1
  <2>3. ASSUME NEW i \in 1..(Len(s) + 1) PROVE (ae \o c)[i] = IF i <= k THEN ae[i] ELSE c[i - k]
    BY <1>2, <1>3, <2>1
  <2> QED BY <2>2, <2>3
<1>6. ASSUME NEW i \in 1..(Len(s) + 1)
      PROVE  (ae \o c)[i] = IF i < k THEN s[i] ELSE IF i = k THEN e ELSE s[i - 1]
  <2>1. (ae \o c)[i] = IF i <= k THEN ae[i] ELSE c[i - k]
    BY <1>5
  <2>2. CASE i < k
    <3>1. i \in 1..(k - 1) /\ i <= k
      BY <2>2
    <3> QED BY <1>1, <1>3, <2>1, <2>2, <3>1
  <2>3. CASE i = k
    BY <1>3, <2>1, <2>3
  <2>4. CASE k < i
    <3>1. i - k \in 1..Len(c) /\ k + (i - k) - 1 = i - 1 /\ ~(i <= k) /\ ~(i < k) /\ i # k
      BY <1>2, <2>4
    <3>2. c[i - k] = s[k + (i - k) - 1]
      BY <1>2, <3>1
    <3> QED BY <2>1, <3>1, <3>2
  <2>5. i < k \/ i = k \/ k < i
    OBVIOUS
  <2> QED BY <2>2, <2>3, <2>4, <2>5
<1> QED BY <1>4, <1>5, <1>6

\* Removal by sliding: what lies behind k moves down by one.
LEMMA RemoveAtFacts ==
  ASSUME NEW S, NEW s \in Seq(S), NEW k \in 1..Len(s)
  PROVE  /\ RemoveAt(s, k) \in Seq(S)
         /\ Len(RemoveAt(s, k)) = Len(s) - 1
         /\ \A i \in 1..(Len(s) - 1) : RemoveAt(s, k)[i] = IF i < k THEN s[i] ELSE s[i + 1]
<1> DEFINE a == SubSeq(s, 1, k - 1)
           c == SubSeq(s, k + 1, Len(s))
<1>1. a \in Seq(S) /\ Len(a) = k - 1 /\ \A i \in 1..(k - 1) : a[i] = s[i]
  OBVIOUS
<1>2. c \in Seq(S) /\ Len(c) = Len(s) - k /\ \A i \in 1..Len(c) : c[i] = s[k + i]
  OBVIOUS
<1>3. RemoveAt(s, k) = a \o c
  BY DEF RemoveAt
<1> HIDE DEF a, c
<1>4. a \o c \in Seq(S) /\ Len(a \o c) = Len(s) - 1
  <2>1. a \in Seq(S) /\ c \in Seq(S)
    BY <1>1, <1>2
  <2>2. a \o c \in Seq(S) /\ Len(a \o c) = Len(a) + Len(c)
    BY <2>1
  <2>3. k \in Int /\ Len(s) \in Int
    OBVIOUS
  <2> QED BY <1>1, <1>2, <2>2, <2>3
<1>5. ASSUME NEW i \in 1..(Len(s) - 1)
      PROVE  (a \o c)[i] = IF i < k THEN s[i] ELSE s[i + 1]
  <2>1. (a \o c)[i] = IF i <= Len(a) THEN a[i] ELSE c[i - Len(a)]
    BY <1>1, <1>2
  <2>2. CASE i < k
    <3>1. i \in 1..(k - 1) /\ i <= k - 1
      BY <2>2
    <3> QED BY <1>1, <2>1, <2>2, <3>1
  <2>3. CASE ~(i < k)
    <3>1. i - (k - 1) \in 1..Len(c) /\ k + (i - (k - 1)) = i + 1 /\ ~(i <= k - 1)
      BY <1>2, <2>3
    <3>2. c[i - (k - 1)] = s[k + (i - (k - 1))]
      BY <1>2, <3>1
    <3> QED BY <1>1, <2>1, <2>3, <3>1, <3>2
  <2> QED BY <2>2, <2>3
<1> QED BY <1>3, <1>4, <1>5

\* Re-slicing s[:n] keeps the first n elements.
LEMMA PrefixFacts ==
  ASSUME NEW S, NEW s \in Seq(S), NEW n \in 0..Len(s)
  PROVE  /\ SubSeq(s, 1, n) \in Seq(S)
         /\ Len(SubSeq(s, 1, n)) = n
         /\ \A i \in 1..n : SubSeq(s, 1, n)[i] = s[i]
OBVIOUS

-----------------------------------------------------------------------------
(* The event loop *)

-----------------------------------------------------------------------------
(* The queue as a data structure *)

QueueItems == Actions \cup {Sentinel}
Members(q) == {q[i] : i \in 1..Len(q)}

\* With the times a and priorities r, x runs before an action due at t with priority pr.
Before(a, r, x, t, pr) == a[x] < t \/ (a[x] = t /\ r[x] >= pr)

\* The first L elements of q are sorted, without repetition, above the sentinel.
SortedTo(q, L, a, r) ==
    /\ q[1] = Sentinel
    /\ \A i, j \in 1..L : i < j => q[i] # q[j] /\ Before(a, r, q[j], a[q[i]], r[q[i]])

Sorted(q, a, r) == SortedTo(q, Len(q), a, r)

\* The place k that AddPendingAction's scan finds.
PlaceTo(q, L, a, r, t, pr, k) ==
    /\ \A i \in k..L : Before(a, r, q[i], t, pr)
    /\ k = 2 \/ ~Before(a, r, q[k - 1], t, pr)

\* n is q with p put in at place k.
HasInserted(n, q, L, k, p) ==
    \A i \in 1..(L + 1) : n[i] = IF i < k THEN q[i] ELSE IF i = k THEN p ELSE q[i - 1]

Numbers(q, L, a, r) == \A i \in 1..L : a[q[i]] \in Int /\ r[q[i]] \in Int
SameTimes(q, L, a, r, b, s) == \A i \in 1..L : b[q[i]] = a[q[i]] /\ s[q[i]] = r[q[i]]

\* Putting p in at the place the scan finds keeps a queue sorted (the copy and the
\* store of AddPendingAction); k = 2 is the place above the sentinel.
LEMMA InsertSorts ==
  ASSUME NEW q, NEW n, NEW L \in Nat, L > 0, NEW a, NEW r, NEW b, NEW s, NEW p,
         NEW t \in Int, NEW pr \in Int, NEW k \in Int, k >= 2, k <= L + 1,
         SortedTo(q, L, a, r), PlaceTo(q, L, a, r, t, pr, k), HasInserted(n, q, L, k, p),
         Numbers(q, L, a, r), SameTimes(q, L, a, r, b, s), b[p] = t, s[p] = pr,
         t < a[Sentinel], \A i \in 1..L : q[i] # p
  PROVE  SortedTo(n, L + 1, b, s)
<1>1. ASSUME NEW i \in 1..L, i < k
      PROVE  t < a[q[i]] \/ (t = a[q[i]] /\ pr >= r[q[i]])
  <2>1. CASE k = 2
    BY <2>1, <1>1 DEF SortedTo
  <2>2. CASE k # 2
    <3>1. k - 1 \in 1..L
      BY <2>2
    <3>2. t < a[q[k - 1]] \/ (t = a[q[k - 1]] /\ pr >= r[q[k - 1]])
      BY <2>2, <3>1 DEF PlaceTo, Before, Numbers
    <3>3. CASE i = k - 1
      BY <3>2, <3>3
    <3>4. CASE i < k - 1
      <4>1. a[q[k - 1]] < a[q[i]] \/ (a[q[k - 1]] = a[q[i]] /\ r[q[k - 1]] >= r[q[i]])
        BY <3>1, <3>4 DEF SortedTo, Before
      <4> QED BY <3>1, <3>2, <4>1 DEF Numbers
    <3> QED BY <3>3, <3>4, <1>1
  <2> QED BY <2>1, <2>2
<1>2. ASSUME NEW i \in 1..(L + 1), NEW j \in 1..(L + 1), i < j
      PROVE  n[i] # n[j] /\ Before(b, s, n[j], b[n[i]], s[n[i]])
  <2>1. CASE j < k
    <3>1. i \in 1..L /\ j \in 1..L
      BY <2>1, <1>2
    <3>2. n[i] = q[i] /\ n[j] = q[j]
      BY <2>1, <1>2 DEF HasInserted
    <3>3. q[i] # q[j] /\ Before(a, r, q[j], a[q[i]], r[q[i]])
      BY <3>1, <1>2 DEF SortedTo
    <3> QED BY <3>1, <3>2, <3>3 DEF Before, SameTimes
  <2>2. CASE j = k
    <3>1. i \in 1..L /\ i < k
      BY <2>2, <1>2
    <3>2. n[i] = q[i] /\ n[j] = p
      BY <2>2, <1>2 DEF HasInserted
    <3>3. t < a[q[i]] \/ (t = a[q[i]] /\ pr >= r[q[i]])
      BY <3>1, <1>1
    <3> QED BY <3>1, <3>2, <3>3 DEF Before, SameTimes, Numbers
  <2>3. CASE j > k /\ i = k
    <3>1. j - 1 \in k..L /\ j - 1 \in 1..L
      BY <2>3, <1>2
    <3>2. n[i] = p /\ n[j] = q[j - 1]
      BY <2>3, <1>2 DEF HasInserted
    <3>3. Before(a, r, q[j - 1], t, pr)
      BY <3>1 DEF PlaceTo
    <3> QED BY <3>1, <3>2, <3>3 DEF Before, SameTimes
  <2>4. CASE j > k /\ i < k
    <3>1. i \in 1..L /\ j - 1 \in 1..L /\ i < j - 1
      BY <2>4, <1>2
    <3>2. n[i] = q[i] /\ n[j] = q[j - 1]
      BY <2>4, <1>2 DEF HasInserted
    <3>3. q[i] # q[j - 1] /\ Before(a, r, q[j - 1], a[q[i]], r[q[i]])
      BY <3>1 DEF SortedTo
    <3> QED BY <3>1, <3>2, <3>3 DEF Before, SameTimes
  <2>5. CASE j > k /\ i > k
    <3>1. i - 1 \in 1..L /\ j - 1 \in 1..L /\ i - 1 < j - 1
      BY <2>5, <1>2
    <3>2. n[i] = q[i - 1] /\ n[j] = q[j - 1]
      BY <2>5, <1>2 DEF HasInserted
    <3>3. q[i - 1] # q[j - 1] /\ Before(a, r, q[j - 1], a[q[i - 1]], r[q[i - 1]])
      BY <3>1 DEF SortedTo
    <3> QED BY <3>1, <3>2, <3>3 DEF Before, SameTimes
  <2> QED BY <2>1, <2>2, <2>3, <2>4, <2>5
<1>3. n[1] = Sentinel
  BY DEF HasInserted, SortedTo
<1> QED BY <1>2, <1>3 DEF SortedTo

\* n is q without what stood at place k.
HasRemoved(n, q, L, k) == \A i \in 1..(L - 1) : n[i] = IF i < k THEN q[i] ELSE q[i + 1]

\* Taking one element out keeps a queue sorted, and the element is gone.
LEMMA RemoveSorts ==
  ASSUME NEW q, NEW n, NEW L \in Nat, NEW a, NEW r, NEW k \in Int, k >= 2, k <= L,
         SortedTo(q, L, a, r), HasRemoved(n, q, L, k)
  PROVE  SortedTo(n, L - 1, a, r) /\ \A i \in 1..(L - 1) : n[i] # q[k]
<1>1. ASSUME NEW i \in 1..(L - 1)
      PROVE  \E m \in 1..L : /\ n[i] = q[m] /\ m # k
                             /\ m = IF i < k THEN i ELSE i + 1
  <2>1. CASE i < k
    BY <2>1 DEF HasRemoved
  <2>2. CASE i >= k
    BY <2>2 DEF HasRemoved
  <2> QED BY <2>1, <2>2
<1>2. ASSUME NEW i \in 1..(L - 1), NEW j \in 1..(L - 1), i < j
      PROVE  n[i] # n[j] /\ Before(a, r, n[j], a[n[i]], r[n[i]])
  <2>1. PICK x \in 1..L : n[i] = q[x] /\ x = IF i < k THEN i ELSE i + 1
    BY <1>1
  <2>2. PICK y \in 1..L : n[j] = q[y] /\ y = IF j < k THEN j ELSE j + 1
    BY <1>1
  <2>3. x < y
    BY <1>2, <2>1, <2>2
  <2> QED BY <2>1, <2>2, <2>3 DEF SortedTo
<1>3. n[1] = Sentinel
  BY DEF HasRemoved, SortedTo
<1>4. ASSUME NEW i \in 1..(L - 1) PROVE n[i] # q[k]
  <2>1. PICK m \in 1..L : n[i] = q[m] /\ m # k
    BY <1>1
  <2>2. k \in 1..L /\ (m < k \/ k < m)
    BY <2>1
  <2> QED BY <2>1, <2>2 DEF SortedTo
<1> QED BY <1>2, <1>3, <1>4 DEF SortedTo

\* AddPendingAction keeps the queue sorted.
LEMMA InsertKeepsSorted ==
  ASSUME NEW q \in Seq(QueueItems), q # <<>>,
         NEW a \in [QueueItems -> Int], NEW r \in [QueueItems -> Int],
         NEW p \in Actions, NEW t \in Int, NEW pr \in Int,
         Never \in Int, t < Never, a[Sentinel] = Never,
         Sorted(q, a, r), p \notin Members(q),
         NEW k \in 2..(Len(q) + 1), PlaceTo(q, Len(q), a, r, t, pr, k)
  PROVE  /\ InsertAt(q, k, p) \in Seq(QueueItems)
         /\ InsertAt(q, k, p) # <<>>
         /\ Sorted(InsertAt(q, k, p), [a EXCEPT ![p] = t], [r EXCEPT ![p] = pr])
         /\ Members(InsertAt(q, k, p)) \subseteq Members(q) \cup {p}
<1> DEFINE n == InsertAt(q, k, p)
           L == Len(q)
           b == [a EXCEPT ![p] = t]
           s == [r EXCEPT ![p] = pr]
<1>1. k \in Int /\ k >= 2 /\ k <= L + 1 /\ L \in Nat /\ L > 0 /\ k \in 1..(L + 1)
  OBVIOUS
<1>2. p \in QueueItems
  BY DEF QueueItems
<1>3. n \in Seq(QueueItems) /\ Len(n) = L + 1 /\ n # <<>>
  BY <1>1, <1>2, InsertAtFacts
<1>4. HasInserted(n, q, L, k, p)
  BY <1>1, <1>2, InsertAtFacts DEF HasInserted
<1>5. Numbers(q, L, a, r)
  BY DEF Numbers
<1>6. (\A i \in 1..L : q[i] # p) /\ (\A i \in 1..L : q[i] \in Members(q))
  BY DEF Members
<1>7. SameTimes(q, L, a, r, b, s)
  BY <1>6 DEF SameTimes
<1>8. b[p] = t /\ s[p] = pr
  BY <1>2
<1>9. SortedTo(q, L, a, r) /\ PlaceTo(q, L, a, r, t, pr, k) /\ t < a[Sentinel]
  BY DEF Sorted
<1>10. Members(n) = {n[i] : i \in 1..(L + 1)}
  BY <1>3 DEF Members
<1>11. Sorted(n, b, s) <=> SortedTo(n, L + 1, b, s)
  BY <1>3 DEF Sorted
<1> HIDE DEF n, L, b, s
<1>12. SortedTo(n, L + 1, b, s)
  BY ONLY <1>1, <1>4, <1>5, <1>6, <1>7, <1>8, <1>9, t \in Int, pr \in Int, InsertSorts
<1>13. ASSUME NEW i \in 1..(L + 1) PROVE n[i] \in Members(q) \cup {p}
  <2>1. n[i] = IF i < k THEN q[i] ELSE IF i = k THEN p ELSE q[i - 1]
    BY <1>4 DEF HasInserted
  <2>2. (i < k => i \in 1..L) /\ (i > k => i - 1 \in 1..L) /\ (i < k \/ i = k \/ i > k)
    BY ONLY <1>1, i \in 1..(L + 1)
  <2> QED BY ONLY <2>1, <2>2, <1>1, <1>6, i \in 1..(L + 1)
<1> QED BY <1>3, <1>10, <1>11, <1>12, <1>13 DEF n, b, s

\* Cancel keeps the queue sorted, and the action is off it.
LEMMA RemoveKeepsSorted ==
  ASSUME NEW q \in Seq(QueueItems), NEW a, NEW r, Sorted(q, a, r), NEW k \in 2..Len(q)
  PROVE  /\ RemoveAt(q, k) \in Seq(QueueItems)
         /\ RemoveAt(q, k) # <<>>
         /\ Sorted(RemoveAt(q, k), a, r)
         /\ Members(RemoveAt(q, k)) \subseteq Members(q) \ {q[k]}
<1> DEFINE n == RemoveAt(q, k)
           L == Len(q)
<1>1. k \in Int /\ k >= 2 /\ k <= L /\ L \in Nat /\ k \in 1..L
  OBVIOUS
<1>2. n \in Seq(QueueItems) /\ Len(n) = L - 1 /\ n # <<>>
  BY <1>1, RemoveAtFacts
<1>3. HasRemoved(n, q, L, k)
  BY <1>1, RemoveAtFacts DEF HasRemoved
<1>4. SortedTo(q, L, a, r)
  BY DEF Sorted
<1>5. Members(n) = {n[i] : i \in 1..(L - 1)} /\ Members(q) = {q[i] : i \in 1..L}
  BY <1>2 DEF Members
<1>6. Sorted(n, a, r) <=> SortedTo(n, L - 1, a, r)
  BY <1>2 DEF Sorted
<1> HIDE DEF n, L
<1>7. SortedTo(n, L - 1, a, r) /\ \A i \in 1..(L - 1) : n[i] # q[k]
  BY <1>1, <1>3, <1>4, RemoveSorts
<1>8. ASSUME NEW i \in 1..(L - 1) PROVE n[i] \in Members(q) \ {q[k]}
  <2>1. n[i] = IF i < k THEN q[i] ELSE q[i + 1]
    BY <1>3 DEF HasRemoved
  <2>2. (i < k => i \in 1..L) /\ (i >= k => i + 1 \in 1..L) /\ (i < k \/ i >= k)
    BY ONLY <1>1, i \in 1..(L - 1)
  <2> QED BY ONLY <2>1, <2>2, <1>1, <1>5, <1>7, i \in 1..(L - 1)
<1> QED BY <1>2, <1>5, <1>6, <1>7, <1>8 DEF n

\* Step takes the last action off: the rest of the queue stays sorted.
LEMMA PopKeepsSorted ==
  ASSUME NEW q \in Seq(QueueItems), NEW a, NEW r, Sorted(q, a, r), Len(q) > 1
  PROVE  /\ SubSeq(q, 1, Len(q) - 1) \in Seq(QueueItems)
         /\ SubSeq(q, 1, Len(q) - 1) # <<>>
         /\ Sorted(SubSeq(q, 1, Len(q) - 1), a, r)
         /\ Members(SubSeq(q, 1, Len(q) - 1)) \subseteq Members(q) \ {q[Len(q)]}
<1> DEFINE L == Len(q)
           n == SubSeq(q, 1, L - 1)
<1>1. L \in Nat /\ L > 1 /\ L - 1 \in 0..L
  OBVIOUS
<1>2. n \in Seq(QueueItems) /\ Len(n) = L - 1 /\ n # <<>>
  <2>1. n \in Seq(QueueItems) /\ Len(n) = L - 1
    BY <1>1, PrefixFacts
  <2> HIDE DEF n, L
  <2> QED BY <1>1, <2>1
<1>3. \A i \in 1..(L - 1) : n[i] = q[i]
  BY <1>1, PrefixFacts
<1>4. SortedTo(q, L, a, r)
  BY DEF Sorted
<1>5. Members(n) = {n[i] : i \in 1..(L - 1)} /\ Members(q) = {q[i] : i \in 1..L}
  BY <1>2 DEF Members
<1>6. Sorted(n, a, r) <=> SortedTo(n, L - 1, a, r)
  BY <1>2 DEF Sorted
<1> HIDE DEF n, L
<1>7. SortedTo(n, L - 1, a, r)
  BY <1>1, <1>3, <1>4 DEF SortedTo
<1>8. ASSUME NEW i \in 1..(L - 1) PROVE n[i] \in Members(q) \ {q[L]}
  BY <1>1, <1>3, <1>4, <1>5 DEF SortedTo
<1> QED BY <1>2, <1>5, <1>6, <1>7, <1>8 DEF n, L

-----------------------------------------------------------------------------
(* The invariant, in parts *)

\* The queue: what QueueOrdered says, and that only the sentinel is due never.
QueueInv ==
    /\ pending \in Seq(QueueItems) /\ pending # <<>>
    /\ at \in [QueueItems -> Int] /\ prio \in [QueueItems -> Int]
    /\ cancelled \in [QueueItems -> BOOLEAN] /\ consumed \in [QueueItems -> BOOLEAN]
    /\ pool \subseteq Pooled
    /\ Sorted(pending, at, prio)
    /\ \A x \in Members(pending) \ {Sentinel} : ~cancelled[x] /\ ~consumed[x] /\ x \notin pool
    /\ at[Sentinel] = Never
    /\ \A p \in Actions : at[p] < Never

\* The part of AddPendingAction that an action of the model leaves to its caller:
\* the queue q it adds to does not hold p, and p is not in the pool.
LEMMA AddKeepsQueue ==
  ASSUME QueueInv, NEW q \in Seq(QueueItems), q # <<>>, Sorted(q, at, prio),
         NEW p \in Actions, Members(q) \subseteq Members(pending) \ {p},
         NEW t \in Int, t < Never, NEW pr \in Int,
         AddPendingAction(q, p, t, pr), pool' \subseteq pool \ {p}
  PROVE  QueueInv' /\ Members(pending') \subseteq Members(pending) \cup {p}
                   /\ at' = [at EXCEPT ![p] = t]
<1>1. PICK k \in 2..(Len(q) + 1) : InsertPoint(q, t, pr, k) /\ pending' = InsertAt(q, k, p)
  BY DEF AddPendingAction
<1>2. PlaceTo(q, Len(q), at, prio, t, pr, k)
  BY <1>1 DEF InsertPoint, PlaceTo, GoesFirst, Before
<1>3. /\ at \in [QueueItems -> Int] /\ prio \in [QueueItems -> Int]
      /\ Never \in Int /\ at[Sentinel] = Never /\ p \notin Members(q)
  BY ConstantsAssumption DEF QueueInv
<1>4. /\ pending' \in Seq(QueueItems) /\ pending' # <<>>
      /\ Sorted(pending', [at EXCEPT ![p] = t], [prio EXCEPT ![p] = pr])
      /\ Members(pending') \subseteq Members(q) \cup {p}
  BY <1>1, <1>2, <1>3, InsertKeepsSorted
<1>5. /\ at' = [at EXCEPT ![p] = t] /\ prio' = [prio EXCEPT ![p] = pr]
      /\ consumed' = [consumed EXCEPT ![p] = FALSE]
      /\ cancelled' = [cancelled EXCEPT ![p] = FALSE]
  BY DEF AddPendingAction
<1>6. p \in QueueItems /\ p # Sentinel
  BY ConstantsAssumption DEF QueueItems
<1>7. Members(pending') \subseteq Members(pending) \cup {p}
  BY <1>4
<1>8. Sorted(pending', at', prio')
  BY <1>4, <1>5
<1>9. \A x \in Members(pending') \ {Sentinel} : ~cancelled'[x] /\ ~consumed'[x] /\ x \notin pool'
  <2> SUFFICES ASSUME NEW x \in Members(pending'), x # Sentinel
               PROVE  ~cancelled'[x] /\ ~consumed'[x] /\ x \notin pool'
    OBVIOUS
  <2>1. CASE x = p
    BY <2>1, <1>5, <1>6 DEF QueueInv
  <2>2. CASE x # p
    BY <2>2, <1>5, <1>6, <1>7 DEF QueueInv
  <2> QED BY <2>1, <2>2
<1>10. /\ at' \in [QueueItems -> Int] /\ prio' \in [QueueItems -> Int]
       /\ cancelled' \in [QueueItems -> BOOLEAN] /\ consumed' \in [QueueItems -> BOOLEAN]
       /\ at'[Sentinel] = Never
       /\ \A y \in Actions : at'[y] < Never
  BY <1>5, <1>6 DEF QueueInv, QueueItems
<1>11. pool' \subseteq Pooled
  BY DEF QueueInv
<1> QED BY <1>4, <1>5, <1>7, <1>8, <1>9, <1>10, <1>11 DEF QueueInv

\* PendingAction.Cancel leaves a sorted queue without the action.
LEMMA WithoutCancelledFacts ==
  ASSUME QueueInv, NEW p \in Actions
  PROVE  /\ WithoutCancelled(p) \in Seq(QueueItems) /\ WithoutCancelled(p) # <<>>
         /\ Sorted(WithoutCancelled(p), at, prio)
         /\ Members(WithoutCancelled(p)) \subseteq Members(pending) \ {p}
<1>1. p # Sentinel
  BY ConstantsAssumption
<1>2. CASE cancelled[p] \/ p \notin Queued
  <2>1. p \notin Members(pending)
    BY <1>1, <1>2 DEF QueueInv, Queued, Members
  <2> QED BY <1>2, <2>1 DEF QueueInv, WithoutCancelled
<1>3. CASE ~(cancelled[p] \/ p \notin Queued)
  <2> DEFINE k == CHOOSE i \in 1..Len(pending) : pending[i] = p
  <2>1. k \in 1..Len(pending) /\ pending[k] = p
    <3>1. \E i \in 1..Len(pending) : pending[i] = p
      BY <1>3 DEF Queued
    <3> QED BY <3>1
  <2>2. WithoutCancelled(p) = RemoveAt(pending, k)
    BY <1>3 DEF WithoutCancelled
  <2> HIDE DEF k
  <2>3. pending \in Seq(QueueItems) /\ Sorted(pending, at, prio) /\ pending[1] = Sentinel
    BY DEF QueueInv, Sorted, SortedTo
  <2>4. k \in 2..Len(pending)
    <3>1. k # 1
      BY <1>1, <2>1, <2>3
    <3> QED BY <2>1, <3>1
  <2> QED BY <2>1, <2>2, <2>3, <2>4, RemoveKeepsSorted
<1> QED BY <1>2, <1>3

\* The invariant in the words of the property.
LEMMA QueueOrderedFromInv ==
  ASSUME QueueInv, TypeOK PROVE QueueOrdered
<1>1. pending[1] = Sentinel
  BY DEF QueueInv, Sorted, SortedTo
<1>2. \A i, j \in 1..Len(pending) :
         i < j => pending[i] # pending[j] /\ GoesFirst(pending[j], at[pending[i]], prio[pending[i]])
  BY DEF QueueInv, Sorted, SortedTo, Before, GoesFirst
<1>3. ASSUME NEW i \in 2..Len(pending)
      PROVE  ~cancelled[pending[i]] /\ ~consumed[pending[i]] /\ pending[i] \notin pool
  <2>1. i \in 1..Len(pending) /\ 1 \in 1..Len(pending) /\ 1 < i
    BY DEF QueueInv
  <2>2. pending[i] \in Members(pending) \ {Sentinel}
    BY <1>1, <1>2, <2>1 DEF Members
  <2> QED BY <2>2 DEF QueueInv
<1> QED BY <1>1, <1>2, <1>3 DEF QueueOrdered

\* The loop's own state.
LoopInv ==
    /\ now \in Int /\ now <= Duration
    /\ pc \in {"reset", "prepull", "step", "advance", "walk", "visit", "action", "done", "over"}
    /\ cur \in Actions \cup {None} /\ kind \in Kinds
    /\ cursor \in Nat /\ span \in 0..Capacity /\ ent \in Entries \cup {None}
    /\ missed \subseteq Entries /\ ops \in 0..MaxOps /\ iter \in Nat
    /\ arr \in [Kinds -> [1..Capacity -> Entries \cup {None}]] /\ len \in [Kinds -> 0..Capacity]
    /\ dueAt \in [Entries -> Int] /\ minAt \in [Kinds -> Int]
    /\ \A k \in Kinds : minAt[k] <= Never
    /\ pc = "action" => cur \in Actions
    /\ cur # None => pc \in {"advance", "action"}

\* What stands on the lists, and in the part of the array a walk still reads, belongs there.
ListInv ==
    /\ \A k \in Kinds : \A i \in 1..len[k] : arr[k][i] \in EntriesOf(k)
    /\ pc \in {"walk", "visit"} => cursor >= 1 /\ \A i \in 1..span : arr[kind][i] \in EntriesOf(kind)
    /\ pc = "visit" => ent \in EntriesOf(kind)

\* The pool does not share an action with the queue or the one that runs.
PoolInv ==
    /\ pool \cap (Members(pending) \cup {cur}) = {}
    /\ cur \in Pooled => cur \notin Members(pending)

\* The prepull actions not yet queued are not on the queue.
PrepullInv ==
    /\ pc = "reset" => /\ now = 0
                       /\ Members(pending) \subseteq {Sentinel} \cup Owned \cup Pooled
    /\ pc = "prepull" =>
          /\ cursor \in 1..(Len(Prepull) + 1)
          /\ now = IF Prepull = <<>> THEN 0 ELSE Prepull[1].at
          /\ PullAction \notin Members(pending)
          /\ \A i \in cursor..Len(Prepull) : Prepull[i].action \notin Members(pending)

\* While the sentinel is due never, Step never takes it off the queue; what it
\* takes off is due first.
LEMMA TopFacts ==
  ASSUME QueueInv, LoopInv
  PROVE  /\ Len(pending) \in Nat /\ Len(pending) > 0
         /\ Top = pending[Len(pending)] /\ Top \in Members(pending) /\ Top \in QueueItems
         /\ \A x \in Members(pending) : at[Top] <= at[x]
         /\ ~SwingsNext /\ ~TasksNext => Top \in Actions /\ Len(pending) > 1
<1>1. Len(pending) \in Nat /\ Len(pending) > 0 /\ Top = pending[Len(pending)]
  BY DEF QueueInv, Top, Last
<1>2. Top \in Members(pending) /\ Top \in QueueItems
  BY <1>1 DEF Members, QueueInv
<1>3. ASSUME NEW x \in Members(pending) PROVE at[Top] <= at[x]
  <2>1. PICK i \in 1..Len(pending) : x = pending[i]
    BY DEF Members
  <2>2. CASE i = Len(pending)
    <3>1. x = Top
      BY <1>1, <2>1, <2>2
    <3>2. at[Top] \in Int
      BY <1>2 DEF QueueInv
    <3> QED BY <3>1, <3>2
  <2>3. CASE i < Len(pending)
    <3>1. Before(at, prio, pending[Len(pending)], at[pending[i]], prio[pending[i]])
      BY <1>1, <2>1, <2>3 DEF QueueInv, Sorted, SortedTo
    <3>2. at[Top] < at[x] \/ at[Top] = at[x]
      BY <1>1, <2>1, <3>1 DEF Before
    <3>3. at[Top] \in Int /\ x \in QueueItems
      BY <1>2, <2>1 DEF QueueInv
    <3>4. at[x] \in Int
      BY <3>3 DEF QueueInv
    <3> QED BY <3>2, <3>3, <3>4
  <2> QED BY <1>1, <2>2, <2>3
<1>4. ASSUME ~SwingsNext, ~TasksNext PROVE Top \in Actions /\ Len(pending) > 1
  <2>1. Never \in Int
    BY ConstantsAssumption
  <2>2. /\ minAt["swing"] \in Int /\ minAt["swing"] <= Never
        /\ minAt["task"] \in Int /\ minAt["task"] <= Never
    BY DEF LoopInv, Kinds
  <2>3. Top # Sentinel
    BY <1>4, <2>1, <2>2 DEF SwingsNext, TasksNext, QueueInv
  <2>4. Len(pending) # 1
    BY <1>1, <2>3 DEF QueueInv, Sorted, SortedTo
  <2>5. Len(pending) > 1
    BY ONLY <1>1, <2>4
  <2> QED BY <1>2, <2>3, <2>5 DEF QueueItems
<1> QED BY <1>1, <1>2, <1>3, <1>4

\* What the assumption on Prepull says of each of its elements.
LEMMA PrepullFacts ==
  /\ Len(Prepull) \in Nat
  /\ Prepull # <<>> => 1 \in 1..Len(Prepull)
  /\ \A i \in 1..Len(Prepull) : /\ Prepull[i].action \in PrepullActions
                               /\ Prepull[i].at \in Int /\ Prepull[i].at < 0
                               /\ Prepull[1].at <= Prepull[i].at
<1> DEFINE Item == [action : PrepullActions, at : Int]
<1>1. Prepull \in Seq(Item)
  BY ConstantsAssumption
<1> HIDE DEF Item
<1>2. Len(Prepull) \in Nat /\ (Prepull # <<>> => 1 \in 1..Len(Prepull))
  BY <1>1
<1>3. ASSUME NEW i \in 1..Len(Prepull)
      PROVE  Prepull[i].action \in PrepullActions /\ Prepull[i].at \in Int
  <2>1. Prepull[i] \in Item
    BY <1>1
  <2> QED BY <2>1 DEF Item
<1>4. ASSUME NEW i \in 1..Len(Prepull) PROVE Prepull[i].at < 0
  BY ConstantsAssumption
<1>5. ASSUME NEW i \in 1..Len(Prepull) PROVE Prepull[1].at <= Prepull[i].at
  <2>1. \A j, m \in 1..Len(Prepull) : j < m => Prepull[j].at <= Prepull[m].at
    BY ConstantsAssumption
  <2>2. 1 \in 1..Len(Prepull) /\ (i = 1 \/ 1 < i)
    BY ONLY <1>2, i \in 1..Len(Prepull)
  <2> QED BY <1>3, <2>1, <2>2
<1> QED BY <1>2, <1>3, <1>4, <1>5

\* The inductive invariant of the queue and the loop.
LoopIndInv == QueueInv /\ LoopInv /\ ListInv /\ PoolInv /\ PrepullInv

\* A time a callback schedules is a number, not before the clock and before Never.
LEMMA TimesAhead ==
  ASSUME LoopInv, NEW d \in Delays \cup Periods
  PROVE  now + d \in Int /\ now + d < Never /\ now + d >= now
<1>1. Delays \subseteq Nat /\ Periods \subseteq Nat /\ Duration \in Nat /\ Never \in Nat
  BY ConstantsAssumption
<1>2. \A x \in Delays \cup Periods : Duration + x < Never
  BY ConstantsAssumption
<1> QED BY <1>1, <1>2 DEF LoopInv

\* SetRotationTimer and its like: only the armed action comes onto the queue.
LEMMA ArmFacts ==
  ASSUME LoopIndInv, NEW p \in Owned, NEW d \in Delays, NEW pr \in Priorities, Arm(p, now + d, pr)
  PROVE  /\ QueueInv' /\ Members(pending') \subseteq Members(pending) \cup {p}
         /\ at' = [at EXCEPT ![p] = now + d] /\ pool' = pool
<1> DEFINE q == IF consumed[p] THEN pending ELSE WithoutCancelled(p)
<1>1. /\ p \in Actions /\ p # Sentinel /\ p \notin Pooled /\ pr \in Int
      /\ now + d \in Int /\ now + d < Never
  BY TimesAhead, ConstantsAssumption DEF Actions, LoopIndInv
<1>2. /\ q \in Seq(QueueItems) /\ q # <<>> /\ Sorted(q, at, prio)
      /\ Members(q) \subseteq Members(pending) \ {p}
  <2>1. CASE consumed[p]
    BY <1>1, <2>1 DEF LoopIndInv, QueueInv
  <2>2. CASE ~consumed[p]
    BY <1>1, <2>2, WithoutCancelledFacts DEF LoopIndInv
  <2> QED BY <2>1, <2>2
<1>3. AddPendingAction(q, p, now + d, pr) /\ pool' = pool
  BY DEF Arm
<1> HIDE DEF q
<1>4. pool' \subseteq pool \ {p}
  BY <1>1, <1>3 DEF LoopIndInv, QueueInv
<1> QED BY <1>1, <1>2, <1>3, <1>4, AddKeepsQueue DEF LoopIndInv

\* An action that is not on the queue and not in the pool is put on it.
LEMMA AddFacts ==
  ASSUME LoopIndInv, NEW p \in Actions, p \notin Members(pending),
         NEW t \in Int, t < Never, NEW pr \in Int,
         AddPendingAction(pending, p, t, pr), pool' \subseteq pool \ {p}
  PROVE  /\ QueueInv' /\ Members(pending') \subseteq Members(pending) \cup {p}
         /\ at' = [at EXCEPT ![p] = t]
<1>1. /\ pending \in Seq(QueueItems) /\ pending # <<>> /\ Sorted(pending, at, prio)
      /\ Members(pending) \subseteq Members(pending) \ {p}
  BY DEF LoopIndInv, QueueInv
<1> QED BY <1>1, AddKeepsQueue DEF LoopIndInv

\* A pooled action goes onto the queue and out of the pool.
LEMMA ArmPooledFacts ==
  ASSUME LoopIndInv, NEW p \in Pooled, NEW d \in Delays, NEW pr \in Priorities, ArmPooled(p, now + d, pr)
  PROVE  /\ QueueInv' /\ Members(pending') \subseteq Members(pending) \cup {p}
         /\ at' = [at EXCEPT ![p] = now + d] /\ pool' = pool \ {p} /\ p \in pool
<1>1. p \in Actions /\ pr \in Int /\ now + d \in Int /\ now + d < Never
  BY TimesAhead, ConstantsAssumption DEF Actions, LoopIndInv
<1>2. /\ p \notin Members(pending) /\ pool' = pool \ {p} /\ p \in pool
      /\ AddPendingAction(pending, p, now + d, pr)
  BY DEF ArmPooled, PoolInv, LoopIndInv
<1> QED BY <1>1, <1>2, AddFacts

\* Cancel only takes actions off the queue.
LEMMA WithdrawFacts ==
  ASSUME LoopIndInv, NEW p \in Owned, Withdraw(p)
  PROVE  QueueInv' /\ Members(pending') \subseteq Members(pending) /\ UNCHANGED <<at, pool>>
<1>1. p \in Actions /\ p \in QueueItems
  BY DEF Actions, QueueItems
<1>2. /\ pending' = WithoutCancelled(p) /\ cancelled' = [cancelled EXCEPT ![p] = TRUE]
      /\ UNCHANGED <<at, prio, consumed, pool>>
  BY DEF Withdraw
<1>3. /\ pending' \in Seq(QueueItems) /\ pending' # <<>> /\ Sorted(pending', at', prio')
      /\ Members(pending') \subseteq Members(pending) \ {p}
  BY <1>1, <1>2, WithoutCancelledFacts DEF LoopIndInv
<1>4. \A x \in Members(pending') \ {Sentinel} : ~cancelled'[x] /\ ~consumed'[x] /\ x \notin pool'
  BY <1>2, <1>3 DEF LoopIndInv, QueueInv
<1> QED BY <1>1, <1>2, <1>3, <1>4 DEF LoopIndInv, QueueInv

\* PrePull queues one prepull action.
LEMMA QueuePrepullFacts ==
  ASSUME LoopIndInv, QueuePrepull
  PROVE  /\ QueueInv' /\ pool' = pool /\ cursor \in 1..Len(Prepull)
         /\ Members(pending') \subseteq Members(pending) \cup {Prepull[cursor].action}
         /\ at' = [at EXCEPT ![Prepull[cursor].action] = Prepull[cursor].at]
         /\ Prepull[cursor].action \in PrepullActions
<1>1. cursor \in 1..Len(Prepull) /\ Len(Prepull) \in Nat
  BY PrepullFacts DEF QueuePrepull, PrepullInv, LoopIndInv
<1> DEFINE p == Prepull[cursor].action
           t == Prepull[cursor].at
           pr == 10 + Len(Prepull) - (cursor - 1)
<1>2. p \in PrepullActions /\ t \in Int /\ t < 0
  BY <1>1, PrepullFacts
<1>3. p \in Actions /\ p \notin Pooled /\ 0 < Never /\ Never \in Int
  BY <1>2, ConstantsAssumption DEF Actions
<1>4. p \notin Members(pending)
  BY <1>1 DEF QueuePrepull, PrepullInv, LoopIndInv
<1>5. AddPendingAction(pending, p, t, pr) /\ pool' = pool /\ pool' \subseteq pool \ {p}
  BY <1>3 DEF QueuePrepull, QueueInv, LoopIndInv
<1>6. t < Never /\ pr \in Int
  BY <1>1, <1>2, <1>3
<1> HIDE DEF p, t, pr
<1>7. /\ QueueInv' /\ Members(pending') \subseteq Members(pending) \cup {p}
      /\ at' = [at EXCEPT ![p] = t]
  BY <1>2, <1>3, <1>4, <1>5, <1>6, AddFacts
<1> QED BY <1>1, <1>2, <1>5, <1>7 DEF p, t

\* PrePull queues the pull.
LEMMA QueuePullFacts ==
  ASSUME LoopIndInv, QueuePull
  PROVE  /\ QueueInv' /\ pool' = pool /\ Members(pending') \subseteq Members(pending) \cup {PullAction}
         /\ at' = [at EXCEPT ![PullAction] = 0] /\ PullAction \notin Pooled
<1>1. PullAction \in Actions /\ PullAction \notin Pooled /\ 0 < Never /\ 10 + Len(Prepull) + 1 \in Int
  BY ConstantsAssumption, PrepullFacts DEF Actions
<1>2. PullAction \notin Members(pending)
  BY DEF QueuePull, PrepullInv, LoopIndInv
<1>3. /\ AddPendingAction(pending, PullAction, 0, 10 + Len(Prepull) + 1) /\ pool' = pool
      /\ pool' \subseteq pool \ {PullAction}
  BY <1>1 DEF QueuePull, QueueInv, LoopIndInv
<1> QED BY <1>1, <1>2, <1>3, AddFacts

\* Step takes the last action off the queue.
LEMMA StepPendingFacts ==
  ASSUME LoopIndInv, StepPending
  PROVE  /\ QueueInv' /\ Members(pending') \subseteq Members(pending) \ {Top}
         /\ Top \in Members(pending) /\ Top \in Actions /\ at' = at
<1>1. /\ Top \in Actions /\ Len(pending) > 1 /\ Top = pending[Len(pending)] /\ Top \in QueueItems
      /\ Top \in Members(pending)
  BY TopFacts DEF StepPending, LoopIndInv
<1>2. /\ pending' = SubSeq(pending, 1, Len(pending) - 1)
      /\ consumed' = [consumed EXCEPT ![Top] = TRUE]
      /\ UNCHANGED <<at, prio, cancelled>>
      /\ pool' \subseteq pool \cup ({Top} \cap Pooled)
  BY DEF StepPending, Dispose
<1>3. /\ pending' \in Seq(QueueItems) /\ pending' # <<>> /\ Sorted(pending', at', prio')
      /\ Members(pending') \subseteq Members(pending) \ {Top}
  BY <1>1, <1>2, PopKeepsSorted DEF QueueInv, LoopIndInv
<1>4. \A x \in Members(pending') \ {Sentinel} : ~cancelled'[x] /\ ~consumed'[x] /\ x \notin pool'
  BY <1>2, <1>3 DEF LoopIndInv, QueueInv
<1> QED BY <1>1, <1>2, <1>3, <1>4 DEF LoopIndInv, QueueInv

\* When an action or an advance returns only the pool can change.
LEMMA ReturnFacts ==
  ASSUME LoopIndInv, AdvanceReturns \/ ActionReturns
  PROVE  QueueInv' /\ PoolInv' /\ UNCHANGED <<pending, at>>
<1>1. UNCHANGED <<pending, at, prio, cancelled, consumed>>
  BY DEF AdvanceReturns, ActionReturns
<1>2. \/ pool' = pool /\ cur' = cur
      \/ pool' \subseteq pool \cup ({cur} \cap Pooled) /\ cur' = None
  BY DEF AdvanceReturns, ActionReturns, Dispose
<1>3. pool \subseteq Pooled /\ pool' \subseteq Pooled /\ None \notin Pooled
  BY <1>2, ConstantsAssumption DEF LoopIndInv, QueueInv, Actions
<1>4. \A x \in Members(pending) : x \in pool' => x \in pool
  BY <1>2 DEF PoolInv, LoopIndInv
<1>5. Members(pending') = Members(pending) /\ Sorted(pending', at', prio')
  BY <1>1 DEF QueueInv, LoopIndInv
<1>6. QueueInv'
  BY <1>1, <1>3, <1>4, <1>5 DEF QueueInv, LoopIndInv
<1>7. PoolInv'
  <2>1. CASE pool' = pool /\ cur' = cur
    BY <1>5, <2>1 DEF PoolInv, LoopIndInv
  <2>2. CASE pool' \subseteq pool \cup ({cur} \cap Pooled) /\ cur' = None
    BY <1>3, <1>4, <1>5, <2>2 DEF PoolInv, LoopIndInv
  <2> QED BY <1>2, <2>1, <2>2
<1> QED BY <1>1, <1>6, <1>7

\* The reset leaves the sentinel alone on the queue.
LEMMA NextIterationFacts ==
  ASSUME LoopIndInv, NextIteration
  PROVE  QueueInv' /\ Members(pending') = {Sentinel} /\ UNCHANGED <<at, pool>>
<1>1. pending' = <<Sentinel>> /\ UNCHANGED <<at, prio, cancelled, consumed, pool>>
  BY DEF NextIteration
<1>2. pending' \in Seq(QueueItems) /\ Len(pending') = 1 /\ pending'[1] = Sentinel
  BY <1>1 DEF QueueItems
<1>3. Members(pending') = {Sentinel} /\ Sorted(pending', at', prio')
  BY <1>2 DEF Members, Sorted, SortedTo
<1> QED BY <1>1, <1>2, <1>3 DEF LoopIndInv, QueueInv

\* The actions of the model that do not touch the queue.
QuietStep ==
    \/ \E k \in Kinds, e \in Entries, d \in Delays : Enlist(k, e, now + d)
    \/ \E k \in Kinds, e \in Entries : Delist(k, e)
    \/ \E k \in Kinds, e \in Entries, d \in Delays : MoveDue(k, e, now + d)
    \/ BeginPrePull \/ StepSwings \/ StepTasks
    \/ WalkPasses \/ WalkFires \/ VisitReturns \/ WalkEnds \/ LastCleanup
    \/ UNCHANGED vars

\* The other steps leave the queue and the running action alone.
LEMMA QuietFacts ==
  ASSUME QuietStep PROVE UNCHANGED <<queueVars, cur>>
<1>1. ASSUME NEW k, NEW e, NEW t, Enlist(k, e, t) \/ Delist(k, e) \/ MoveDue(k, e, t)
      PROVE  UNCHANGED <<queueVars, cur>>
  BY <1>1 DEF Enlist, Delist, MoveDue, Call
<1>2. ASSUME BeginPrePull \/ StepSwings \/ StepTasks \/ WalkPasses \/ WalkFires
             \/ VisitReturns \/ WalkEnds \/ LastCleanup
      PROVE  UNCHANGED <<queueVars, cur>>
  BY <1>2 DEF BeginPrePull, StepSwings, StepTasks, StepEnds, StepAdvances, WalkPasses,
              WalkFires, VisitReturns, WalkEnds, LastCleanup
<1>3. ASSUME UNCHANGED vars PROVE UNCHANGED <<queueVars, cur>>
  BY <1>3 DEF vars
<1> QED BY <1>1, <1>2, <1>3 DEF QuietStep

\* Next, by what it does to the queue.
LEMMA StepKinds ==
  ASSUME [Next]_vars
  PROVE  \/ \E p \in Owned, d \in Delays, pr \in Priorities : Arm(p, now + d, pr)
         \/ \E p \in Pooled, d \in Delays, pr \in Priorities : ArmPooled(p, now + d, pr)
         \/ \E p \in Owned : Withdraw(p)
         \/ QueuePrepull \/ QueuePull \/ StepPending
         \/ AdvanceReturns \/ ActionReturns \/ NextIteration \/ QuietStep
BY Zenon DEF Next, CallbackCall, LoopStep, QuietStep

\* Every engine call and every step of the loop keeps the queue and the pool apart
\* and in order.
LEMMA QueueInvStep ==
  ASSUME LoopIndInv, [Next]_vars
  PROVE  QueueInv' /\ PoolInv'
<1>1. /\ None \notin Actions /\ Owned \cap Pooled = {} /\ Owned \subseteq Actions /\ Pooled \subseteq Actions
      /\ pool \subseteq Pooled /\ None \notin Pooled /\ Sentinel \notin Pooled
      /\ PrepullActions \cap Pooled = {}
  BY ConstantsAssumption DEF LoopIndInv, QueueInv, Actions
<1>2. ASSUME QueueInv', NEW p, p \notin Pooled, cur' = cur, pool' = pool,
             Members(pending') \subseteq Members(pending) \cup {p}
      PROVE  PoolInv'
  BY <1>1, <1>2 DEF PoolInv, LoopIndInv
<1>3. ASSUME NEW p \in Owned, NEW d \in Delays, NEW pr \in Priorities, Arm(p, now + d, pr)
      PROVE  QueueInv' /\ PoolInv'
  <2>1. cur' = cur
    BY <1>3 DEF Arm, Call
  <2> QED BY <1>1, <1>2, <1>3, <2>1, ArmFacts
<1>4. ASSUME NEW p \in Pooled, NEW d \in Delays, NEW pr \in Priorities, ArmPooled(p, now + d, pr)
      PROVE  QueueInv' /\ PoolInv'
  <2>1. /\ QueueInv' /\ Members(pending') \subseteq Members(pending) \cup {p}
        /\ pool' = pool \ {p} /\ p \in pool
    BY <1>4, ArmPooledFacts
  <2>2. cur' = cur
    BY <1>4 DEF ArmPooled, Call
  <2> QED BY <2>1, <2>2 DEF PoolInv, LoopIndInv
<1>5. ASSUME NEW p \in Owned, Withdraw(p) PROVE QueueInv' /\ PoolInv'
  <2>1. cur' = cur
    BY <1>5 DEF Withdraw, Call
  <2> QED BY <1>1, <1>2, <1>5, <2>1, WithdrawFacts
<1>6. ASSUME QueuePrepull PROVE QueueInv' /\ PoolInv'
  <2>1. cur' = cur
    BY <1>6 DEF QueuePrepull
  <2> QED BY <1>1, <1>2, <1>6, <2>1, QueuePrepullFacts
<1>7. ASSUME QueuePull PROVE QueueInv' /\ PoolInv'
  <2>1. cur' = cur
    BY <1>7 DEF QueuePull
  <2> QED BY <1>1, <1>2, <1>7, <2>1, QueuePullFacts
<1>8. ASSUME StepPending PROVE QueueInv' /\ PoolInv'
  <2>1. /\ QueueInv' /\ Members(pending') \subseteq Members(pending) \ {Top}
        /\ Top \in Members(pending) /\ Top \in Actions /\ Top \notin pool /\ cur = None
    BY <1>8, StepPendingFacts DEF StepPending, PoolInv, LoopIndInv, LoopInv
  <2>2. \/ pool' \subseteq pool \cup {Top} /\ cur' = None
        \/ pool' = pool /\ cur' = Top
    BY <1>8, <2>1 DEF StepPending, Dispose
  <2>3. CASE pool' \subseteq pool \cup {Top} /\ cur' = None
    BY <1>1, <2>1, <2>3 DEF PoolInv, LoopIndInv
  <2>4. CASE pool' = pool /\ cur' = Top
    BY <2>1, <2>4 DEF PoolInv, LoopIndInv
  <2> QED BY <2>1, <2>2, <2>3, <2>4
<1>9. ASSUME AdvanceReturns \/ ActionReturns PROVE QueueInv' /\ PoolInv'
  BY <1>9, ReturnFacts
<1>10. ASSUME NextIteration PROVE QueueInv' /\ PoolInv'
  <2>1. cur' = cur /\ cur = None
    BY <1>10 DEF NextIteration, LoopIndInv, LoopInv
  <2> QED BY <1>1, <1>10, <2>1, NextIterationFacts DEF PoolInv
<1>11. ASSUME QuietStep PROVE QueueInv' /\ PoolInv'
  <2>1. UNCHANGED <<queueVars, cur>>
    BY <1>11, QuietFacts
  <2> QED BY <2>1 DEF queueVars, LoopIndInv, QueueInv, PoolInv, Members, Sorted, SortedTo, Before
<1> QED BY <1>3, <1>4, <1>5, <1>6, <1>7, <1>8, <1>9, <1>10, <1>11, StepKinds

\* Every step keeps the facts about the clock, the caches and where the loop stands.
LEMMA LoopInvStep ==
  ASSUME QueueInv, LoopInv, ListInv, PrepullInv, [Next]_vars
  PROVE  LoopInv'
<1>1. Never \in Int /\ Duration < Never /\ 0 < Never /\ Duration \in Int /\ 0 <= Duration
  BY ConstantsAssumption
<1>2. "swing" \in Kinds /\ "task" \in Kinds /\ None \notin Actions
  BY ConstantsAssumption DEF Kinds
<1>3. ASSUME NEW d \in Delays \cup Periods PROVE now + d \in Int /\ now + d < Never
  <2>1. d \in Int /\ Duration + d < Never
    BY <1>3, ConstantsAssumption
  <2> QED BY <1>1, <2>1 DEF LoopInv
<1>4. ASSUME CallbackCall PROVE LoopInv'
  <2>1. Call
    BY <1>4 DEF CallbackCall, Arm, ArmPooled, Withdraw, Enlist, Delist, MoveDue
  <2>2. UNCHANGED <<now, pc, cur, kind, cursor, span, ent, iter>> /\ ops' \in 0..MaxOps
    <3>1. MaxOps \in Nat
      BY ConstantsAssumption
    <3> QED BY <2>1, <3>1 DEF Call, LoopInv
  <2>3. /\ missed' \subseteq Entries
        /\ arr' \in [Kinds -> [1..Capacity -> Entries \cup {None}]] /\ len' \in [Kinds -> 0..Capacity]
        /\ dueAt' \in [Entries -> Int] /\ minAt' \in [Kinds -> Int]
        /\ \A k \in Kinds : minAt'[k] <= Never
    <3>1. ASSUME UNCHANGED <<missed, listVars>> PROVE <2>3!:
      BY <3>1 DEF listVars, LoopInv
    <3>2. ASSUME NEW k \in Kinds, NEW e \in Entries, NEW d \in Delays, Enlist(k, e, now + d)
          PROVE  <2>3!:
      <4>1. now + d \in Int /\ now + d < Never
        BY <1>3
      <4>2. Capacity \in Nat /\ len[k] \in 0..Capacity /\ len[k] < Capacity
        BY <3>2, ConstantsAssumption DEF Enlist, LoopInv
      <4>3. Earlier(minAt[k], now + d) \in Int /\ Earlier(minAt[k], now + d) <= Never
        BY <1>1, <4>1 DEF Earlier, LoopInv
      <4>4. Forgotten(k) \subseteq Entries
        <5>1. CASE pc = "visit" /\ kind = k
          <6>1. \A i \in (cursor + 1)..span : i \in 1..span
            BY DEF LoopInv
          <6>2. \A i \in 1..span : arr[k][i] \in Entries
            BY <5>1 DEF ListInv, EntriesOf, Entries
          <6>3. ToCome(arr[k]) \subseteq Entries
            BY <6>1, <6>2 DEF ToCome
          <6> QED BY <5>1, <6>3 DEF Forgotten
        <5>2. CASE ~(pc = "visit" /\ kind = k)
          BY <5>2 DEF Forgotten
        <5> QED BY <5>1, <5>2
      <4>5. missed' \subseteq Entries
        BY <3>2, <4>4 DEF Enlist, LoopInv
      <4> QED BY <3>2, <4>1, <4>2, <4>3, <4>5 DEF Enlist, LoopInv
    <3>3. ASSUME NEW k \in Kinds, NEW e \in Entries, Delist(k, e)
          PROVE  <2>3!:
      <4>1. Capacity \in Nat
        BY ConstantsAssumption
      <4>2. PICK i \in 1..len[k] : arr' = [arr EXCEPT ![k][i] = arr[k][len[k]]]
        BY <3>3 DEF Delist
      <4>3. len[k] \in 1..Capacity /\ arr[k][len[k]] \in Entries \cup {None} /\ i \in 1..Capacity
        BY <4>1, <4>2 DEF LoopInv
      <4>4. arr' \in [Kinds -> [1..Capacity -> Entries \cup {None}]]
        BY <4>2, <4>3 DEF LoopInv
      <4>5. len' \in [Kinds -> 0..Capacity]
        BY <3>3, <4>1, <4>3 DEF Delist, LoopInv
      <4>6. dueAt' \in [Entries -> Int] /\ UNCHANGED minAt /\ missed' \subseteq Entries
        BY <3>3, <1>1 DEF Delist, LoopInv
      <4> QED BY <4>4, <4>5, <4>6 DEF LoopInv
    <3>4. ASSUME NEW k \in Kinds, NEW e \in Entries, NEW d \in Delays, MoveDue(k, e, now + d)
          PROVE  <2>3!:
      <4>1. now + d \in Int /\ now + d < Never
        BY <1>3
      <4>2. Earlier(minAt[k], now + d) \in Int /\ Earlier(minAt[k], now + d) <= Never
        BY <1>1, <4>1 DEF Earlier, LoopInv
      <4> QED BY <3>4, <4>1, <4>2 DEF MoveDue, LoopInv
    <3>5. ASSUME NEW p, NEW t, NEW pr, Arm(p, t, pr) \/ ArmPooled(p, t, pr) \/ Withdraw(p)
          PROVE  UNCHANGED <<missed, listVars>>
      BY <3>5 DEF Arm, ArmPooled, Withdraw
    <3> QED BY <1>4, <3>1, <3>2, <3>3, <3>4, <3>5 DEF CallbackCall
  <2> QED BY <2>2, <2>3 DEF LoopInv
<1>5. ASSUME BeginPrePull PROVE LoopInv'
  <2>1. Prepull # <<>> => Prepull[1].at \in Int /\ Prepull[1].at <= Duration
    BY <1>1, PrepullFacts
  <2>2. now' \in Int /\ now' <= Duration /\ pc' = "prepull" /\ cursor' = 1
    BY <1>5, <2>1 DEF BeginPrePull, LoopInv
  <2>3. UNCHANGED <<listVars, cur, kind, span, ent, missed, ops, iter>> /\ cur = None
    BY <1>5, <1>2 DEF BeginPrePull, LoopInv
  <2> QED BY <2>2, <2>3 DEF LoopInv, listVars
<1>6. ASSUME QueuePrepull \/ QueuePull PROVE LoopInv'
  <2>1. cur = None /\ UNCHANGED <<now, listVars, cur, kind, span, ent, missed, ops, iter>>
    BY <1>6 DEF QueuePrepull, QueuePull, LoopInv, walkVars
  <2>2. pc' \in {"prepull", "step"} /\ cursor' \in Nat
    BY <1>6 DEF QueuePrepull, QueuePull, LoopInv, walkVars
  <2> QED BY <2>1, <2>2 DEF LoopInv, listVars
<1>7. ASSUME NEW k \in Kinds, StartWalk(k), now' \in Int, now' <= Duration, cur = None,
             UNCHANGED <<arr, len, dueAt, cur, ops, iter>>
      PROVE  LoopInv'
  <2>1. /\ minAt' = [minAt EXCEPT ![k] = Never]
        /\ kind' = k /\ cursor' = 1 /\ span' = len[k] /\ ent' = None /\ pc' = "walk"
        /\ missed' = missed \ EntriesOf(k)
    BY <1>7 DEF StartWalk
  <2>2. minAt' \in [Kinds -> Int] /\ \A x \in Kinds : minAt'[x] <= Never
    BY <1>1, <2>1 DEF LoopInv
  <2> QED BY <1>7, <2>1, <2>2 DEF LoopInv
<1>8. ASSUME NEW k \in Kinds, pc = "step", StepEnds(k) \/ StepAdvances(k) PROVE LoopInv'
  <2>1. cur = None /\ cur' = cur
    BY <1>8 DEF LoopInv, StepEnds, StepAdvances
  <2>2. CASE StepEnds(k)
    BY <2>1, <2>2 DEF StepEnds, LoopInv, listVars, walkVars
  <2>3. CASE StepAdvances(k)
    <3>1. /\ minAt[k] <= Duration /\ UNCHANGED <<arr, len, dueAt, cur, ops, iter>>
          /\ now' = ClockAt(minAt[k])
      BY <2>3 DEF StepAdvances
    <3>2. now' \in Int /\ now' <= Duration
      BY <1>1, <3>1 DEF ClockAt, LoopInv
    <3>3. CASE minAt[k] > now
      BY <2>1, <2>3, <3>1, <3>2, <3>3 DEF StepAdvances, LoopInv
    <3>4. CASE ~(minAt[k] > now)
      <4>1. StartWalk(k)
        BY <2>3, <3>4 DEF StepAdvances
      <4> QED BY <1>7, <2>1, <3>1, <3>2, <4>1
    <3> QED BY <3>3, <3>4
  <2> QED BY <1>8, <2>2, <2>3
<1>9. ASSUME StepPending PROVE LoopInv'
  <2>1. Top \in Actions /\ at[Top] \in Int
    BY <1>9, TopFacts DEF StepPending, QueueInv
  <2>2. UNCHANGED <<listVars, walkVars, ops, iter>> /\ pc = "step" /\ cur = None
    BY <1>9 DEF StepPending, LoopInv
  <2>3. CASE cancelled[Top] \/ at[Top] > Duration
    <3>1. UNCHANGED <<now, cur>> /\ pc' \in {"step", "done"}
      BY <1>9, <2>3 DEF StepPending
    <3> QED BY <2>2, <3>1 DEF LoopInv, listVars, walkVars
  <2>4. CASE ~(cancelled[Top] \/ at[Top] > Duration)
    <3>1. cur' = Top /\ now' = ClockAt(at[Top]) /\ pc' \in {"advance", "action"}
      BY <1>9, <2>4 DEF StepPending
    <3>2. now' \in Int /\ now' <= Duration
      BY <1>1, <2>1, <2>4, <3>1 DEF ClockAt, LoopInv
    <3> QED BY <2>1, <2>2, <3>1, <3>2 DEF LoopInv, listVars, walkVars
  <2> QED BY <2>3, <2>4
<1>10. ASSUME AdvanceReturns PROVE LoopInv'
  <2>1. UNCHANGED <<now, arr, len, dueAt, ops, iter>> /\ pc = "advance"
    BY <1>10 DEF AdvanceReturns
  <2>2. CASE cur = None
    <3>1. StartWalk(kind) /\ cur' = None /\ kind \in Kinds
      BY <1>10, <2>2 DEF AdvanceReturns, LoopInv
    <3>2. now' \in Int /\ now' <= Duration
      BY <2>1 DEF LoopInv
    <3> QED BY <1>7, <2>1, <2>2, <3>1, <3>2
  <2>3. CASE cur # None
    <3>1. /\ UNCHANGED <<minAt, walkVars>>
          /\ (pc' = "step" /\ cur' = None) \/ (pc' = "action" /\ cur' = cur)
      BY <1>10, <2>3 DEF AdvanceReturns
    <3> QED BY <2>1, <2>3, <3>1 DEF LoopInv, walkVars
  <2> QED BY <2>2, <2>3
<1>11. ASSUME ActionReturns PROVE LoopInv'
  BY <1>11 DEF ActionReturns, LoopInv, listVars, walkVars
<1>12. ASSUME WalkPasses \/ WalkFires PROVE
          /\ cursor \in 1..span /\ arr[kind][cursor] \in Entries /\ pc = "walk" /\ cur = None
          /\ arr[kind][cursor] \in EntriesOf(kind)
  <2>1. pc = "walk" /\ cursor <= span
    BY <1>12 DEF WalkPasses, WalkFires
  <2>2. cursor \in 1..span
    BY <2>1 DEF LoopInv, ListInv
  <2> QED BY <2>1, <2>2 DEF LoopInv, ListInv, EntriesOf, Entries
<1>13. ASSUME WalkPasses PROVE LoopInv'
  <2>1. Earlier(minAt[kind], dueAt[arr[kind][cursor]]) \in Int
        /\ Earlier(minAt[kind], dueAt[arr[kind][cursor]]) <= Never
    BY <1>1, <1>12, <1>13 DEF Earlier, LoopInv
  <2>2. minAt' = [minAt EXCEPT ![kind] = Earlier(@, dueAt[arr[kind][cursor]])] /\ cursor' = cursor + 1
        /\ UNCHANGED <<now, arr, len, dueAt, pc, cur, kind, span, ent, missed, ops, iter>>
    BY <1>13 DEF WalkPasses
  <2> QED BY <2>1, <2>2 DEF LoopInv
<1>14. ASSUME WalkFires PROVE LoopInv'
  <2>1. dueAt' \in [Entries -> Int]
    <3>1. ASSUME NEW t \in {now + d : d \in Periods} \cup {Never} PROVE t \in Int
      BY <1>1, <1>3
    <3> QED BY <1>12, <1>14, <3>1 DEF WalkFires, LoopInv
  <2>2. ent' \in Entries /\ pc' = "visit"
        /\ UNCHANGED <<now, arr, len, minAt, cur, kind, cursor, span, missed, ops, iter>>
    BY <1>12, <1>14 DEF WalkFires
  <2> QED BY <1>12, <1>14, <2>1, <2>2 DEF LoopInv
<1>15. ASSUME VisitReturns PROVE LoopInv'
  <2>1. ent \in Entries /\ pc = "visit" /\ cur = None
    BY <1>15 DEF VisitReturns, ListInv, LoopInv, EntriesOf, Entries
  <2>2. dueAt' \in [Entries -> Int]
    <3>1. ASSUME NEW d \in Periods PROVE now + d \in Int
      BY <1>3
    <3> QED BY <1>15, <2>1, <3>1 DEF VisitReturns, LoopInv
  <2>3. Earlier(minAt[kind], dueAt'[ent]) \in Int /\ Earlier(minAt[kind], dueAt'[ent]) <= Never
    BY <1>1, <2>1, <2>2 DEF Earlier, LoopInv
  <2>4. minAt' = [minAt EXCEPT ![kind] = Earlier(@, dueAt'[ent])] /\ cursor' = cursor + 1
        /\ pc' = "walk" /\ ent' = None /\ UNCHANGED <<now, arr, len, cur, kind, span, missed, ops, iter>>
    BY <1>15 DEF VisitReturns
  <2> QED BY <2>1, <2>2, <2>3, <2>4 DEF LoopInv
<1>16. ASSUME WalkEnds PROVE LoopInv'
  BY <1>16 DEF WalkEnds, LoopInv, listVars, walkVars
<1>17. ASSUME NextIteration PROVE LoopInv'
  <2>1. Capacity \in Nat /\ pc = "done" /\ cur = None
    BY <1>17, ConstantsAssumption DEF NextIteration, LoopInv
  <2>2. /\ iter' \in Nat /\ pc' = "reset" /\ now' = 0 /\ UNCHANGED <<arr, cur, walkVars, ops>>
        /\ len' = [k \in Kinds |-> 0] /\ dueAt' = [e \in Entries |-> Never]
        /\ minAt' = [k \in Kinds |-> Never]
    BY <1>17 DEF NextIteration, LoopInv
  <2> QED BY <1>1, <2>1, <2>2 DEF LoopInv, walkVars
<1>18. ASSUME LastCleanup PROVE LoopInv'
  BY <1>18, <1>1 DEF LastCleanup, LoopInv, listVars, walkVars
<1>19. CASE UNCHANGED vars
  BY <1>19 DEF vars, listVars, walkVars, LoopInv
<1>20. CASE LoopStep
  <2>1. ASSUME StepSwings \/ StepTasks PROVE LoopInv'
    BY <1>2, <1>8, <2>1 DEF StepSwings, StepTasks
  <2> QED BY <1>5, <1>6, <1>9, <1>10, <1>11, <1>13, <1>14, <1>15, <1>16, <1>17, <1>18, <1>20, <2>1
          DEF LoopStep
<1> QED BY <1>4, <1>19, <1>20 DEF Next

\* Every step keeps what PrePull has still to queue off the queue, and the pull too.
LEMMA PrepullInvStep ==
  ASSUME LoopIndInv, [Next]_vars
  PROVE  PrepullInv'
<1>1. /\ PullAction \notin Owned \cup Pooled \cup PrepullActions /\ PullAction # Sentinel
      /\ PrepullActions \cap (Owned \cup Pooled) = {} /\ Sentinel \notin PrepullActions
  BY ConstantsAssumption DEF Actions
<1>2. ASSUME NEW p \in Owned \cup Pooled, UNCHANGED <<now, pc, cursor>>,
             Members(pending') \subseteq Members(pending) \cup {p}
      PROVE  PrepullInv'
  <2>1. pc = "reset" => now' = 0 /\ Members(pending') \subseteq {Sentinel} \cup Owned \cup Pooled
    BY <1>2 DEF LoopIndInv, PrepullInv
  <2>2. pc = "prepull" => PullAction \notin Members(pending')
    BY <1>1, <1>2 DEF LoopIndInv, PrepullInv
  <2>3. pc = "prepull" => \A i \in cursor..Len(Prepull) : Prepull[i].action \notin Members(pending')
    <3> SUFFICES ASSUME pc = "prepull", NEW i \in cursor..Len(Prepull)
                 PROVE  Prepull[i].action \notin Members(pending')
      OBVIOUS
    <3>1. Prepull[i].action \notin Members(pending) /\ cursor \in 1..(Len(Prepull) + 1)
      BY DEF LoopIndInv, PrepullInv
    <3>2. i \in 1..Len(Prepull)
      BY <3>1, PrepullFacts
    <3>3. Prepull[i].action # p
      BY <1>1, <3>2, PrepullFacts
    <3> QED BY <1>2, <3>1, <3>3
  <2> QED BY <1>2, <2>1, <2>2, <2>3 DEF LoopIndInv, PrepullInv
<1>3. ASSUME NEW p \in Owned, NEW d \in Delays, NEW pr \in Priorities, Arm(p, now + d, pr)
      PROVE  PrepullInv'
  <2>1. UNCHANGED <<now, pc, cursor>>
    BY <1>3 DEF Arm, Call
  <2> QED BY <1>2, <1>3, <2>1, ArmFacts
<1>4. ASSUME NEW p \in Pooled, NEW d \in Delays, NEW pr \in Priorities, ArmPooled(p, now + d, pr)
      PROVE  PrepullInv'
  <2>1. UNCHANGED <<now, pc, cursor>>
    BY <1>4 DEF ArmPooled, Call
  <2> QED BY <1>2, <1>4, <2>1, ArmPooledFacts
<1>5. ASSUME NEW p \in Owned, Withdraw(p) PROVE PrepullInv'
  <2>1. UNCHANGED <<now, pc, cursor>>
    BY <1>5 DEF Withdraw, Call
  <2> QED BY <1>2, <1>5, <2>1, WithdrawFacts
<1>6. ASSUME QueuePrepull PROVE PrepullInv'
  <2>1. /\ pc' = "prepull" /\ pc = "prepull" /\ now' = now /\ cursor' = cursor + 1
        /\ cursor \in 1..Len(Prepull) /\ Len(Prepull) \in Nat
        /\ Members(pending') \subseteq Members(pending) \cup {Prepull[cursor].action}
        /\ Prepull[cursor].action \in PrepullActions
    BY <1>6, QueuePrepullFacts, PrepullFacts DEF QueuePrepull
  <2>2. ASSUME NEW i \in (cursor + 1)..Len(Prepull)
        PROVE  Prepull[i].action \notin Members(pending')
    <3>1. i \in 1..Len(Prepull) /\ i # cursor /\ i \in cursor..Len(Prepull)
      BY <2>1
    <3>2. Prepull[i].action # Prepull[cursor].action
      <4>1. \A x, y \in 1..Len(Prepull) : x # y => Prepull[x].action # Prepull[y].action
        BY ConstantsAssumption
      <4> QED BY <2>1, <3>1, <4>1
    <3>3. Prepull[i].action \notin Members(pending)
      BY <2>1, <3>1 DEF LoopIndInv, PrepullInv
    <3> QED BY <2>1, <3>2, <3>3
  <2>3. cursor' \in 1..(Len(Prepull) + 1)
    BY <2>1
  <2>4. PullAction \notin Members(pending')
    BY <1>1, <2>1 DEF LoopIndInv, PrepullInv
  <2>5. now = IF Prepull = <<>> THEN 0 ELSE Prepull[1].at
    BY <2>1 DEF LoopIndInv, PrepullInv
  <2> QED BY <2>1, <2>2, <2>3, <2>4, <2>5 DEF PrepullInv
<1>7. ASSUME BeginPrePull PROVE PrepullInv'
  <2>1. /\ pc' = "prepull" /\ pc = "reset" /\ cursor' = 1 /\ pending' = pending
        /\ now' = (IF Prepull = <<>> THEN now ELSE Prepull[1].at)
    BY <1>7 DEF BeginPrePull, queueVars
  <2>2. now = 0 /\ Members(pending) \subseteq {Sentinel} \cup Owned \cup Pooled
    BY <2>1 DEF LoopIndInv, PrepullInv
  <2>3. \A i \in 1..Len(Prepull) : Prepull[i].action \notin Members(pending)
    BY <1>1, <2>2, PrepullFacts
  <2>4. PullAction \notin Members(pending)
    BY <1>1, <2>2
  <2>5. 1 \in 1..(Len(Prepull) + 1)
    BY PrepullFacts
  <2>6. Members(pending') = Members(pending)
    BY <2>1
  <2> QED BY <2>1, <2>2, <2>3, <2>4, <2>5, <2>6 DEF PrepullInv
<1>8. ASSUME NextIteration PROVE PrepullInv'
  <2>1. pc' = "reset" /\ now' = 0
    BY <1>8 DEF NextIteration
  <2> QED BY <1>8, <2>1, NextIterationFacts DEF PrepullInv
<1>9. ASSUME pc' \notin {"reset", "prepull"} PROVE PrepullInv'
  BY <1>9 DEF PrepullInv
<1>10. ASSUME QueuePull \/ StepPending \/ AdvanceReturns \/ ActionReturns PROVE pc' \notin {"reset", "prepull"}
  BY <1>10 DEF QueuePull, StepPending, AdvanceReturns, ActionReturns, StartWalk
<1>11. ASSUME QuietStep PROVE PrepullInv'
  <2>1. CASE BeginPrePull
    BY <1>7, <2>1
  <2>2. ASSUME NEW k \in Kinds, NEW e \in Entries, NEW t, Enlist(k, e, t) \/ Delist(k, e) \/ MoveDue(k, e, t)
        PROVE  UNCHANGED <<now, pc, cursor>>
    BY <2>2 DEF Enlist, Delist, MoveDue, Call
  <2>3. CASE StepSwings \/ StepTasks \/ WalkPasses \/ WalkFires \/ VisitReturns \/ WalkEnds \/ LastCleanup
    <3>1. pc' \notin {"reset", "prepull"}
      BY <2>3 DEF StepSwings, StepTasks, StepEnds, StepAdvances, StartWalk, WalkPasses, WalkFires,
                  VisitReturns, WalkEnds, LastCleanup
    <3> QED BY <1>9, <3>1
  <2>4. ASSUME UNCHANGED <<now, pc, cursor>> PROVE PrepullInv'
    <3>1. pending' = pending
      BY <1>11, QuietFacts DEF queueVars
    <3> QED BY <2>4, <3>1 DEF LoopIndInv, PrepullInv, Members
  <2>5. UNCHANGED vars => UNCHANGED <<now, pc, cursor>>
    BY DEF vars, walkVars
  <2> QED BY <1>11, <2>1, <2>2, <2>3, <2>4, <2>5 DEF QuietStep
<1> QED BY <1>3, <1>4, <1>5, <1>6, <1>8, <1>9, <1>10, <1>11, StepKinds

\* Nothing but entries of a list ever stands where a walk of it can look.
LEMMA ListInvStep ==
  ASSUME LoopIndInv, [Next]_vars
  PROVE  ListInv'
<1>1. /\ \A k \in Kinds : len[k] \in 0..Capacity /\ EntriesOf(k) \subseteq Entries
      /\ Capacity \in Nat /\ kind \in Kinds /\ span \in 0..Capacity
      /\ arr \in [Kinds -> [1..Capacity -> Entries \cup {None}]] /\ len \in [Kinds -> 0..Capacity]
  BY ConstantsAssumption DEF LoopIndInv, LoopInv, EntriesOf, Entries
<1>2. /\ \A k \in Kinds : \A i \in 1..len[k] : arr[k][i] \in EntriesOf(k)
      /\ pc \in {"walk", "visit"} => cursor >= 1 /\ \A i \in 1..span : arr[kind][i] \in EntriesOf(kind)
      /\ pc = "visit" => ent \in EntriesOf(kind)
  BY DEF LoopIndInv, ListInv
<1>3. ASSUME NEW k \in Kinds, NEW e \in Entries, NEW t, Enlist(k, e, t) PROVE ListInv'
  <2>1. /\ e \in EntriesOf(k) /\ len[k] < Capacity
        /\ arr' = [arr EXCEPT ![k][len[k] + 1] = e] /\ len' = [len EXCEPT ![k] = @ + 1]
        /\ UNCHANGED <<pc, kind, cursor, span, ent>>
    BY <1>3 DEF Enlist, Call
  <2>2. len[k] + 1 \in 1..Capacity
    BY <1>1, <2>1
  <2>3. ASSUME NEW x \in Kinds, NEW i \in 1..Capacity
        PROVE  arr'[x][i] = IF x = k /\ i = len[k] + 1 THEN e ELSE arr[x][i]
    BY <1>1, <2>1, <2>2
  <2>4. \A x \in Kinds : \A i \in 1..len'[x] : arr'[x][i] \in EntriesOf(x)
    <3> SUFFICES ASSUME NEW x \in Kinds, NEW i \in 1..len'[x] PROVE arr'[x][i] \in EntriesOf(x)
      OBVIOUS
    <3>1. len'[x] = IF x = k THEN len[x] + 1 ELSE len[x]
      BY <1>1, <2>1
    <3>2. i \in 1..Capacity /\ (i \in 1..len[x] \/ (x = k /\ i = len[k] + 1))
      BY <1>1, <2>2, <3>1
    <3> QED BY <1>2, <2>1, <2>3, <3>2
  <2>5. \A i \in 1..span : arr[kind][i] \in EntriesOf(kind) => arr'[kind][i] \in EntriesOf(kind)
    BY <1>1, <2>1, <2>3
  <2> QED BY <1>2, <2>1, <2>4, <2>5 DEF ListInv
<1>4. ASSUME NEW k \in Kinds, NEW e \in Entries, Delist(k, e) PROVE ListInv'
  <2>1. PICK j \in 1..len[k] : arr' = [arr EXCEPT ![k][j] = arr[k][len[k]]]
    BY <1>4 DEF Delist
  <2>2. len' = [len EXCEPT ![k] = @ - 1] /\ UNCHANGED <<pc, kind, cursor, span, ent>>
    BY <1>4 DEF Delist, Call
  <2>3. len[k] \in 1..len[k] /\ j \in 1..Capacity /\ arr[k][len[k]] \in EntriesOf(k)
    BY <1>1, <1>2, <2>1
  <2>4. ASSUME NEW x \in Kinds, NEW i \in 1..Capacity
        PROVE  arr'[x][i] = IF x = k /\ i = j THEN arr[k][len[k]] ELSE arr[x][i]
    BY <1>1, <2>1, <2>3
  <2>5. \A x \in Kinds : \A i \in 1..len'[x] : arr'[x][i] \in EntriesOf(x)
    <3> SUFFICES ASSUME NEW x \in Kinds, NEW i \in 1..len'[x] PROVE arr'[x][i] \in EntriesOf(x)
      OBVIOUS
    <3>1. i \in 1..len[x] /\ i \in 1..Capacity
      BY <1>1, <2>2
    <3> QED BY <1>2, <2>3, <2>4, <3>1
  <2>6. ASSUME NEW i \in 1..span, arr[kind][i] \in EntriesOf(kind)
        PROVE  arr'[kind][i] \in EntriesOf(kind)
    <3>1. i \in 1..Capacity /\ kind \in Kinds
      BY <1>1
    <3>2. arr'[kind][i] = IF kind = k /\ i = j THEN arr[k][len[k]] ELSE arr[kind][i]
      BY <2>4, <3>1
    <3> QED BY <2>3, <2>6, <3>2
  <2> QED BY <1>2, <2>2, <2>5, <2>6 DEF ListInv
<1>5. ASSUME UNCHANGED <<arr, len>>, pc' \notin {"walk", "visit"} PROVE ListInv'
  BY <1>2, <1>5 DEF ListInv
<1>6. ASSUME UNCHANGED <<arr, len, pc, kind, cursor, span, ent>> PROVE ListInv'
  BY <1>2, <1>6 DEF ListInv
<1>7. ASSUME NEW k \in Kinds, StartWalk(k), UNCHANGED <<arr, len>> PROVE ListInv'
  BY <1>2, <1>7 DEF StartWalk, ListInv
<1>8. CASE CallbackCall
  <2>1. ASSUME NEW p, NEW t, NEW pr, Arm(p, t, pr) \/ ArmPooled(p, t, pr) \/ Withdraw(p)
        PROVE  UNCHANGED <<arr, len, pc, kind, cursor, span, ent>>
    BY <2>1 DEF Arm, ArmPooled, Withdraw, Call, listVars
  <2>2. ASSUME NEW k, NEW e, NEW t, MoveDue(k, e, t)
        PROVE  UNCHANGED <<arr, len, pc, kind, cursor, span, ent>>
    BY <2>2 DEF MoveDue, Call
  <2> QED BY <1>3, <1>4, <1>6, <1>8, <2>1, <2>2 DEF CallbackCall
<1>9. CASE LoopStep
  <2>1. ASSUME BeginPrePull \/ QueuePrepull \/ QueuePull \/ StepPending \/ ActionReturns \/ WalkEnds
               \/ LastCleanup
        PROVE  UNCHANGED <<arr, len>> /\ pc' \notin {"walk", "visit"}
    BY <2>1 DEF BeginPrePull, QueuePrepull, QueuePull, StepPending, ActionReturns, WalkEnds,
                LastCleanup, listVars
  <2>2. ASSUME NEW k \in Kinds, pc = "step", StepEnds(k) \/ StepAdvances(k) PROVE ListInv'
    <3>1. UNCHANGED <<arr, len>>
      BY <2>2 DEF StepEnds, StepAdvances, listVars
    <3>2. pc' \notin {"walk", "visit"} \/ StartWalk(k)
      BY <2>2 DEF StepEnds, StepAdvances
    <3> QED BY <1>5, <1>7, <3>1, <3>2
  <2>3. ASSUME StepSwings \/ StepTasks PROVE ListInv'
    <3>1. "swing" \in Kinds /\ "task" \in Kinds
      BY DEF Kinds
    <3> QED BY <2>2, <2>3, <3>1 DEF StepSwings, StepTasks
  <2>4. ASSUME AdvanceReturns PROVE ListInv'
    <3>1. UNCHANGED <<arr, len>> /\ (pc' \in {"step", "action"} \/ StartWalk(kind))
      BY <2>4 DEF AdvanceReturns
    <3> QED BY <1>1, <1>5, <1>7, <3>1
  <2>5. ASSUME WalkPasses \/ VisitReturns PROVE ListInv'
    <3>1. /\ UNCHANGED <<arr, len, kind, span>> /\ cursor' = cursor + 1 /\ pc' = "walk"
          /\ pc \in {"walk", "visit"}
      BY <2>5 DEF WalkPasses, VisitReturns
    <3>2. cursor \in Nat
      BY DEF LoopIndInv, LoopInv
    <3> QED BY <1>2, <3>1, <3>2 DEF ListInv
  <2>6. ASSUME WalkFires PROVE ListInv'
    <3>1. /\ UNCHANGED <<arr, len, kind, span, cursor>> /\ pc' = "visit" /\ pc = "walk"
          /\ ent' = arr[kind][cursor] /\ cursor <= span
      BY <2>6 DEF WalkFires
    <3>2. cursor \in 1..span
      BY <1>2, <3>1 DEF LoopIndInv, LoopInv
    <3> QED BY <1>2, <3>1, <3>2 DEF ListInv
  <2>7. ASSUME NextIteration PROVE ListInv'
    <3>1. pc' = "reset" /\ len' = [k \in Kinds |-> 0]
      BY <2>7 DEF NextIteration
    <3> QED BY <3>1 DEF ListInv
  <2> QED BY <1>5, <1>9, <2>1, <2>3, <2>4, <2>5, <2>6, <2>7 DEF LoopStep
<1>10. CASE UNCHANGED vars
  BY <1>6, <1>10 DEF vars, listVars, walkVars
<1> QED BY <1>8, <1>9, <1>10 DEF Next

-----------------------------------------------------------------------------
(* Theorems about every behaviour *)

\* The invariant holds before the first reset.
LEMMA LoopIndInvInit ==
  ASSUME Init PROVE LoopIndInv
<1>1. /\ Never \in Int /\ Duration \in Int /\ 0 <= Duration /\ 0 < Never /\ Capacity \in Nat
      /\ MaxOps \in Nat /\ None \notin Actions /\ Sentinel \notin Actions /\ None \notin Entries
  BY ConstantsAssumption
<1>2. pending = <<Sentinel>> /\ Len(pending) = 1 /\ pending[1] = Sentinel /\ pending \in Seq(QueueItems)
  BY DEF Init, QueueItems
<1>3. Members(pending) = {Sentinel} /\ Sorted(pending, at, prio)
  BY <1>2 DEF Members, Sorted, SortedTo
<1>4. QueueInv
  BY <1>1, <1>2, <1>3 DEF Init, QueueInv, QueueItems
<1>5. LoopInv
  <2>1. /\ arr \in [Kinds -> [1..Capacity -> Entries \cup {None}]] /\ len \in [Kinds -> 0..Capacity]
        /\ dueAt \in [Entries -> Int] /\ minAt \in [Kinds -> Int]
        /\ \A k \in Kinds : minAt[k] <= Never
    BY <1>1 DEF Init
  <2>2. /\ now \in Int /\ now <= Duration /\ pc = "reset" /\ cur = None /\ kind \in Kinds
        /\ cursor \in Nat /\ span \in 0..Capacity /\ ent \in Entries \cup {None}
        /\ missed \subseteq Entries /\ ops \in 0..MaxOps /\ iter \in Nat
    <3>1. /\ now = 0 /\ pc = "reset" /\ cur = None /\ kind = "swing" /\ cursor = 1 /\ span = 0
          /\ ent = None /\ missed = {} /\ ops = 0 /\ iter = 1
      BY DEF Init
    <3>2. now \in Int /\ now <= Duration /\ cursor \in Nat /\ span \in 0..Capacity
      BY ONLY <1>1, <3>1
    <3>3. ops \in 0..MaxOps /\ iter \in Nat
      BY ONLY <1>1, <3>1
    <3>4. kind \in Kinds /\ ent \in Entries \cup {None} /\ missed \subseteq Entries
      BY <3>1 DEF Kinds
    <3> QED BY <3>1, <3>2, <3>3, <3>4
  <2> QED BY <2>1, <2>2 DEF LoopInv
<1>6. ListInv
  BY DEF Init, ListInv, Kinds
<1>7. PoolInv
  BY <1>1, <1>3 DEF Init, PoolInv, Actions
<1>8. PrepullInv
  BY <1>3 DEF Init, PrepullInv
<1> QED BY <1>4, <1>5, <1>6, <1>7, <1>8 DEF LoopIndInv

\* Whatever callbacks do, the queue, the pool, the lists and the loop stay in the
\* states the code relies on.
THEOREM LoopIndInvHolds == Spec => []LoopIndInv
<1>1. Init => LoopIndInv
  BY LoopIndInvInit
<1>2. LoopIndInv /\ [Next]_vars => LoopIndInv'
  BY QueueInvStep, LoopInvStep, ListInvStep, PrepullInvStep DEF LoopIndInv
<1> QED BY <1>1, <1>2, PTL DEF Spec

\* The invariant holds the types.
LEMMA LoopIndInvTypes == LoopIndInv => TypeOK
  BY DEF LoopIndInv, QueueInv, LoopInv, TypeOK, QueueItems

\* Type correctness of sim.go's state.
THEOREM TypeCorrect == Spec => []TypeOK
  BY LoopIndInvTypes, LoopIndInvHolds, PTL

\* sim.pendingActions is always sorted, free of repetitions, of cancelled, consumed
\* and pooled actions, with the sentinel at the bottom.
THEOREM QueueCorrect == Spec => []QueueOrdered
<1>1. LoopIndInv => QueueOrdered
  <2>1. LoopIndInv => TypeOK
    BY LoopIndInvTypes
  <2> QED BY <2>1, QueueOrderedFromInv DEF LoopIndInv
<1> QED BY <1>1, LoopIndInvHolds, PTL

\* The pool of pending actions never hands out an action that is queued or running.
THEOREM PoolCorrect == Spec => []PoolNeverAliases
<1>1. LoopIndInv => PoolNeverAliases
  BY DEF LoopIndInv, PoolInv, PoolNeverAliases, Queued, Members
<1> QED BY <1>1, LoopIndInvHolds, PTL

\* Step runs no action that was cancelled, be it during sim.advance, nor one due
\* past the end of combat.
THEOREM CancelledCorrect == Spec => CancelledNeverRuns
<1> DEFINE A == pc # "action" /\ pc' = "action" => ~cancelled[cur'] /\ now' <= Duration
<1>1. ASSUME LoopIndInv, [Next]_vars PROVE [A]_vars
  <2> SUFFICES ASSUME pc # "action", pc' = "action" PROVE ~cancelled[cur'] /\ now' <= Duration
    OBVIOUS
  <2>1. StepPending \/ AdvanceReturns
    <3>1. ~CallbackCall
      BY DEF CallbackCall, Arm, ArmPooled, Withdraw, Enlist, Delist, MoveDue, Call
    <3>2. pc' # pc
      OBVIOUS
    <3>3. ~UNCHANGED vars
      BY <3>2 DEF vars
    <3>4. LoopStep
      BY <1>1, <3>1, <3>3 DEF Next
    <3> QED BY <3>4 DEF LoopStep, BeginPrePull, QueuePrepull, QueuePull, StepSwings, StepTasks,
               StepEnds, StepAdvances, StartWalk, ActionReturns, WalkPasses, WalkFires,
               VisitReturns, WalkEnds, NextIteration, LastCleanup
  <2>2. LoopInv'
    BY <1>1, LoopInvStep DEF LoopIndInv
  <2>3. ~cancelled[cur']
    <3>1. CASE StepPending
      BY <3>1, <1>1 DEF StepPending, LoopIndInv, LoopInv
    <3>2. CASE AdvanceReturns
      BY <3>2 DEF AdvanceReturns, StartWalk
    <3> QED BY <2>1, <3>1, <3>2
  <2> QED BY <2>2, <2>3 DEF LoopInv
<1> QED BY <1>1, LoopIndInvHolds, PTL DEF Spec, CancelledNeverRuns

-----------------------------------------------------------------------------
(* The cached earliest times *)

\* No entry of list k is due before the cached time, but for those the walk has
\* yet to visit, the one it visits and those it missed.
Covered(k, e) ==
    \/ e \in missed
    \/ minAt[k] <= dueAt[e]
    \/ /\ k = kind /\ pc \in {"walk", "visit"}
       /\ \E j \in 1..span : j >= cursor /\ arr[k][j] = e /\ (pc = "visit" => j # cursor)
    \/ k = kind /\ pc = "visit" /\ ent = e

CacheInv ==
    /\ \A k \in Kinds : \A i, j \in 1..len[k] : i # j => arr[k][i] # arr[k][j]
    /\ \A k \in Kinds : \A i \in 1..len[k] : Covered(k, arr[k][i])

\* The types of the lists, at hand where SMT needs them.
LEMMA ListTypes ==
  ASSUME LoopIndInv
  PROVE  /\ \A k \in Kinds : len[k] \in 0..Capacity /\ len[k] \in Nat /\ minAt[k] \in Int
         /\ Capacity \in Nat /\ kind \in Kinds /\ span \in 0..Capacity /\ cursor \in Nat
         /\ arr \in [Kinds -> [1..Capacity -> Entries \cup {None}]] /\ len \in [Kinds -> 0..Capacity]
         /\ minAt \in [Kinds -> Int] /\ dueAt \in [Entries -> Int]
         /\ \A k \in Kinds : \A i \in 1..len[k] : arr[k][i] \in EntriesOf(k) /\ i \in 1..Capacity
         /\ \A k \in Kinds : \A e \in EntriesOf(k) : e \in Entries /\ dueAt[e] \in Int
         /\ \A k, x \in Kinds : \A e \in EntriesOf(k) : e \in EntriesOf(x) => k = x
<1>1. Capacity \in Nat /\ Swings \cap Tasks = {}
  BY ConstantsAssumption
<1>2. \A k \in Kinds : \A e \in EntriesOf(k) : e \in Entries
  BY DEF EntriesOf, Entries
<1>3. \A k, x \in Kinds : \A e \in EntriesOf(k) : e \in EntriesOf(x) => k = x
  BY <1>1 DEF EntriesOf, Kinds
<1>4. /\ kind \in Kinds /\ span \in 0..Capacity /\ cursor \in Nat
      /\ arr \in [Kinds -> [1..Capacity -> Entries \cup {None}]] /\ len \in [Kinds -> 0..Capacity]
      /\ minAt \in [Kinds -> Int] /\ dueAt \in [Entries -> Int]
      /\ \A k \in Kinds : \A i \in 1..len[k] : arr[k][i] \in EntriesOf(k)
  BY DEF LoopIndInv, LoopInv, ListInv
<1>5. \A k \in Kinds : len[k] \in 0..Capacity /\ len[k] \in Nat /\ minAt[k] \in Int
  BY <1>1, <1>4
<1>6. \A k \in Kinds : \A i \in 1..len[k] : i \in 1..Capacity
  BY <1>1, <1>5
<1> QED BY <1>1, <1>2, <1>3, <1>4, <1>5, <1>6

\* An entry put on a list: the walk still comes to what it was to come to, but for what
\* stood only at the place that is written over, which it misses.
LEMMA EnlistCovers ==
  ASSUME LoopIndInv, CacheInv, NEW k \in Kinds, NEW e \in Entries, NEW t \in Int,
         Enlist(k, e, t)
  PROVE  CacheInv'
<1> DEFINE n == len[k] + 1
<1>1. /\ e \in EntriesOf(k) /\ len[k] < Capacity
      /\ \A i \in 1..len[k] : arr[k][i] # e
      /\ arr' = [arr EXCEPT ![k][n] = e] /\ len' = [len EXCEPT ![k] = n]
      /\ dueAt' = [dueAt EXCEPT ![e] = t] /\ minAt' = [minAt EXCEPT ![k] = Earlier(@, t)]
      /\ missed' = (missed \cup Forgotten(k)) \ {e}
      /\ UNCHANGED <<pc, kind, cursor, span, ent>> /\ pc # "walk"
  BY DEF Enlist, Call, Live, InCallback
<1>2. n \in 1..Capacity /\ n \in Nat
  BY <1>1, ListTypes
<1> HIDE DEF n
<1>3. ASSUME NEW x \in Kinds, NEW i \in 1..Capacity
      PROVE  arr'[x][i] = IF x = k /\ i = n THEN e ELSE arr[x][i]
  BY <1>1, <1>2, ListTypes
<1>4. ASSUME NEW x \in Kinds PROVE len'[x] = IF x = k THEN n ELSE len[x]
  BY <1>1, ListTypes
<1>5. ASSUME NEW x \in Kinds, NEW i \in 1..len'[x]
      PROVE  (x = k /\ i = n /\ arr'[x][i] = e) \/ (i \in 1..len[x] /\ arr'[x][i] = arr[x][i])
  <2>0. len[x] \in Nat /\ len[x] <= Capacity /\ Capacity \in Nat
    BY ListTypes
  <2>1. i \in 1..Capacity
    BY <1>2, <1>4, <2>0
  <2>2. (x = k /\ i = n) \/ (i \in 1..len[x] /\ ~(x = k /\ i = n))
    BY <1>4, ListTypes DEF n
  <2> QED BY <1>3, <2>1, <2>2
<1>6. ASSUME NEW x \in Kinds, NEW i \in 1..len'[x], NEW j \in 1..len'[x], i # j
      PROVE  arr'[x][i] # arr'[x][j]
  BY <1>1, <1>5, <1>6 DEF CacheInv
<1>7. \A f : f \in missed \cup Forgotten(k) /\ f # e => f \in missed'
  BY <1>1
<1>8. \A x \in Kinds : minAt'[x] \in Int /\ minAt'[x] <= minAt[x]
  BY <1>1, ListTypes DEF Earlier
<1>9. ASSUME NEW x \in Kinds, NEW i \in 1..len'[x], NEW f, f = arr'[x][i] PROVE Covered(x, f)'
  <2>1. CASE x = k /\ i = n /\ arr'[x][i] = e
    <3>1. e \in Entries /\ minAt[k] \in Int /\ dueAt \in [Entries -> Int] /\ minAt \in [Kinds -> Int]
      BY ListTypes
    <3>2. minAt'[k] <= dueAt'[e]
      BY <1>1, <3>1 DEF Earlier
    <3> QED BY <1>9, <2>1, <3>2 DEF Covered
  <2>2. CASE i \in 1..len[x] /\ arr'[x][i] = arr[x][i]
    <3>1. f = arr[x][i] /\ f \in EntriesOf(x) /\ f # e /\ f \in Entries
      BY <1>1, <1>9, <2>2, ListTypes
    <3>2. Covered(x, f)
      BY <2>2, <3>1 DEF CacheInv
    <3>3. dueAt'[f] = dueAt[f] /\ dueAt[f] \in Int
      BY <1>1, <3>1, ListTypes
    <3>7. CASE f \in missed
      BY <1>7, <3>1, <3>7 DEF Covered
    <3>4. CASE minAt[x] <= dueAt[f]
      <4>1. minAt[x] \in Int /\ minAt'[x] \in Int /\ minAt'[x] <= minAt[x]
        BY <1>8, ListTypes
      <4>2. minAt'[x] <= dueAt'[f]
        BY <3>3, <3>4, <4>1
      <4> QED BY <4>2 DEF Covered
    <3>5. ASSUME x = kind, pc \in {"walk", "visit"}, NEW j \in 1..span, j >= cursor, arr[x][j] = f,
                 pc = "visit" => j # cursor
          PROVE  Covered(x, f)'
      <4>1. span \in 0..Capacity /\ Capacity \in Nat /\ cursor \in Nat
        BY ListTypes
      <4>2. j \in 1..Capacity /\ j \in (cursor + 1)..span /\ pc = "visit"
        BY <1>1, <3>5, <4>1
      <4>3. CASE x # k
        <5>1. arr'[x][j] = f
          BY <1>3, <3>5, <4>2, <4>3
        <5> QED BY <1>1, <3>5, <5>1 DEF Covered
      <4>4. CASE x = k /\ f \in ToCome(arr'[k])
        <5>1. PICK i2 \in (cursor + 1)..span : arr'[k][i2] = f
          BY <4>4 DEF ToCome
        <5>2. i2 \in 1..span /\ i2 >= cursor /\ i2 # cursor
          BY <4>1, <5>1
        <5> QED BY <1>1, <3>5, <4>4, <5>1, <5>2 DEF Covered
      <4>5. CASE x = k /\ f = ent
        BY <1>1, <3>5, <4>2, <4>5 DEF Covered
      <4>6. CASE x = k /\ f \notin ToCome(arr'[k]) /\ f # ent
        <5>1. f \in ToCome(arr[k])
          BY <3>5, <4>2, <4>6 DEF ToCome
        <5>2. f \in Forgotten(k)
          BY <3>5, <4>2, <4>6, <5>1 DEF Forgotten
        <5> QED BY <1>7, <3>1, <5>2 DEF Covered
      <4> QED BY <4>3, <4>4, <4>5, <4>6
    <3>6. CASE x = kind /\ pc = "visit" /\ ent = f
      BY <1>1, <3>6 DEF Covered
    <3> QED BY <3>2, <3>4, <3>5, <3>6, <3>7 DEF Covered
  <2> QED BY <1>5, <2>1, <2>2
<1> QED BY <1>6, <1>9 DEF CacheInv, Covered

\* An entry taken off a list: the last one takes its place, and its old copy stays
\* where the walk will find it.
LEMMA DelistCovers ==
  ASSUME LoopIndInv, CacheInv, NEW k \in Kinds, NEW e \in Entries, Delist(k, e)
  PROVE  CacheInv'
<1>1. PICK m \in 1..len[k] : arr[k][m] = e /\ arr' = [arr EXCEPT ![k][m] = arr[k][len[k]]]
  BY DEF Delist
<1>2. /\ len' = [len EXCEPT ![k] = @ - 1] /\ UNCHANGED <<minAt, pc, kind, cursor, span, ent>>
      /\ dueAt' = (IF k = "task" THEN [dueAt EXCEPT ![e] = Never] ELSE dueAt)
      /\ missed' = missed /\ pc # "walk"
  BY DEF Delist, Call, InCallback
<1>3. m \in 1..Capacity /\ len[k] \in 1..len[k] /\ m \in Nat
  BY <1>1, ListTypes
<1>4. ASSUME NEW x \in Kinds, NEW i \in 1..Capacity
      PROVE  arr'[x][i] = IF x = k /\ i = m THEN arr[k][len[k]] ELSE arr[x][i]
  BY <1>1, <1>3, ListTypes
<1>5. ASSUME NEW x \in Kinds PROVE len'[x] = IF x = k THEN len[x] - 1 ELSE len[x]
  BY <1>2, ListTypes
<1> DEFINE old(x, i) == IF x = k /\ i = m THEN len[k] ELSE i
<1>6. ASSUME NEW x \in Kinds, NEW i \in 1..len'[x]
      PROVE  /\ old(x, i) \in 1..len[x] /\ arr'[x][i] = arr[x][old(x, i)]
             /\ x = k => old(x, i) # m
  <2>1. i \in 1..Capacity /\ i \in 1..len[x] /\ (x = k => i < len[k])
    BY <1>5, ListTypes
  <2> QED BY <1>3, <1>4, <2>1
<1>7. ASSUME NEW x \in Kinds, NEW i \in 1..len'[x], NEW j \in 1..len'[x], i # j
      PROVE  old(x, i) # old(x, j)
  BY <1>3, <1>5, <1>7, ListTypes
<1> HIDE DEF old
<1>8. ASSUME NEW x \in Kinds, NEW i \in 1..len'[x], NEW j \in 1..len'[x], i # j
      PROVE  arr'[x][i] # arr'[x][j]
  BY <1>6, <1>7, <1>8 DEF CacheInv
<1>10. ASSUME NEW x \in Kinds, NEW i \in 1..len'[x], NEW f, f = arr'[x][i] PROVE Covered(x, f)'
  <2>1. f = arr[x][old(x, i)] /\ f \in EntriesOf(x) /\ f \in Entries /\ Covered(x, f)
    BY <1>6, <1>10, ListTypes DEF CacheInv
  <2>2. f # e
    <3>1. CASE x = k
      BY <1>1, <1>6, <2>1, <3>1 DEF CacheInv
    <3>2. CASE x # k
      BY <1>1, <2>1, <3>2, ListTypes
    <3> QED BY <3>1, <3>2
  <2>3. dueAt'[f] = dueAt[f] /\ minAt'[x] = minAt[x]
    BY <1>2, <2>1, <2>2, ListTypes
  <2>4. CASE f \in missed \/ minAt[x] <= dueAt[f]
    BY <1>2, <2>3, <2>4 DEF Covered
  <2>5. ASSUME x = kind, pc \in {"walk", "visit"}, NEW j \in 1..span, j >= cursor, arr[x][j] = f,
               pc = "visit" => j # cursor
        PROVE  Covered(x, f)'
    <3>1. j \in 1..Capacity /\ ~(x = k /\ j = m)
      <4>1. span \in 0..Capacity /\ Capacity \in Nat
        BY ListTypes
      <4> QED BY <1>1, <2>2, <2>5, <4>1
    <3>2. arr'[x][j] = f
      BY <1>4, <2>5, <3>1
    <3> QED BY <1>2, <2>5, <3>2 DEF Covered
  <2>6. CASE x = kind /\ pc = "visit" /\ ent = f
    BY <1>2, <2>6 DEF Covered
  <2> QED BY <2>1, <2>4, <2>5, <2>6 DEF Covered
<1> QED BY <1>8, <1>10 DEF CacheInv, Covered

\* A time that moves: the cache is lowered with it.
LEMMA MoveDueCovers ==
  ASSUME LoopIndInv, CacheInv, NEW k \in Kinds, NEW e \in Entries, NEW t \in Int, MoveDue(k, e, t)
  PROVE  CacheInv'
<1>1. /\ e \in EntriesOf(k) /\ dueAt' = [dueAt EXCEPT ![e] = t]
      /\ minAt' = [minAt EXCEPT ![k] = Earlier(@, t)]
      /\ missed' = missed \ {e}
      /\ UNCHANGED <<arr, len, pc, kind, cursor, span, ent>>
  BY DEF MoveDue, Call
<1>2. ASSUME NEW x \in Kinds, NEW i \in 1..len[x], NEW f, f = arr[x][i] PROVE Covered(x, f)'
  <2>1. f \in EntriesOf(x) /\ f \in Entries /\ Covered(x, f) /\ dueAt[f] \in Int /\ minAt[x] \in Int
    BY <1>2, ListTypes DEF CacheInv
  <2>2. minAt'[x] \in Int /\ minAt'[x] <= minAt[x] /\ (x = k => minAt'[x] <= t)
    BY <1>1, <2>1, ListTypes DEF Earlier
  <2>3. CASE f = e
    <3>1. x = k /\ dueAt'[f] = t
      BY <1>1, <2>1, <2>3, ListTypes
    <3> QED BY <2>2, <3>1 DEF Covered
  <2>4. CASE f # e /\ minAt[x] <= dueAt[f]
    <3>1. dueAt'[f] = dueAt[f]
      BY <1>1, <2>1, <2>4
    <3>2. minAt'[x] <= dueAt'[f]
      BY <2>1, <2>2, <2>4, <3>1
    <3> QED BY <3>2 DEF Covered
  <2>5. CASE f # e /\ ~(minAt[x] <= dueAt[f])
    BY <1>1, <2>1, <2>5 DEF Covered
  <2> QED BY <2>3, <2>4, <2>5
<1>3. \A x \in Kinds : \A i, j \in 1..len[x] : i # j => arr[x][i] # arr[x][j]
  BY DEF CacheInv
<1> QED BY <1>1, <1>2, <1>3 DEF CacheInv, Covered

\* The walk begins: every entry is still to be visited.
LEMMA StartWalkCovers ==
  ASSUME LoopIndInv, CacheInv, pc \notin {"walk", "visit"}, NEW k \in Kinds, StartWalk(k),
         UNCHANGED <<arr, len, dueAt>>
  PROVE  CacheInv'
<1>1. /\ minAt' = [minAt EXCEPT ![k] = Never] /\ kind' = k /\ cursor' = 1 /\ span' = len[k]
      /\ missed' = missed \ EntriesOf(k) /\ pc' = "walk" /\ UNCHANGED <<arr, len, dueAt>>
  BY DEF StartWalk
<1>2. ASSUME NEW x \in Kinds, NEW i \in 1..len[x], NEW f, f = arr[x][i] PROVE Covered(x, f)'
  <2>1. CASE x = k
    BY <1>1, <1>2, <2>1 DEF Covered
  <2>2. CASE x # k
    <3>1. f \in missed \/ minAt[x] <= dueAt[f]
      BY <1>2 DEF CacheInv, Covered
    <3>2. minAt'[x] = minAt[x] /\ f \notin EntriesOf(k)
      BY <1>1, <1>2, <2>2, ListTypes
    <3> QED BY <1>1, <3>1, <3>2 DEF Covered
  <2> QED BY <2>1, <2>2
<1>3. \A x \in Kinds : \A i, j \in 1..len[x] : i # j => arr[x][i] # arr[x][j]
  BY DEF CacheInv
<1> QED BY <1>1, <1>2, <1>3 DEF CacheInv, Covered

\* The walk moves past an entry whose time the cache has taken in.
LEMMA WalkCovers ==
  ASSUME LoopIndInv, CacheInv, WalkPasses \/ VisitReturns
  PROVE  CacheInv'
<1> DEFINE g == IF pc = "walk" THEN arr[kind][cursor] ELSE ent
<1>1. /\ pc \in {"walk", "visit"} /\ g \in EntriesOf(kind) /\ g \in Entries /\ kind \in Kinds
      /\ (pc = "walk" => g = arr[kind][cursor]) /\ (pc = "visit" => g = ent)
  <2>1. CASE WalkPasses
    <3>1. pc = "walk" /\ cursor <= span
      BY <2>1 DEF WalkPasses
    <3>2. cursor \in 1..span
      BY <3>1, ListTypes DEF LoopIndInv, ListInv
    <3>3. g \in EntriesOf(kind) /\ kind \in Kinds
      BY <3>1, <3>2, ListTypes DEF LoopIndInv, ListInv
    <3> QED BY <3>1, <3>3, ListTypes
  <2>2. CASE VisitReturns
    <3>1. pc = "visit"
      BY <2>2 DEF VisitReturns
    <3>2. g \in EntriesOf(kind) /\ kind \in Kinds
      BY <3>1, ListTypes DEF LoopIndInv, ListInv
    <3> QED BY <3>1, <3>2, ListTypes
  <2> QED BY <2>1, <2>2
<1> HIDE DEF g
<1>2. /\ UNCHANGED <<arr, len, kind, span, missed>> /\ cursor' = cursor + 1 /\ pc' = "walk"
      /\ minAt' = [minAt EXCEPT ![kind] = Earlier(@, dueAt'[g])]
  BY <1>1 DEF WalkPasses, VisitReturns
<1>3. dueAt' \in [Entries -> Int] /\ \A f \in Entries : f # g => dueAt'[f] = dueAt[f]
  <2>1. \A d \in Periods : now + d \in Int
    BY TimesAhead DEF LoopIndInv
  <2>2. dueAt \in [Entries -> Int]
    BY ListTypes
  <2> QED BY <1>1, <2>1, <2>2 DEF WalkPasses, VisitReturns
<1>4. /\ \A x \in Kinds : minAt'[x] \in Int /\ minAt'[x] <= minAt[x]
      /\ minAt'[kind] <= dueAt'[g]
  <2>1. dueAt'[g] \in Int /\ minAt \in [Kinds -> Int]
    BY <1>1, <1>3, ListTypes
  <2> QED BY <1>1, <1>2, <2>1 DEF Earlier
<1>5. ASSUME NEW x \in Kinds, NEW i \in 1..len[x], NEW f, f = arr[x][i] PROVE Covered(x, f)'
  <2>1. f \in EntriesOf(x) /\ f \in Entries /\ Covered(x, f) /\ dueAt[f] \in Int /\ minAt[x] \in Int
    BY <1>5, ListTypes DEF CacheInv
  <2>2. CASE f = g
    <3>1. x = kind
      BY <1>1, <2>1, <2>2, ListTypes
    <3> QED BY <1>4, <2>2, <3>1 DEF Covered
  <2>3. CASE f # g /\ minAt[x] <= dueAt[f]
    <3>1. dueAt'[f] = dueAt[f] /\ minAt'[x] \in Int /\ minAt'[x] <= minAt[x]
      BY <1>3, <1>4, <2>1, <2>3
    <3>2. minAt'[x] <= dueAt'[f]
      BY <2>1, <2>3, <3>1
    <3> QED BY <3>2 DEF Covered
  <2>4. ASSUME f # g, x = kind, NEW j \in 1..span, j >= cursor, arr[x][j] = f, pc = "visit" => j # cursor
        PROVE  Covered(x, f)'
    <3>1. j # cursor
      BY <1>1, <2>4
    <3>2. cursor \in Nat /\ span \in Nat
      <4>1. cursor \in Nat /\ span \in 0..Capacity /\ Capacity \in Nat
        BY ListTypes
      <4> QED BY <4>1
    <3>3. j >= cursor + 1
      BY <2>4, <3>1, <3>2
    <3> QED BY <1>2, <2>4, <3>3 DEF Covered
  <2>5. CASE f \in missed
    BY <1>2, <2>5 DEF Covered
  <2> QED BY <1>1, <2>1, <2>2, <2>3, <2>4, <2>5 DEF Covered
<1>6. \A x \in Kinds : \A i, j \in 1..len[x] : i # j => arr[x][i] # arr[x][j]
  BY DEF CacheInv
<1> QED BY <1>2, <1>5, <1>6 DEF CacheInv, Covered

\* The walk finds an entry due: what it will be due next is not known yet.
LEMMA WalkFiresCovers ==
  ASSUME LoopIndInv, CacheInv, WalkFires
  PROVE  CacheInv'
<1>1. /\ pc = "walk" /\ cursor <= span /\ ent' = arr[kind][cursor] /\ pc' = "visit"
      /\ UNCHANGED <<arr, len, minAt, kind, cursor, span, missed>>
  BY DEF WalkFires
<1>2. \A f \in Entries : f # ent' => dueAt'[f] = dueAt[f]
  BY ListTypes DEF WalkFires
<1>3. ASSUME NEW x \in Kinds, NEW i \in 1..len[x], NEW f, f = arr[x][i] PROVE Covered(x, f)'
  <2>1. f \in EntriesOf(x) /\ f \in Entries /\ Covered(x, f)
    BY <1>3, ListTypes DEF CacheInv
  <2>2. CASE f = ent'
    <3>1. cursor \in 1..span /\ kind \in Kinds
      <4>1. cursor \in Nat /\ span \in 0..Capacity /\ Capacity \in Nat /\ kind \in Kinds /\ cursor >= 1
        BY <1>1, ListTypes DEF LoopIndInv, ListInv
      <4> QED BY <1>1, <4>1
    <3>2. f \in EntriesOf(kind)
      BY <1>1, <2>2, <3>1 DEF LoopIndInv, ListInv
    <3>3. x = kind
      BY <2>1, <3>1, <3>2, ListTypes
    <3> QED BY <1>1, <2>2, <3>3 DEF Covered
  <2>3. CASE f \in missed \/ (f # ent' /\ minAt[x] <= dueAt[f])
    BY <1>1, <1>2, <2>1, <2>3 DEF Covered
  <2>4. ASSUME f # ent', x = kind, NEW j \in 1..span, j >= cursor, arr[x][j] = f PROVE Covered(x, f)'
    <3>1. j # cursor
      BY <1>1, <2>4
    <3> QED BY <1>1, <2>4, <3>1 DEF Covered
  <2> QED BY <1>1, <2>1, <2>2, <2>3, <2>4 DEF Covered
<1>4. \A x \in Kinds : \A i, j \in 1..len[x] : i # j => arr[x][i] # arr[x][j]
  BY DEF CacheInv
<1> QED BY <1>1, <1>3, <1>4 DEF CacheInv, Covered

\* Every step keeps the caches below the entries the walk has passed.
LEMMA CacheInvStep ==
  ASSUME LoopIndInv, CacheInv, [Next]_vars
  PROVE  CacheInv'
<1>1. "swing" \in Kinds /\ "task" \in Kinds /\ kind \in Kinds
  BY ListTypes DEF Kinds
<1>2. ASSUME UNCHANGED <<arr, len, dueAt, minAt, missed>>, pc \notin {"walk", "visit"}, pc' \notin {"walk", "visit"}
      PROVE  CacheInv'
  BY <1>2 DEF CacheInv, Covered
<1>3. ASSUME UNCHANGED <<arr, len, dueAt, minAt, pc, kind, cursor, span, ent, missed>> PROVE CacheInv'
  BY <1>3 DEF CacheInv, Covered
<1>4. CASE CallbackCall
  <2>1. ASSUME NEW p, NEW t, NEW pr, Arm(p, t, pr) \/ ArmPooled(p, t, pr) \/ Withdraw(p)
        PROVE  UNCHANGED <<arr, len, dueAt, minAt, pc, kind, cursor, span, ent, missed>>
    BY <2>1 DEF Arm, ArmPooled, Withdraw, Call, listVars
  <2>2. \A d \in Delays : now + d \in Int
    BY TimesAhead DEF LoopIndInv
  <2> QED BY <1>3, <1>4, <2>1, <2>2, EnlistCovers, DelistCovers, MoveDueCovers DEF CallbackCall
<1>5. CASE LoopStep
  <2>1. ASSUME BeginPrePull \/ QueuePrepull \/ QueuePull \/ StepPending \/ ActionReturns \/ LastCleanup
        PROVE  /\ UNCHANGED <<arr, len, dueAt, minAt, missed>> /\ pc \notin {"walk", "visit"}
               /\ pc' \notin {"walk", "visit"}
    BY <2>1 DEF BeginPrePull, QueuePrepull, QueuePull, StepPending, ActionReturns, LastCleanup, listVars, walkVars
  <2>2. ASSUME NEW k \in Kinds, pc = "step", StepEnds(k) \/ StepAdvances(k) PROVE CacheInv'
    <3>1. UNCHANGED <<arr, len, dueAt>> /\ pc \notin {"walk", "visit"}
      BY <2>2 DEF StepEnds, StepAdvances, listVars
    <3>2. (UNCHANGED <<minAt, missed>> /\ pc' \notin {"walk", "visit"}) \/ StartWalk(k)
      BY <2>2 DEF StepEnds, StepAdvances, listVars, walkVars
    <3> QED BY <1>2, <2>2, <3>1, <3>2, StartWalkCovers
  <2>3. ASSUME StepSwings \/ StepTasks PROVE CacheInv'
    BY <1>1, <2>2, <2>3 DEF StepSwings, StepTasks
  <2>4. ASSUME AdvanceReturns PROVE CacheInv'
    <3>1. UNCHANGED <<arr, len, dueAt>> /\ pc \notin {"walk", "visit"}
      BY <2>4 DEF AdvanceReturns
    <3>2. (UNCHANGED <<minAt, missed>> /\ pc' \notin {"walk", "visit"}) \/ StartWalk(kind)
      BY <2>4 DEF AdvanceReturns, walkVars
    <3> QED BY <1>1, <1>2, <3>1, <3>2, StartWalkCovers
  <2>5. ASSUME WalkEnds PROVE CacheInv'
    <3>1. /\ pc = "walk" /\ cursor > span /\ pc' = "step"
          /\ UNCHANGED <<arr, len, dueAt, minAt, kind, cursor, span, ent, missed>>
      BY <2>5 DEF WalkEnds, listVars, walkVars
    <3>2. ASSUME NEW x \in Kinds, NEW i \in 1..len[x]
          PROVE  arr[x][i] \in missed \/ minAt[x] <= dueAt[arr[x][i]]
      <4>1. Covered(x, arr[x][i])
        BY DEF CacheInv
      <4>2. cursor \in Nat /\ span \in 0..Capacity /\ Capacity \in Nat
        BY ListTypes
      <4>3. ~\E j \in 1..span : j >= cursor
        BY <3>1, <4>2
      <4> QED BY <3>1, <4>1, <4>3 DEF Covered
    <3>3. \A x \in Kinds : \A i, j \in 1..len[x] : i # j => arr[x][i] # arr[x][j]
      BY DEF CacheInv
    <3> QED BY <3>1, <3>2, <3>3 DEF CacheInv, Covered
  <2>6. ASSUME NextIteration PROVE CacheInv'
    <3>1. pc' = "reset" /\ len' = [k \in Kinds |-> 0]
      BY <2>6 DEF NextIteration
    <3> QED BY <3>1 DEF CacheInv
  <2> QED BY <1>2, <1>5, <2>1, <2>3, <2>4, <2>5, <2>6, WalkCovers, WalkFiresCovers DEF LoopStep
<1>6. CASE UNCHANGED vars
  BY <1>3, <1>6 DEF vars, listVars, walkVars
<1> QED BY <1>4, <1>5, <1>6 DEF Next

\* The caches stay below the entries of their lists, except those the walk has not reached
\* and those it missed.
THEOREM CacheInvHolds == Spec => [](LoopIndInv /\ CacheInv)
<1>1. Init => CacheInv
  BY DEF Init, CacheInv, Kinds
<1>2. CacheInv /\ LoopIndInv /\ [Next]_vars => CacheInv'
  BY CacheInvStep
<1> QED BY <1>1, <1>2, LoopIndInvHolds, PTL DEF Spec

\* Outside a walk the invariant says what CacheNeverLate does.
LEMMA CacheIsLowerBound ==
  ASSUME LoopIndInv, CacheInv, pc \notin {"walk", "visit"}, NEW k \in Kinds,
         NEW e \in Live(k) \ missed
  PROVE  minAt[k] <= dueAt[e] /\ e \in Entries
<1>1. PICK i \in 1..len[k] : e = arr[k][i]
  BY DEF Live
<1> QED BY <1>1, ListTypes DEF CacheInv, Covered

\* Between events the cached times are never later than an entry of the list.
THEOREM CacheCorrect == Spec => []CacheNeverLate
<1>1. LoopIndInv /\ CacheInv => CacheNeverLate
  BY CacheIsLowerBound DEF CacheNeverLate
<1> QED BY <1>1, CacheInvHolds, PTL

\* Step turns to the earliest of the next action, the next swing and the next tick.
LEMMA StepTurnsToEarliest ==
  ASSUME LoopIndInv, pc = "step", NEW t \in Int,
         \/ SwingsNext /\ t = minAt["swing"]
         \/ TasksNext /\ t = minAt["task"]
         \/ ~SwingsNext /\ ~TasksNext /\ t = at[Top]
  PROVE  /\ \A x \in Members(pending) : t <= at[x]
         /\ \A k \in Kinds : t <= minAt[k]
         /\ ~SwingsNext /\ ~TasksNext => \A k \in Kinds : t < minAt[k]
<1>1. /\ Top \in QueueItems /\ \A x \in Members(pending) : at[Top] <= at[x]
  BY TopFacts DEF LoopIndInv
<1>2. at[Top] \in Int /\ \A x \in Members(pending) : at[x] \in Int
  BY <1>1 DEF LoopIndInv, QueueInv, Members
<1>3. minAt["swing"] \in Int /\ minAt["task"] \in Int
  BY ListTypes DEF Kinds
<1>4. t <= at[Top] /\ t <= minAt["swing"] /\ t <= minAt["task"]
  BY <1>2, <1>3 DEF SwingsNext, TasksNext
<1>5. ~SwingsNext /\ ~TasksNext => t < minAt["swing"] /\ t < minAt["task"]
  BY <1>2, <1>3 DEF SwingsNext, TasksNext
<1>6. ASSUME NEW x \in Members(pending) PROVE t <= at[x]
  BY <1>1, <1>2, <1>4
<1> QED BY <1>4, <1>5, <1>6 DEF Kinds

\* The steps from pc = "step", with the time t of the event that Step turned to.
LEMMA StepCases ==
  ASSUME LoopIndInv, [Next]_vars, pc = "step", ~UNCHANGED vars
  PROVE  \E t \in Int :
           /\ \/ SwingsNext /\ t = minAt["swing"]
              \/ TasksNext /\ t = minAt["task"]
              \/ ~SwingsNext /\ ~TasksNext /\ t = at[Top] /\ StepPending
           /\ \/ now' = now /\ pc' \notin {"advance", "action", "done"}
              \/ now' = ClockAt(t) /\ pc' # "done"
              \/ now' = now /\ t > Duration /\ pc' = "done"
           /\ SwingsNext \/ TasksNext => pc' # "action" /\ UNCHANGED <<pending, at>>
           /\ pc' = "done" => UNCHANGED <<at, listVars, missed>>
<1>1. StepSwings \/ StepTasks \/ StepPending
  <2>1. ~CallbackCall
    BY DEF CallbackCall, Arm, ArmPooled, Withdraw, Enlist, Delist, MoveDue, Call, InCallback
  <2> QED BY <2>1 DEF Next, LoopStep, BeginPrePull, QueuePrepull, QueuePull, AdvanceReturns,
             ActionReturns, WalkPasses, WalkFires, VisitReturns, WalkEnds, NextIteration, LastCleanup
<1>2. minAt["swing"] \in Int /\ minAt["task"] \in Int /\ at[Top] \in Int
  BY ListTypes, TopFacts DEF Kinds, LoopIndInv, QueueInv
<1>3. ASSUME NEW k \in Kinds, StepEnds(k) \/ StepAdvances(k)
      PROVE  /\ \/ now' = ClockAt(minAt[k]) /\ pc' # "done"
                \/ now' = now /\ minAt[k] > Duration /\ pc' = "done" /\ UNCHANGED <<listVars, missed>>
             /\ pc' # "action" /\ UNCHANGED <<pending, at>>
  BY <1>3 DEF StepEnds, StepAdvances, StartWalk, queueVars, walkVars
<1>4. ASSUME StepSwings PROVE SwingsNext /\ (StepEnds("swing") \/ StepAdvances("swing"))
  BY <1>4 DEF StepSwings
<1>5. ASSUME StepTasks PROVE TasksNext /\ (StepEnds("task") \/ StepAdvances("task"))
  BY <1>5 DEF StepTasks
<1>6. ASSUME StepPending
      PROVE  /\ ~SwingsNext /\ ~TasksNext /\ UNCHANGED <<at, listVars, missed>>
             /\ \/ now' = now /\ pc' = "step"
                \/ now' = ClockAt(at[Top]) /\ pc' # "done"
                \/ now' = now /\ at[Top] > Duration /\ pc' = "done"
  BY <1>6 DEF StepPending, walkVars
<1>7. CASE StepSwings
  BY <1>2, <1>3, <1>4, <1>7 DEF Kinds
<1>8. CASE StepTasks
  BY <1>2, <1>3, <1>5, <1>8 DEF Kinds
<1>9. CASE StepPending
  BY <1>2, <1>6, <1>9
<1> QED BY <1>1, <1>7, <1>8, <1>9

\* When the clock moves to t, nothing queued and nothing on a list was due before t.
THEOREM ClockCorrect == Spec => ClockPassesNoWork
<1> DEFINE A == now' > now /\ pc = "step" =>
                   /\ \A i \in 1..Len(pending) : at[pending[i]] >= now'
                   /\ \A k \in Kinds : \A e \in Live(k) \ missed : dueAt[e] >= now'
<1>1. ASSUME LoopIndInv, CacheInv, [Next]_vars PROVE [A]_vars
  <2> SUFFICES ASSUME now' > now, pc = "step", ~UNCHANGED vars
               PROVE  /\ \A i \in 1..Len(pending) : at[pending[i]] >= now'
                      /\ \A k \in Kinds : \A e \in Live(k) \ missed : dueAt[e] >= now'
    OBVIOUS
  <2>1. now \in Int
    BY <1>1 DEF LoopIndInv, LoopInv
  <2>2. PICK t \in Int :
           /\ \/ SwingsNext /\ t = minAt["swing"]
              \/ TasksNext /\ t = minAt["task"]
              \/ ~SwingsNext /\ ~TasksNext /\ t = at[Top]
           /\ now' = now \/ now' = ClockAt(t)
    BY <1>1, StepCases
  <2>3. now' = t
    BY <2>1, <2>2 DEF ClockAt
  <2>4. /\ \A x \in Members(pending) : t <= at[x]
        /\ \A k \in Kinds : t <= minAt[k]
    BY <1>1, <2>2, StepTurnsToEarliest
  <2>5. ASSUME NEW i \in 1..Len(pending) PROVE at[pending[i]] >= now'
    BY <2>3, <2>4 DEF Members
  <2>6. ASSUME NEW k \in Kinds, NEW e \in Live(k) \ missed PROVE dueAt[e] >= now'
    <3>1. minAt[k] <= dueAt[e] /\ e \in Entries
      BY <1>1, CacheIsLowerBound
    <3>2. minAt[k] \in Int /\ dueAt[e] \in Int /\ t <= minAt[k]
      BY <1>1, <2>4, <3>1, ListTypes
    <3> QED BY <2>3, <3>1, <3>2
  <2> QED BY <2>5, <2>6
<1> QED BY <1>1, CacheInvHolds, PTL DEF Spec, ClockPassesNoWork

\* Inside an iteration the clock never goes back.
THEOREM ClockForward == Spec => ClockMonotone
<1> DEFINE A == pc \notin {"reset", "done"} => now' >= now
<1>1. ASSUME LoopIndInv, [Next]_vars PROVE [A]_vars
  <2> SUFFICES ASSUME pc \notin {"reset", "done"}, ~UNCHANGED vars PROVE now' >= now
    OBVIOUS
  <2>1. now \in Int
    BY <1>1 DEF LoopIndInv, LoopInv
  <2>2. CASE pc = "step"
    <3>1. PICK t \in Int : now' = now \/ now' = ClockAt(t)
      BY <1>1, <2>2, StepCases
    <3> QED BY <2>1, <3>1 DEF ClockAt
  <2>3. CASE pc # "step"
    <3>1. ASSUME CallbackCall PROVE now' = now
      BY <3>1 DEF CallbackCall, Arm, ArmPooled, Withdraw, Enlist, Delist, MoveDue, Call
    <3>2. ASSUME LoopStep PROVE now' = now
      BY <2>3, <3>2 DEF LoopStep, BeginPrePull, QueuePrepull, QueuePull, StepSwings, StepTasks,
         StepPending, AdvanceReturns, ActionReturns, WalkPasses, WalkFires, VisitReturns,
         WalkEnds, NextIteration, LastCleanup
    <3> QED BY <1>1, <2>1, <3>1, <3>2 DEF Next
  <2> QED BY <2>2, <2>3
<1> QED BY <1>1, LoopIndInvHolds, PTL DEF Spec, ClockMonotone

\* When an iteration ends, nothing due by the end of combat is left over.
THEOREM EndCorrect == Spec => []EndDropsNothing
<1>1. Init => EndDropsNothing
  BY DEF Init, EndDropsNothing
<1>2. ASSUME LoopIndInv, CacheInv, EndDropsNothing, [Next]_vars PROVE EndDropsNothing'
  <2>1. CASE UNCHANGED vars
    BY <1>2, <2>1 DEF vars, queueVars, listVars, walkVars, EndDropsNothing, Live
  <2>2. CASE ~UNCHANGED vars /\ pc # "step"
    <3>1. ASSUME CallbackCall PROVE pc' # "done"
      BY <3>1 DEF CallbackCall, Arm, ArmPooled, Withdraw, Enlist, Delist, MoveDue, Call, InCallback
    <3>2. ASSUME LoopStep PROVE pc' # "done"
      BY <2>2, <3>2 DEF LoopStep, BeginPrePull, QueuePrepull, QueuePull, StepSwings, StepTasks,
         StepPending, AdvanceReturns, StartWalk, ActionReturns, WalkPasses, WalkFires, VisitReturns,
         WalkEnds, NextIteration, LastCleanup
    <3> QED BY <1>2, <2>2, <3>1, <3>2 DEF Next, EndDropsNothing
  <2>3. CASE ~UNCHANGED vars /\ pc = "step"
    <3> SUFFICES ASSUME pc' = "done" PROVE EndDropsNothing'
      BY DEF EndDropsNothing
    <3>1. PICK t \in Int :
            /\ \/ SwingsNext /\ t = minAt["swing"]
               \/ TasksNext /\ t = minAt["task"]
               \/ ~SwingsNext /\ ~TasksNext /\ t = at[Top] /\ StepPending
            /\ t > Duration /\ UNCHANGED <<at, listVars, missed>>
            /\ SwingsNext \/ TasksNext => UNCHANGED pending
      BY <1>2, <2>3, StepCases
    <3>2. \A x \in Members(pending) : t <= at[x]
      BY <1>2, <2>3, <3>1, StepTurnsToEarliest
    <3>3. \A k \in Kinds : t <= minAt[k]
      BY <1>2, <2>3, <3>1, StepTurnsToEarliest
    <3>4. Members(pending') \subseteq Members(pending)
      BY <1>2, <3>1, StepPendingFacts DEF Members
    <3>5. Duration \in Int /\ \A x \in Members(pending) : at[x] \in Int
      BY <1>2, ConstantsAssumption DEF LoopIndInv, QueueInv, Members
    <3>6. ASSUME NEW i \in 1..Len(pending') PROVE at'[pending'[i]] > Duration
      <4>1. pending'[i] \in Members(pending)
        BY <3>4 DEF Members
      <4>2. at'[pending'[i]] = at[pending'[i]]
        BY <3>1
      <4> QED BY <3>1, <3>2, <3>5, <4>1, <4>2
    <3>7. ASSUME NEW k \in Kinds, NEW e \in Live(k) \ missed PROVE dueAt[e] > Duration
      <4>1. minAt[k] <= dueAt[e] /\ e \in Entries
        BY <1>2, <2>3, CacheIsLowerBound
      <4>2. minAt[k] \in Int /\ dueAt[e] \in Int /\ t <= minAt[k]
        BY <1>2, <3>3, <4>1, ListTypes
      <4> QED BY <3>1, <3>5, <4>1, <4>2
    <3>8. dueAt' = dueAt /\ missed' = missed /\ \A k \in Kinds : Live(k)' = Live(k)
      BY <3>1 DEF listVars, Live
    <3> QED BY <3>6, <3>7, <3>8 DEF EndDropsNothing
  <2> QED BY <2>1, <2>2, <2>3
<1> QED BY <1>1, <1>2, CacheInvHolds, PTL DEF Spec

-----------------------------------------------------------------------------
(* Nothing queued is ever due in the past *)

DueInv == pc \notin {"done", "over"} => \A x \in Members(pending) : now <= at[x]

\* Every step keeps the queue free of work that is overdue.
LEMMA DueInvStep ==
  ASSUME LoopIndInv, DueInv, [Next]_vars
  PROVE  DueInv'
<1>1. /\ now \in Int /\ \A x \in Members(pending) : at[x] \in Int /\ x \in QueueItems
      /\ at \in [QueueItems -> Int] /\ at[Sentinel] = Never /\ Never \in Int /\ 0 <= Never
  <2>1. Never \in Int /\ 0 <= Never
    BY ConstantsAssumption
  <2>2. /\ at \in [QueueItems -> Int] /\ at[Sentinel] = Never
        /\ pending \in Seq(QueueItems)
    BY DEF LoopIndInv, QueueInv
  <2>3. \A x \in Members(pending) : x \in QueueItems
    BY <2>2 DEF Members
  <2>4. now \in Int
    BY DEF LoopIndInv, LoopInv
  <2> QED BY <2>1, <2>2, <2>3, <2>4
<1>2. ASSUME NEW p \in QueueItems, NEW t \in Int, now' <= t, now' <= now, pc \notin {"done", "over"},
             Members(pending') \subseteq Members(pending) \cup {p}, at' = [at EXCEPT ![p] = t],
             now' \in Int
      PROVE  DueInv'
  BY <1>1, <1>2 DEF DueInv
<1>3. ASSUME NEW p \in Owned, NEW d \in Delays, NEW pr \in Priorities, Arm(p, now + d, pr)
      PROVE  DueInv'
  <2>1. now' = now /\ pc \notin {"done", "over"}
    BY <1>3 DEF Arm, Call, InCallback
  <2>2. now + d \in Int /\ now <= now + d /\ p \in QueueItems
    BY TimesAhead DEF LoopIndInv, QueueItems, Actions
  <2> QED BY <1>1, <1>2, <1>3, <2>1, <2>2, ArmFacts
<1>4. ASSUME NEW p \in Pooled, NEW d \in Delays, NEW pr \in Priorities, ArmPooled(p, now + d, pr)
      PROVE  DueInv'
  <2>1. now' = now /\ pc \notin {"done", "over"}
    BY <1>4 DEF ArmPooled, Call, InCallback
  <2>2. now + d \in Int /\ now <= now + d /\ p \in QueueItems
    BY TimesAhead DEF LoopIndInv, QueueItems, Actions
  <2> QED BY <1>1, <1>2, <1>4, <2>1, <2>2, ArmPooledFacts
<1>5. ASSUME NEW p \in Owned, Withdraw(p) PROVE DueInv'
  <2>1. now' = now /\ pc' = pc
    BY <1>5 DEF Withdraw, Call
  <2> QED BY <1>5, <2>1, WithdrawFacts DEF DueInv
<1>6. ASSUME QueuePrepull PROVE DueInv'
  <2> DEFINE p == Prepull[cursor].action
             t == Prepull[cursor].at
  <2>1. /\ now' = now /\ pc = "prepull" /\ cursor \in 1..Len(Prepull) /\ p \in QueueItems
        /\ Members(pending') \subseteq Members(pending) \cup {p} /\ at' = [at EXCEPT ![p] = t]
    BY <1>6, QueuePrepullFacts DEF QueuePrepull, QueueItems, Actions
  <2>2. t \in Int /\ now = Prepull[1].at /\ Prepull[1].at <= t
    <3>1. Prepull # <<>>
      BY <2>1
    <3>2. now = Prepull[1].at
      BY <2>1, <3>1 DEF LoopIndInv, PrepullInv
    <3>3. cursor \in 1..Len(Prepull)
      BY <2>1
    <3>4. t \in Int /\ Prepull[1].at <= t
      BY <3>3, PrepullFacts
    <3> QED BY <3>2, <3>4
  <2>3. now' \in Int /\ now' <= now /\ now' <= t /\ pc \notin {"done", "over"}
    BY <1>1, <2>1, <2>2
  <2> HIDE DEF p, t
  <2>4. now' \in Int /\ now' <= now /\ now' <= t /\ t \in Int
    BY <2>2, <2>3
  <2> QED BY <1>2, <2>1, <2>3, <2>4
<1>7. ASSUME QueuePull PROVE DueInv'
  <2>1. now' = now /\ pc = "prepull" /\ PullAction \in QueueItems
    BY <1>7 DEF QueuePull, QueueItems, Actions
  <2>2. now <= 0
    <3>1. Prepull # <<>> => Prepull[1].at <= 0
      BY PrepullFacts
    <3> QED BY <2>1, <3>1 DEF LoopIndInv, PrepullInv
  <2> QED BY <1>1, <1>2, <1>7, <2>1, <2>2, QueuePullFacts
<1>8. ASSUME NEW t \in Int, \A x \in Members(pending) : t <= at[x],
             now' = now \/ now' = ClockAt(t), at' = at, Members(pending') \subseteq Members(pending),
             pc \notin {"done", "over"}
      PROVE  DueInv'
  BY <1>1, <1>8 DEF DueInv, ClockAt
<1>9. ASSUME pc = "step", ~UNCHANGED vars PROVE DueInv'
  <2>1. PICK t \in Int :
          /\ \/ SwingsNext /\ t = minAt["swing"]
             \/ TasksNext /\ t = minAt["task"]
             \/ ~SwingsNext /\ ~TasksNext /\ t = at[Top] /\ StepPending
          /\ now' = now \/ now' = ClockAt(t)
          /\ SwingsNext \/ TasksNext => UNCHANGED <<pending, at>>
    BY <1>9, StepCases
  <2>2. \A x \in Members(pending) : t <= at[x]
    BY <1>9, <2>1, StepTurnsToEarliest
  <2>3. at' = at /\ Members(pending') \subseteq Members(pending)
    BY <2>1, StepPendingFacts DEF Members
  <2> QED BY <1>8, <1>9, <2>1, <2>2, <2>3
<1>10. ASSUME AdvanceReturns \/ ActionReturns PROVE DueInv'
  <2>1. UNCHANGED <<pending, at, now>> /\ pc \notin {"done", "over"}
    BY <1>10 DEF AdvanceReturns, ActionReturns
  <2> QED BY <2>1 DEF DueInv, Members
<1>11. ASSUME NextIteration PROVE DueInv'
  <2>1. now' = 0
    BY <1>11 DEF NextIteration
  <2> QED BY <1>1, <1>11, <2>1, NextIterationFacts DEF DueInv
<1>12. ASSUME QuietStep, pc # "step" PROVE DueInv'
  <2>1. UNCHANGED <<pending, at>>
    BY <1>12, QuietFacts DEF queueVars
  <2>2. CASE BeginPrePull
    <3>1. /\ now' = (IF Prepull = <<>> THEN now ELSE Prepull[1].at) /\ now = 0 /\ pc = "reset"
      BY <2>2 DEF BeginPrePull, LoopIndInv, PrepullInv
    <3>2. now' \in Int /\ now' <= now
      BY <3>1, PrepullFacts
    <3> QED BY <1>1, <2>1, <3>1, <3>2 DEF DueInv, Members
  <2>3. CASE LastCleanup
    BY <2>3 DEF LastCleanup, DueInv
  <2>4. ASSUME now' = now, pc' \in {"done", "over"} \/ pc \notin {"done", "over"} PROVE DueInv'
    BY <2>1, <2>4 DEF DueInv, Members
  <2>5. ASSUME NEW k \in Kinds, NEW e \in Entries, NEW t, Enlist(k, e, t) \/ Delist(k, e) \/ MoveDue(k, e, t)
        PROVE  now' = now /\ pc \notin {"done", "over"}
    BY <2>5 DEF Enlist, Delist, MoveDue, Call, InCallback
  <2>6. ASSUME WalkPasses \/ WalkFires \/ VisitReturns \/ WalkEnds
        PROVE  now' = now /\ pc \notin {"done", "over"}
    BY <2>6 DEF WalkPasses, WalkFires, VisitReturns, WalkEnds
  <2>7. ~StepSwings /\ ~StepTasks
    BY <1>12 DEF StepSwings, StepTasks
  <2>8. UNCHANGED vars => now' = now /\ pc' = pc
    BY DEF vars
  <2>9. pc' = pc => pc' \in {"done", "over"} \/ pc \notin {"done", "over"}
    OBVIOUS
  <2> QED BY <1>12, <2>2, <2>3, <2>4, <2>5, <2>6, <2>7, <2>8, <2>9 DEF QuietStep
<1>13. ASSUME UNCHANGED vars PROVE DueInv'
  BY <1>13 DEF vars, queueVars, DueInv, Members
<1>14. CASE pc = "step"
  BY <1>9, <1>13, <1>14
<1>15. CASE pc # "step"
  <2>1. ~StepPending
    BY <1>15 DEF StepPending
  <2> QED BY <1>3, <1>4, <1>5, <1>6, <1>7, <1>10, <1>11, <1>12, <1>15, <2>1, StepKinds
<1> QED BY <1>14, <1>15

\* An action that is due now runs after every swing and every tick that is due now.
THEOREM ActionsLast == Spec => ActionsAfterSwings
<1> DEFINE A == pc = "step" /\ pc' = "action" =>
                   \A k \in Kinds : \A e \in Live(k) \ missed : dueAt[e] > now
<1>1. ASSUME LoopIndInv, CacheInv, DueInv, [Next]_vars PROVE [A]_vars
  <2> SUFFICES ASSUME pc = "step", pc' = "action", NEW k \in Kinds, NEW e \in Live(k) \ missed
               PROVE  dueAt[e] > now
    OBVIOUS
  <2>1. ~UNCHANGED vars
    BY DEF vars
  <2>2. PICK t \in Int :
          /\ \/ SwingsNext /\ t = minAt["swing"]
             \/ TasksNext /\ t = minAt["task"]
             \/ ~SwingsNext /\ ~TasksNext /\ t = at[Top]
          /\ SwingsNext \/ TasksNext => pc' # "action"
    BY <1>1, <2>1, StepCases
  <2>3. ~SwingsNext /\ ~TasksNext /\ t = at[Top]
    BY <2>2
  <2>4. \A x \in Kinds : t < minAt[x]
    BY <1>1, <2>2, <2>3, StepTurnsToEarliest
  <2>5. now <= t
    BY <1>1, <2>3, TopFacts DEF DueInv, LoopIndInv
  <2>6. minAt[k] <= dueAt[e] /\ e \in Entries
    BY <1>1, CacheIsLowerBound
  <2>7. now \in Int /\ minAt[k] \in Int /\ dueAt[e] \in Int
    BY <1>1, <2>6, ListTypes DEF LoopIndInv, LoopInv
  <2> QED BY <2>4, <2>5, <2>6, <2>7
<1>2. Init => DueInv
  BY ConstantsAssumption DEF Init, DueInv, Members
<1>3. LoopIndInv /\ DueInv /\ [Next]_vars => DueInv'
  BY DueInvStep
<1> QED BY <1>1, <1>2, <1>3, CacheInvHolds, PTL DEF Spec, ActionsAfterSwings
===============================================================================
