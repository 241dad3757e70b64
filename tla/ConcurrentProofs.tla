--------------------------- MODULE ConcurrentProofs ---------------------------
(***************************************************************************)
(* Theorems about ConcurrentSim: a success is complete, whatever the split *)
(* and the interleaving, and the run behaves towards its reader as         *)
(* SimRequest promises, but for the promise that it ends.                  *)
(***************************************************************************)
EXTENDS ConcurrentSim, SequenceTheorems, FiniteSetTheorems, WellFoundedInduction, TLAPS

-----------------------------------------------------------------------------
(* Numbers *)

\* A set of naturals with a least element.
HasLeast(T) == \E m \in T : \A k \in T : m <= k

\* A set of naturals that is not empty has a least element: what stands in for an
\* induction over a length, as a least counterexample.
LEMMA LeastNatural == ASSUME NEW T, T \subseteq Nat, T # {} PROVE HasLeast(T)
<1> DEFINE R == OpToRel(<, Nat)
<1>1. \E m \in T : \A k \in T : ~(<<k, m>> \in R)
  <2>1. IsWellFoundedOn(R, Nat)
    BY NatLessThanWellFounded
  <2> HIDE DEF R
  <2> QED BY <2>1, WFMin
<1>2. PICK m \in T : \A k \in T : ~(<<k, m>> \in OpToRel(<, Nat))
  BY <1>1
<1>3. ASSUME NEW k \in T PROVE m <= k
  <2>1. ~(<<k, m>> \in {ss \in Nat \X Nat : ss[1] < ss[2]})
    BY <1>2 DEF OpToRel
  <2>2. ~(k < m)
    BY <2>1
  <2> QED BY <2>2
<1> QED BY <1>3 DEF HasLeast

-----------------------------------------------------------------------------
(* The request *)

-----------------------------------------------------------------------------
(* Sums over the threads *)

Shares == [u \in Threads |-> Share(u)]

\* Iterations that the division leaves over go to the first thread, the rest in equal parts.
Part == Iterations \div Splits
Rest == Iterations % Splits

\* There are threads, at most one per iteration, and the parts and the rest are all.
LEMMA SplitFacts ==
  /\ Splits \in Nat /\ Splits > 0 /\ Splits <= Iterations
  /\ Part \in Nat /\ Part > 0 /\ Rest \in Nat
  /\ Splits * Part + Rest = Iterations
<1>1. Splits \in Nat /\ Splits > 0 /\ Splits <= Iterations /\ Iterations \in Nat
  BY ConcurrencyAssumption DEF Splits
<1>2. Part \in Int /\ Rest \in 0..(Splits - 1) /\ Splits * Part + Rest = Iterations
  BY <1>1 DEF Part, Rest
<1>3. Part > 0
  <2> SUFFICES ASSUME Part <= 0 PROVE FALSE
    BY <1>2
  <2>1. Splits * Part <= 0
    BY <1>1, <1>2
  <2> QED BY <1>1, <1>2, <2>1
<1> QED BY <1>1, <1>2, <1>3

\* What a thread runs.
LEMMA ShareFacts ==
  ASSUME NEW t \in Threads
  PROVE  /\ Share(t) = Part + (IF t = 1 THEN Rest ELSE 0)
         /\ Share(t) \in Nat /\ Share(t) > 0
BY SplitFacts DEF Share, Part, Rest, Threads

\* The totals of f up to m satisfy their recursive equation.
Tallies(f, m, g) ==
  g = [n \in 0..m |-> IF n = 0 THEN 0 ELSE g[n - 1] + f[n]]

\* There are such totals for every number of threads.
LEMMA TalliesExist ==
  ASSUME NEW f, NEW m \in Nat
  PROVE  \E g : Tallies(f, m, g)
<1> DEFINE T == {k \in Nat : ~\E g : Tallies(f, k, g)}
<1>1. T = {}
  <2> SUFFICES ASSUME T # {} PROVE FALSE
    OBVIOUS
  <2>1. PICK k \in T : \A j \in T : k <= j
    BY LeastNatural DEF HasLeast
  <2>2. k # 0
    <3>1. Tallies(f, 0, [n \in 0..0 |-> 0])
      BY DEF Tallies
    <3> QED BY <2>1, <3>1
  <2>3. k - 1 \in Nat /\ ~(k <= k - 1)
    BY <2>1, <2>2
  <2>4. PICK g : Tallies(f, k - 1, g)
    BY <2>1, <2>3
  <2> DEFINE h == [n \in 0..k |-> IF n = k THEN g[k - 1] + f[k] ELSE g[n]]
  <2>5. ASSUME NEW n \in 0..k
        PROVE  h[n] = IF n = 0 THEN 0 ELSE h[n - 1] + f[n]
    <3>1. CASE n = k
      BY <2>1, <2>2, <3>1
    <3>2. CASE n # k
      <4>1. n \in 0..(k - 1)
        BY <2>1, <3>2
      <4>2. g[n] = IF n = 0 THEN 0 ELSE g[n - 1] + f[n]
        BY <2>4, <4>1 DEF Tallies
      <4>3. h[n] = g[n] /\ (n # 0 => h[n - 1] = g[n - 1])
        BY <2>1, <3>2
      <4> QED BY <4>2, <4>3
    <3> QED BY <3>1, <3>2
  <2>6. Tallies(f, k, h)
    BY <2>5 DEF Tallies
  <2> QED BY <2>1, <2>6
<1> QED BY <1>1

\* The totals begin at nothing and grow by what each thread adds.
LEMMA TotalsFacts ==
  ASSUME NEW f
  PROVE  /\ Totals(f)[0] = 0
         /\ \A n \in 1..Splits : Totals(f)[n] = Totals(f)[n - 1] + f[n]
<1>1. Totals(f) = CHOOSE g : Tallies(f, Splits, g)
  BY DEF Totals, Tallies
<1>2. Tallies(f, Splits, Totals(f))
  BY <1>1, TalliesExist, SplitFacts
<1> QED BY <1>2, SplitFacts DEF Tallies

\* Sums of naturals are naturals and grow with what is summed.
LEMMA TotalsGrow ==
  ASSUME NEW f, NEW g, \A t \in Threads : f[t] \in Nat /\ g[t] \in Nat /\ f[t] <= g[t]
  PROVE  \A n \in 0..Splits : /\ Totals(f)[n] \in Nat /\ Totals(g)[n] \in Nat
                              /\ Totals(f)[n] <= Totals(g)[n]
<1> DEFINE Q(n) == Totals(f)[n] \in Nat /\ Totals(g)[n] \in Nat /\ Totals(f)[n] <= Totals(g)[n]
           T == {n \in Nat : n <= Splits /\ ~Q(n)}
<1>1. T = {}
  <2> SUFFICES ASSUME T # {} PROVE FALSE
    OBVIOUS
  <2>1. PICK k \in T : \A j \in T : k <= j
    BY LeastNatural DEF HasLeast
  <2>2. k # 0
    BY <2>1, TotalsFacts
  <2>3. k \in 1..Splits /\ k \in Threads /\ k - 1 \in 0..Splits /\ ~(k <= k - 1)
    BY <2>1, <2>2, SplitFacts DEF Threads
  <2>4. Q(k - 1)
    BY <2>1, <2>3
  <2>5. Totals(f)[k] = Totals(f)[k - 1] + f[k] /\ Totals(g)[k] = Totals(g)[k - 1] + g[k]
    BY <2>3, TotalsFacts
  <2>6. f[k] \in Nat /\ g[k] \in Nat /\ f[k] <= g[k]
    BY <2>3
  <2>7. Q(k)
    BY <2>4, <2>5, <2>6
  <2> QED BY <2>1, <2>7
<1> QED BY <1>1

\* The first seed of the next thread, and in the end the number of iterations.
LEMMA SharesTotal ==
  /\ Totals(Shares)[0] = 0
  /\ \A n \in 1..Splits : Totals(Shares)[n] = n * Part + Rest
  /\ Totals(Shares)[Splits] = Iterations
<1> DEFINE T == {n \in Nat : n \in 1..Splits /\ Totals(Shares)[n] # n * Part + Rest}
<1>1. T = {}
  <2> SUFFICES ASSUME T # {} PROVE FALSE
    OBVIOUS
  <2>1. PICK k \in T : \A j \in T : k <= j
    BY LeastNatural DEF HasLeast
  <2>2. k \in 1..Splits /\ k \in Nat
    BY <2>1, SplitFacts
  <2>3. Totals(Shares)[k] = Totals(Shares)[k - 1] + Share(k)
    <3>1. Totals(Shares)[k] = Totals(Shares)[k - 1] + Shares[k]
      BY <2>2, TotalsFacts
    <3>2. Shares[k] = Share(k)
      BY <2>2 DEF Shares, Threads
    <3> QED BY <3>1, <3>2
  <2>4. Share(k) = Part + (IF k = 1 THEN Rest ELSE 0)
    BY <2>2, ShareFacts DEF Threads
  <2>5. CASE k = 1
    BY <2>1, <2>3, <2>4, <2>5, TotalsFacts, SplitFacts
  <2>6. CASE k # 1
    <3>1. k - 1 \in 1..Splits /\ ~(k <= k - 1)
      BY <2>2, <2>6, SplitFacts
    <3>2. Totals(Shares)[k - 1] = (k - 1) * Part + Rest
      BY <2>1, <3>1
    <3>3. (k - 1) * Part + Part = k * Part
      BY <2>2, SplitFacts
    <3>4. Totals(Shares)[k] = k * Part + Rest
      <4>1. (k - 1) * Part \in Int
        BY <2>2, SplitFacts
      <4> QED BY <2>3, <2>4, <2>6, <3>2, <3>3, <4>1, SplitFacts
    <3> QED BY <2>1, <3>4
  <2> QED BY <2>5, <2>6
<1>2. Totals(Shares)[Splits] = Splits * Part + Rest
  BY <1>1, SplitFacts
<1> QED BY <1>1, <1>2, TotalsFacts, SplitFacts

\* No thread runs more than all the iterations.
LEMMA ShareBound == ASSUME NEW t \in Threads PROVE Share(t) <= Iterations
<1>1. Part <= Splits * Part /\ Splits * Part \in Int
  BY SplitFacts
<1> QED BY <1>1, SplitFacts, ShareFacts

\* What has been counted is at most all the iterations, and all of them once every share is.
LEMMA TotalFacts ==
  ASSUME NEW f \in [Threads -> Nat], \A t \in Threads : f[t] <= Share(t)
  PROVE  /\ TotalOf(f) \in 0..Iterations
         /\ (\A t \in Threads : f[t] = Share(t)) => TotalOf(f) = Iterations
<1>1. \A t \in Threads : f[t] \in Nat /\ Shares[t] \in Nat /\ f[t] <= Shares[t]
  BY ShareFacts DEF Shares
<1>2. Totals(f)[Splits] \in Nat /\ Totals(f)[Splits] <= Totals(Shares)[Splits]
  <2>1. Splits \in 0..Splits
    BY SplitFacts
  <2> QED BY <1>1, <2>1, TotalsGrow
<1>3. (\A t \in Threads : f[t] = Share(t)) => f = Shares
  BY DEF Shares
<1> QED BY <1>2, <1>3, SharesTotal, ConcurrencyAssumption DEF TotalOf

\* A count that grows makes the total grow.
LEMMA TotalGrows ==
  ASSUME NEW f, NEW g, \A t \in Threads : f[t] \in Nat /\ g[t] \in Nat /\ f[t] <= g[t]
  PROVE  TotalOf(f) <= TotalOf(g)
<1>1. Splits \in 0..Splits
  BY SplitFacts
<1> QED BY <1>1, TotalsGrow DEF TotalOf

-----------------------------------------------------------------------------
(* The seeds of a run that did every iteration *)

Complete == \A t \in Threads : ran[t] = Share(t)

\* A thread's seeds are those from where the ones before it end to where it ends.
LEMMA SeedFacts ==
  ASSUME NEW t \in Threads
  PROVE  /\ FirstSeed(t) = (IF t = 1 THEN 0 ELSE (t - 1) * Part + Rest)
         /\ FirstSeed(t) \in Nat
         /\ FirstSeed(t) + Share(t) = t * Part + Rest
<1>1. FirstSeed(t) = Totals(Shares)[t - 1]
  BY DEF FirstSeed, Shares
<1>2. t \in Nat /\ t \in 1..Splits
  BY SplitFacts DEF Threads
<1>3. CASE t = 1
  BY <1>1, <1>2, <1>3, SharesTotal, ShareFacts, SplitFacts
<1>4. CASE t # 1
  <2>1. t - 1 \in 1..Splits
    BY <1>2, <1>4, SplitFacts
  <2>2. FirstSeed(t) = (t - 1) * Part + Rest
    BY <1>1, <2>1, SharesTotal
  <2>3. (t - 1) * Part \in Nat /\ (t - 1) * Part + Part = t * Part
    BY <1>2, <2>1, SplitFacts
  <2> QED BY <1>4, <2>2, <2>3, ShareFacts, SplitFacts
<1> QED BY <1>3, <1>4

\* Every iteration has a seed of its own.
LEMMA SeedsCover ==
  ASSUME Complete
  PROVE  /\ UNION {SeedsOf(t) : t \in Threads} = 0..(Iterations - 1)
         /\ \A t, u \in Threads : t # u => SeedsOf(t) \cap SeedsOf(u) = {}
<1>1. ASSUME NEW t \in Threads, NEW j
      PROVE  j \in SeedsOf(t) <=> j \in Int /\ FirstSeed(t) <= j /\ j < t * Part + Rest
  <2>1. ran[t] = Share(t) /\ Share(t) \in Nat
    BY ShareFacts DEF Complete
  <2>2. ASSUME j \in SeedsOf(t)
        PROVE  j \in Int /\ FirstSeed(t) <= j /\ j < t * Part + Rest
    BY <2>1, <2>2, SeedFacts DEF SeedsOf
  <2>3. ASSUME j \in Int, FirstSeed(t) <= j, j < t * Part + Rest
        PROVE  j \in SeedsOf(t)
    <3>1. j - FirstSeed(t) \in 0..(Share(t) - 1) /\ j = FirstSeed(t) + (j - FirstSeed(t))
      BY <2>1, <2>3, SeedFacts
    <3> QED BY <2>1, <3>1 DEF SeedsOf
  <2> QED BY <2>2, <2>3
<1>2. ASSUME NEW t \in Threads PROVE t * Part + Rest <= Iterations
  <2>1. t \in Nat /\ t <= Splits
    BY SplitFacts DEF Threads
  <2>2. t * Part <= Splits * Part /\ t * Part \in Int /\ Splits * Part \in Int
    BY <2>1, SplitFacts
  <2> QED BY <2>2, SplitFacts
<1>3. ASSUME NEW j \in 0..(Iterations - 1)
      PROVE  \E t \in Threads : j \in SeedsOf(t)
  <2> DEFINE T == {n \in Nat : n \in 1..Splits /\ j < n * Part + Rest}
  <2>1. Splits \in T
    BY SplitFacts
  <2>2. PICK t \in T : \A n \in T : t <= n
    <3> HIDE DEF T
    <3>1. T \subseteq Nat
      BY DEF T
    <3> QED BY <2>1, <3>1, LeastNatural DEF HasLeast
  <2>3. t \in Threads /\ t \in Nat /\ j < t * Part + Rest
    BY <2>2 DEF Threads
  <2>4. FirstSeed(t) <= j
    <3>1. CASE t = 1
      BY <2>3, <3>1, SeedFacts
    <3>2. CASE t # 1
      <4>1. t - 1 \in Nat /\ t - 1 \in 1..Splits /\ ~(t <= t - 1)
        BY <2>3, <3>2, SplitFacts DEF Threads
      <4>2. ~(j < (t - 1) * Part + Rest)
        BY <2>2, <4>1
      <4>3. FirstSeed(t) = (t - 1) * Part + Rest /\ FirstSeed(t) \in Nat
        BY <2>3, <3>2, SeedFacts
      <4> QED BY <4>2, <4>3
    <3> QED BY <3>1, <3>2
  <2> QED BY <1>1, <2>3, <2>4
<1>4. ASSUME NEW t \in Threads, NEW u \in Threads, t < u
      PROVE  SeedsOf(t) \cap SeedsOf(u) = {}
  <2>1. t \in Nat /\ u \in Nat /\ t <= u - 1 /\ u # 1
    BY <1>4, SplitFacts DEF Threads
  <2>2. t * Part <= (u - 1) * Part /\ t * Part \in Int /\ (u - 1) * Part \in Int
    BY <2>1, SplitFacts
  <2>3. t * Part + Rest <= FirstSeed(u) /\ FirstSeed(u) \in Nat /\ t * Part + Rest \in Int
    BY <2>1, <2>2, SeedFacts, SplitFacts
  <2> SUFFICES ASSUME NEW j \in SeedsOf(t), j \in SeedsOf(u) PROVE FALSE
    OBVIOUS
  <2>4. j \in Int /\ j < t * Part + Rest /\ FirstSeed(u) <= j
    BY <1>1
  <2> QED BY <2>3, <2>4
<1>5. UNION {SeedsOf(t) : t \in Threads} \subseteq 0..(Iterations - 1)
  <2> SUFFICES ASSUME NEW t \in Threads, NEW j \in SeedsOf(t) PROVE j \in 0..(Iterations - 1)
    OBVIOUS
  <2>1. j \in Int /\ FirstSeed(t) <= j /\ j < t * Part + Rest
    BY <1>1
  <2>2. t * Part \in Int
    BY SplitFacts DEF Threads
  <2> QED BY <1>2, <2>1, <2>2, SeedFacts, SplitFacts, ConcurrencyAssumption
<1>6. ASSUME NEW t \in Threads, NEW u \in Threads, t # u
      PROVE  SeedsOf(t) \cap SeedsOf(u) = {}
  <2>1. t < u \/ u < t
    BY <1>6, SplitFacts DEF Threads
  <2>2. SeedsOf(u) \cap SeedsOf(t) = {} => SeedsOf(t) \cap SeedsOf(u) = {}
    OBVIOUS
  <2> QED BY <1>4, <2>1, <2>2
<1> QED BY <1>3, <1>5, <1>6

-----------------------------------------------------------------------------
(* Messages, and what the reader of a sequence of them hears last *)

IsFinal(m) == m.kind = "final"
Failed(m) == IsFinal(m) /\ m.result # "ok"

\* A message is a report or an outcome.
LEMMA MessageFacts ==
  ASSUME NEW m \in Messages
  PROVE  /\ m.done \in 0..Iterations
         /\ \/ ~IsFinal(m) /\ m.result = "none" /\ m = Progress(m.done)
            \/ IsFinal(m) /\ m.result \in {"ok", "aborted", "error"} /\ m = Final(m.done, m.result)
BY DEF Messages, Progress, Final, IsFinal

\* The fields of a report and of an outcome.
LEMMA FieldFacts ==
  ASSUME NEW n \in 0..Iterations
  PROVE  /\ Progress(n) \in Messages /\ ~IsFinal(Progress(n)) /\ ~Failed(Progress(n))
         /\ Progress(n).done = n /\ Progress(n).result = "none"
         /\ \A r \in {"ok", "aborted", "error"} :
               /\ Final(n, r) \in Messages /\ IsFinal(Final(n, r))
               /\ Final(n, r).done = n /\ Final(n, r).result = r
BY DEF Messages, Progress, Final, IsFinal, Failed

Silent(s) == \A i \in 1..Len(s) : ~IsFinal(s[i])
FirstFinal(s, k) == k \in 1..Len(s) /\ IsFinal(s[k]) /\ \A i \in 1..(k - 1) : ~IsFinal(s[i])

\* LastHeard of a sequence.
LastOf(s) ==
    LET finals == {i \in DOMAIN s : s[i].kind = "final"}
        h == IF finals = {} THEN s ELSE SubSeq(s, 1, Min(finals))
    IN  IF h = <<>> THEN Progress(0) ELSE Last(h)

\* What is heard last is the first outcome, or the last report while there is none.
LEMMA HeardFacts ==
  ASSUME NEW s \in Seq(Messages)
  PROVE  /\ Silent(s) => LastOf(s) = IF s = <<>> THEN Progress(0) ELSE s[Len(s)]
         /\ \A k : FirstFinal(s, k) => LastOf(s) = s[k]
         /\ ~Silent(s) => \E k : FirstFinal(s, k)
<1> DEFINE F == {i \in DOMAIN s : s[i].kind = "final"}
<1>1. DOMAIN s = 1..Len(s) /\ Len(s) \in Nat
  OBVIOUS
<1>2. ASSUME Silent(s) PROVE LastOf(s) = IF s = <<>> THEN Progress(0) ELSE s[Len(s)]
  <2>1. F = {}
    BY <1>1, <1>2 DEF Silent, IsFinal
  <2> QED BY <2>1 DEF LastOf, Last
<1>3. ASSUME NEW k, FirstFinal(s, k) PROVE LastOf(s) = s[k]
  <2>1. k \in F /\ \A i \in F : k <= i
    BY <1>1, <1>3 DEF FirstFinal, IsFinal
  <2>2. Min(F) = k
    <3>1. F \subseteq Int
      BY <1>1
    <3>2. Min(F) = CHOOSE x \in F : \A y \in F : x <= y
      BY DEF Min
    <3> HIDE DEF F
    <3>3. Min(F) \in F /\ \A y \in F : Min(F) <= y
      BY <2>1, <3>2
    <3>4. Min(F) \in Int /\ k \in Int /\ Min(F) <= k /\ k <= Min(F)
      BY <2>1, <3>1, <3>3
    <3> QED BY <3>4
  <2>3. LastOf(s) = IF SubSeq(s, 1, k) = <<>> THEN Progress(0) ELSE Last(SubSeq(s, 1, k))
    BY <2>1, <2>2 DEF LastOf
  <2>4. k \in 1..Len(s)
    BY <1>3 DEF FirstFinal
  <2>5. Len(SubSeq(s, 1, k)) = k /\ SubSeq(s, 1, k)[k] = s[k] /\ SubSeq(s, 1, k) # <<>>
    BY <1>1, <2>4
  <2> QED BY <2>3, <2>5 DEF Last
<1>4. ASSUME ~Silent(s) PROVE \E k : FirstFinal(s, k)
  <2> DEFINE T == {i \in Nat : i \in 1..Len(s) /\ IsFinal(s[i])}
  <2>1. T # {}
    BY <1>1, <1>4 DEF Silent
  <2>2. PICK k \in T : \A i \in T : k <= i
    <3> HIDE DEF T
    <3>1. T \subseteq Nat
      BY DEF T
    <3> QED BY <2>1, <3>1, LeastNatural DEF HasLeast
  <2>3. FirstFinal(s, k)
    <3>1. ASSUME NEW i \in 1..(k - 1) PROVE ~IsFinal(s[i])
      <4>1. i \in Nat /\ i \in 1..Len(s) /\ ~(k <= i)
        BY <1>1, <2>2
      <4> QED BY <2>2, <4>1
    <3> QED BY <2>2, <3>1 DEF FirstFinal
  <2> QED BY <2>3
<1> QED BY <1>2, <1>3, <1>4

-----------------------------------------------------------------------------
(* A thread's channel *)

Ended == {"close", "done"}

\* What thread t, at p with r iterations done, has sent and the parent not yet received:
\* counts that grow up to r, then at most one outcome, which tells the truth.
GoodChan(t, s, p, r) ==
    /\ \A i \in 1..Len(s) :
         /\ IsFinal(s[i]) => i = Len(s) /\ p \in Ended
         /\ Failed(s[i]) => s[i].done = 0
         /\ ~Failed(s[i]) => s[i].done <= r
         /\ s[i].result = "ok" => s[i].done = Share(t) /\ r = Share(t)
    /\ \A i, j \in 1..Len(s) : i <= j /\ ~Failed(s[j]) => s[i].done <= s[j].done

\* The parent's count d for a thread is behind what the thread did and will tell.
Counted(s, d, r) ==
    /\ d <= r
    /\ \A i \in 1..Len(s) : ~Failed(s[i]) => d <= s[i].done

\* A thread that has not ended sends a report of what it did, or an outcome.
LEMMA GoodAppend ==
  ASSUME NEW t \in Threads, NEW s \in Seq(Messages), NEW m \in Messages, NEW p, NEW q, NEW r \in Nat,
         GoodChan(t, s, p, r), p \notin Ended,
         IsFinal(m) => q \in Ended, Failed(m) => m.done = 0, ~Failed(m) => m.done = r,
         m.result = "ok" => r = Share(t),
         NEW d \in Nat
  PROVE  /\ GoodChan(t, Append(s, m), q, r)
         /\ Counted(s, d, r) => Counted(Append(s, m), d, r)
<1> DEFINE a == Append(s, m)
           n == Len(s)
<1>1. n \in Nat /\ Len(a) = n + 1 /\ a[n + 1] = m
  OBVIOUS
<1>2. \A i \in 1..n : a[i] = s[i] /\ s[i] \in Messages
  OBVIOUS
<1>3. \A i \in 1..n : ~IsFinal(s[i]) /\ ~Failed(s[i]) /\ s[i].done <= r /\ s[i].result = "none"
  BY <1>2, MessageFacts DEF GoodChan, Failed
<1>4. m.result = "ok" => IsFinal(m) /\ ~Failed(m)
  BY MessageFacts DEF Failed
<1>5. \A i \in 1..(n + 1) : i \in 1..n \/ i = n + 1
  BY <1>1
<1> HIDE DEF a, n
<1>6. \A i \in 1..Len(a) :
         /\ IsFinal(a[i]) => i = Len(a) /\ q \in Ended
         /\ Failed(a[i]) => a[i].done = 0
         /\ ~Failed(a[i]) => a[i].done <= r
         /\ a[i].result = "ok" => a[i].done = Share(t) /\ r = Share(t)
  <2> SUFFICES ASSUME NEW i \in 1..(n + 1)
               PROVE  /\ IsFinal(a[i]) => i = n + 1 /\ q \in Ended
                      /\ Failed(a[i]) => a[i].done = 0
                      /\ ~Failed(a[i]) => a[i].done <= r
                      /\ a[i].result = "ok" => a[i].done = Share(t) /\ r = Share(t)
    BY <1>1
  <2>1. CASE i \in 1..n
    BY <1>2, <1>3, <2>1
  <2>2. CASE i = n + 1
    BY <1>1, <1>4, <2>2
  <2> QED BY <1>5, <2>1, <2>2
<1>7. ASSUME NEW i \in 1..(n + 1), NEW j \in 1..(n + 1), i <= j, ~Failed(a[j])
      PROVE  a[i].done <= a[j].done
  <2>1. CASE j \in 1..n
    <3>1. i \in 1..n
      BY <1>1, <1>7, <2>1
    <3>2. s[i].done <= s[j].done
      BY <1>2, <1>3, <1>7, <2>1, <3>1 DEF GoodChan, n
    <3> QED BY <1>2, <2>1, <3>1, <3>2
  <2>2. CASE j = n + 1
    <3>1. a[j] = m /\ m.done = r
      BY <1>1, <1>7, <2>2
    <3>2. CASE i \in 1..n
      BY <1>2, <1>3, <3>1, <3>2
    <3>3. CASE i = n + 1
      BY <1>1, <3>1, <3>3
    <3> QED BY <1>5, <3>2, <3>3
  <2> QED BY <1>5, <2>1, <2>2
<1>8. GoodChan(t, a, q, r)
  BY <1>1, <1>6, <1>7 DEF GoodChan
<1>9. ASSUME Counted(s, d, r) PROVE Counted(a, d, r)
  <2> SUFFICES ASSUME NEW i \in 1..(n + 1), ~Failed(a[i]) PROVE d <= a[i].done
    BY <1>1, <1>9 DEF Counted
  <2>1. CASE i \in 1..n
    BY <1>2, <1>3, <1>9, <2>1 DEF Counted, n
  <2>2. CASE i = n + 1
    BY <1>1, <1>9, <2>2 DEF Counted
  <2> QED BY <1>5, <2>1, <2>2
<1> QED BY <1>8, <1>9 DEF a

\* A thread that goes on without a word.
LEMMA GoodLater ==
  ASSUME NEW t \in Threads, NEW s \in Seq(Messages), NEW p, NEW q, NEW r \in Nat, NEW r2 \in Nat,
         GoodChan(t, s, p, r), p \in Ended => q \in Ended, r <= r2, r = Share(t) => r2 = r,
         NEW d \in Nat
  PROVE  /\ GoodChan(t, s, q, r2)
         /\ Counted(s, d, r) => Counted(s, d, r2)
<1>1. \A i \in 1..Len(s) : s[i].done \in Nat
  BY MessageFacts
<1> QED BY <1>1, ShareFacts DEF GoodChan, Counted

\* The parent receives.
LEMMA GoodTail ==
  ASSUME NEW t \in Threads, NEW s \in Seq(Messages), s # <<>>, NEW p, NEW r \in Nat,
         GoodChan(t, s, p, r), NEW d \in Nat
  PROVE  /\ GoodChan(t, Tail(s), p, r)
         /\ Counted(s, d, r) => Counted(Tail(s), d, r)
         /\ ~Failed(s[1]) => s[1].done <= r /\ Counted(Tail(s), s[1].done, r)
         /\ Counted(s, d, r) /\ ~Failed(s[1]) => d <= s[1].done
<1> DEFINE b == Tail(s)
           n == Len(b)
<1>1. n \in Nat /\ Len(s) = n + 1 /\ \A i \in 1..n : b[i] = s[i + 1] /\ i + 1 \in 1..Len(s)
  OBVIOUS
<1>2. 1 \in 1..Len(s) /\ s[1] \in Messages /\ \A i \in 1..Len(s) : s[i] \in Messages /\ s[i].done \in Nat
  BY <1>1, MessageFacts
<1> HIDE DEF b, n
<1>3. \A i \in 1..n :
         /\ IsFinal(b[i]) => i = n /\ p \in Ended
         /\ Failed(b[i]) => b[i].done = 0
         /\ ~Failed(b[i]) => b[i].done <= r
         /\ b[i].result = "ok" => b[i].done = Share(t) /\ r = Share(t)
  <2> TAKE i \in 1..n
  <2>1. b[i] = s[i + 1] /\ i + 1 \in 1..Len(s) /\ (i + 1 = Len(s) => i = n)
    BY <1>1
  <2> QED BY <2>1 DEF GoodChan
<1>4. ASSUME NEW i \in 1..n, NEW j \in 1..n, i <= j, ~Failed(b[j]) PROVE b[i].done <= b[j].done
  <2>1. b[i] = s[i + 1] /\ b[j] = s[j + 1] /\ i + 1 \in 1..Len(s) /\ j + 1 \in 1..Len(s) /\ i + 1 <= j + 1
    BY <1>1, <1>4
  <2> QED BY <1>4, <2>1 DEF GoodChan
<1>5. GoodChan(t, b, p, r)
  BY <1>3, <1>4 DEF GoodChan, n
<1>6. ASSUME Counted(s, d, r) PROVE Counted(b, d, r)
  <2> SUFFICES ASSUME NEW i \in 1..n, ~Failed(b[i]) PROVE d <= b[i].done
    BY <1>6 DEF Counted, n
  <2>1. b[i] = s[i + 1] /\ i + 1 \in 1..Len(s)
    BY <1>1
  <2> QED BY <1>6, <2>1 DEF Counted
<1>7. ASSUME ~Failed(s[1]) PROVE s[1].done <= r /\ Counted(b, s[1].done, r)
  <2>1. s[1].done <= r
    BY <1>2, <1>7 DEF GoodChan
  <2> SUFFICES ASSUME NEW i \in 1..n, ~Failed(b[i]) PROVE s[1].done <= b[i].done
    BY <2>1 DEF Counted, n
  <2>2. b[i] = s[i + 1] /\ i + 1 \in 1..Len(s) /\ 1 <= i + 1
    BY <1>1
  <2> QED BY <1>2, <2>2 DEF GoodChan
<1>8. Counted(s, d, r) /\ ~Failed(s[1]) => d <= s[1].done
  BY <1>2 DEF Counted
<1> QED BY <1>5, <1>6, <1>7, <1>8 DEF b

-----------------------------------------------------------------------------
(* The inductive invariant *)

RunTypes == TypeOK /\ ran \in [Threads -> Nat] /\ chan \in [Threads -> Seq(Messages)]

ThreadPlaces == {"start", "presim", "iterate", "poll", "report", "succeed", "quit", "fail", "close", "done"}

\* What a thread has run, by the place it stands at.
ThreadOK(t) ==
    /\ tpc[t] \in {"start", "presim"} => ran[t] = 0
    /\ tpc[t] \in {"iterate", "poll", "report"} => ran[t] < Share(t)
    /\ tpc[t] = "succeed" => ran[t] = Share(t)

ThreadInv ==
    \A t \in Threads :
        /\ ThreadOK(t)
        /\ GoodChan(t, chan[t], tpc[t], ran[t])
        /\ doneBy[t] <= Share(t)

\* While the parent adds reports up, each count is behind its thread, and a final result it
\* has taken is a success: that thread is out of the select.
Adding == ppc \in {"select", "send"}
CountInv ==
    Adding => \A t \in Threads :
        /\ Counted(chan[t], doneBy[t], ran[t])
        /\ final[t] \in {Nil, "ok"}
        /\ final[t] = "ok" => t \notin open /\ doneBy[t] = Share(t) /\ ran[t] = Share(t)

\* What the parent is about to send.
HeldInv ==
    /\ ppc = "send" => held = Progress(TotalOf(doneBy))
    /\ ppc = "sendLast" => \/ held = Final(0, "aborted")
                           \/ held = Final(Iterations, "ok") /\ Complete
    /\ ppc = "sendError" => held \in {Final(0, "aborted"), Final(0, "error")}
    /\ ppc = "sendPanic" => held = Final(0, "error")

\* What it has sent: no outcome before the run's end, one at least behind it, no report above
\* the count, and a success only of a complete run.
NoOutcomeYet == ppc \in {"select", "send", "sendLast", "sendError"}
OutcomeSent == ppc \in {"trigger", "closeSignal", "closeOut", "done"}
Truthful(m) == m.result = "ok" => m.done = Iterations /\ Complete
SaidInv ==
    /\ NoOutcomeYet => Silent(Said)
    /\ OutcomeSent => ~Silent(Said)
    /\ Adding /\ Said # <<>> => Said[Len(Said)].done <= TotalOf(doneBy)
    /\ \A i \in 1..Len(Said) : Truthful(Said[i])
    /\ outClosed <=> ppc = "done"

RunInv == RunTypes /\ ThreadInv /\ CountInv /\ HeldInv /\ SaidInv

\* What was said is a sequence of messages.
LEMMA SaidType == ASSUME TypeOK PROVE Said \in Seq(Messages) /\ Len(Said) \in Nat
BY DEF TypeOK, Said

\* The invariant holds at the start.
LEMMA RunInit == Init => RunInv
<1> SUFFICES ASSUME Init PROVE RunInv
  OBVIOUS
<1>1. \A t \in Threads : Share(t) \in Nat /\ Share(t) > 0
  BY ShareFacts
<1>2. <<>> \in Seq(Messages) /\ Len(<<>>) = 0
  OBVIOUS
<1>3. Said = <<>>
  BY DEF Init, Said
<1>4. RunTypes
  <2>1. 0 \in 0..(Splits - 1) /\ 0 \in 0..Iterations
    BY SplitFacts, ConcurrencyAssumption
  <2>2. ran \in [Threads -> Nat] /\ chan \in [Threads -> Seq(Messages)] /\ doneBy \in [Threads -> 0..Iterations]
    BY <1>2, <2>1 DEF Init
  <2>3. \A t \in Threads : ran[t] \in 0..Share(t) /\ chan[t] \in Seq(Messages) /\ Len(chan[t]) <= Cap
    BY <1>1, <1>2, ConcurrencyAssumption DEF Init
  <2>4. tpc \in [Threads -> ThreadPlaces]
    BY DEF Init, ThreadPlaces
  <2>5. closed \in [Threads -> BOOLEAN] /\ final \in [Threads -> {Nil, "ok", "aborted", "error"}]
    BY DEF Init
  <2>6. /\ out \in Seq(Messages) /\ Len(out) <= OutCap
        /\ consumed \in Seq(Messages) /\ Len(consumed) <= 1
    BY <1>2, ConcurrencyAssumption DEF Init
  <2>7. /\ ppc = "select" /\ open = Threads /\ reports \in 0..(Splits - 1)
        /\ held = Nil /\ outClosed = FALSE /\ abort = FALSE /\ closing = {}
    BY <2>1 DEF Init
  <2> QED BY <2>2, <2>3, <2>4, <2>5, <2>6, <2>7 DEF RunTypes, TypeOK, ThreadPlaces
<1>5. ThreadInv
  BY <1>1, <1>2 DEF Init, ThreadInv, ThreadOK, GoodChan
<1>6. CountInv
  BY <1>2, ConcurrencyAssumption DEF Init, CountInv, Counted, Adding
<1>7. HeldInv
  BY DEF Init, HeldInv
<1>8. SaidInv
  BY <1>2, <1>3 DEF Init, SaidInv, Silent, NoOutcomeYet, OutcomeSent
<1> QED BY <1>4, <1>5, <1>6, <1>7, <1>8 DEF RunInv

-----------------------------------------------------------------------------
(* The steps of a thread *)

\* A thread touches only what is its own.
LEMMA ThreadFrame ==
  ASSUME NEW t \in Threads, ThreadStep(t), RunTypes
  PROVE  /\ UNCHANGED <<parentVars, outVars, abort, closing>>
         /\ \A u \in Threads \ {t} : /\ tpc'[u] = tpc[u] /\ ran'[u] = ran[u]
                                     /\ chan'[u] = chan[u] /\ closed'[u] = closed[u]
<1> USE DEF Goes, Sends, StaysSilent, parentVars, outVars
<1> tpc \in [Threads -> ThreadPlaces] /\ ran \in [Threads -> Nat] /\ chan \in [Threads -> Seq(Messages)]
      /\ closed \in [Threads -> BOOLEAN]
  BY DEF RunTypes, TypeOK, ThreadPlaces
<1>1. CASE AnnouncePresim(t) BY <1>1 DEF AnnouncePresim
<1>2. CASE AbandonPresim(t) BY <1>2 DEF AbandonPresim
<1>3. CASE AnnounceRun(t) BY <1>3 DEF AnnounceRun
<1>4. CASE Iterate(t) BY <1>4 DEF Iterate
<1>5. CASE Poll(t) BY <1>5 DEF Poll
<1>6. CASE Report(t) BY <1>6 DEF Report
<1>7. CASE SkipReport(t) BY <1>7 DEF SkipReport
<1>8. CASE Fail(t) BY <1>8 DEF Fail
<1>9. CASE Succeed(t) BY <1>9 DEF Succeed
<1>10. CASE Quit(t) BY <1>10 DEF Quit
<1>11. CASE FailFinally(t) BY <1>11 DEF FailFinally
<1>12. CASE CloseChannel(t) BY <1>12 DEF CloseChannel
<1> QED BY <1>1, <1>2, <1>3, <1>4, <1>5, <1>6, <1>7, <1>8, <1>9, <1>10, <1>11, <1>12 DEF ThreadStep

\* How a thread steps: it sends what it has to say at its place, or goes on in silence.
SaysIt(t, m) ==
    /\ tpc[t] \notin Ended /\ m \in Messages
    /\ Len(chan[t]) < Cap /\ chan'[t] = Append(chan[t], m)
    /\ ran'[t] = ran[t]
    /\ IsFinal(m) => tpc'[t] \in Ended
    /\ Failed(m) => m.done = 0
    /\ ~Failed(m) => m.done = ran[t]
    /\ m.result = "ok" => ran[t] = Share(t)
GoesOn(t) ==
    /\ chan'[t] = chan[t]
    /\ tpc[t] \in Ended => tpc'[t] \in Ended
    /\ ran'[t] \in 0..Share(t) /\ ran[t] <= ran'[t]
    /\ ran[t] = Share(t) => ran'[t] = ran[t]

\* Each step of a thread is one or the other, and keeps its types and what it has run.
LEMMA ThreadMoves ==
  ASSUME NEW t \in Threads, ThreadStep(t), RunInv
  PROVE  /\ (\E m : SaysIt(t, m)) \/ GoesOn(t)
         /\ ThreadOK(t)'
         /\ tpc' \in [Threads -> ThreadPlaces] /\ ran' \in [Threads -> Nat]
         /\ chan' \in [Threads -> Seq(Messages)] /\ closed' \in [Threads -> BOOLEAN]
<1> DEFINE Moved == /\ tpc' \in [Threads -> ThreadPlaces] /\ ran' \in [Threads -> Nat]
                    /\ chan' \in [Threads -> Seq(Messages)] /\ closed' \in [Threads -> BOOLEAN]
<1>1. /\ tpc \in [Threads -> ThreadPlaces] /\ ran \in [Threads -> Nat]
      /\ chan \in [Threads -> Seq(Messages)] /\ closed \in [Threads -> BOOLEAN]
      /\ ran[t] \in 0..Share(t)
  BY DEF RunInv, RunTypes, TypeOK, ThreadPlaces
<1>2. ThreadOK(t)
  BY DEF RunInv, ThreadInv
<1>3. Share(t) \in 0..Iterations /\ Share(t) > 0 /\ Iterations \in Nat /\ 0 \in 0..Iterations /\ ran[t] \in 0..Iterations
  BY <1>1, ShareFacts, ShareBound, ConcurrencyAssumption
<1>4. /\ Progress(0) \in Messages /\ ~IsFinal(Progress(0)) /\ ~Failed(Progress(0))
      /\ Progress(0).done = 0 /\ Progress(0).result = "none"
      /\ Progress(ran[t]) \in Messages /\ ~IsFinal(Progress(ran[t])) /\ ~Failed(Progress(ran[t]))
      /\ Progress(ran[t]).done = ran[t] /\ Progress(ran[t]).result = "none"
  BY <1>3, FieldFacts
<1>5. ASSUME NEW n \in 0..Iterations, NEW r \in {"ok", "aborted", "error"}
      PROVE  /\ Final(n, r) \in Messages /\ IsFinal(Final(n, r)) /\ Final(n, r).done = n
             /\ Final(n, r).result = r /\ (Failed(Final(n, r)) <=> r # "ok")
  BY FieldFacts DEF Failed
<1> USE DEF Goes, ThreadPlaces, Ended, ThreadOK
<1>11. CASE AnnouncePresim(t)
  <2>1. SaysIt(t, Progress(0))
    BY <1>1, <1>2, <1>4, <1>11 DEF AnnouncePresim, Sends, SaysIt
  <2>2. ThreadOK(t)' /\ Moved
    BY <1>1, <1>2, <1>4, <1>11 DEF AnnouncePresim, Sends
  <2> QED BY <2>1, <2>2
<1>12. CASE AbandonPresim(t)
  BY <1>1, <1>2, <1>12 DEF AbandonPresim, StaysSilent, GoesOn
<1>13. CASE AnnounceRun(t)
  <2>1. SaysIt(t, Progress(0))
    BY <1>1, <1>2, <1>4, <1>13 DEF AnnounceRun, Sends, SaysIt
  <2>2. ThreadOK(t)' /\ Moved
    BY <1>1, <1>2, <1>3, <1>4, <1>13 DEF AnnounceRun, Sends
  <2> QED BY <2>1, <2>2
<1>14. CASE Iterate(t)
  <2>1. ran[t] < Share(t) /\ ran' = [ran EXCEPT ![t] = ran[t] + 1] /\ ran'[t] = ran[t] + 1
    BY <1>1, <1>2, <1>14 DEF Iterate
  <2>2. /\ chan' = chan /\ closed' = closed
        /\ tpc' = [tpc EXCEPT ![t] = IF ran[t] + 1 = Share(t) THEN "succeed" ELSE "poll"]
        /\ tpc[t] = "iterate"
    BY <1>14 DEF Iterate, StaysSilent
  <2>3. GoesOn(t)
    BY <1>1, <1>3, <2>1, <2>2 DEF GoesOn
  <2>4. ThreadOK(t)'
    BY <1>1, <1>3, <2>1, <2>2
  <2>5. Moved
    BY <1>1, <2>1, <2>2
  <2> QED BY <2>3, <2>4, <2>5
<1>15. CASE Poll(t)
  BY <1>1, <1>2, <1>15 DEF Poll, StaysSilent, GoesOn
<1>16. CASE Report(t)
  <2>1. SaysIt(t, Progress(ran[t]))
    BY <1>1, <1>2, <1>4, <1>16 DEF Report, Sends, SaysIt
  <2>2. ThreadOK(t)' /\ Moved
    BY <1>1, <1>2, <1>4, <1>16 DEF Report, Sends
  <2> QED BY <2>1, <2>2
<1>17. CASE SkipReport(t)
  BY <1>1, <1>2, <1>17 DEF SkipReport, StaysSilent, GoesOn
<1>18. CASE Fail(t)
  BY <1>1, <1>2, <1>18 DEF Fail, StaysSilent, GoesOn
<1>19. CASE Succeed(t)
  <2>1. SaysIt(t, Final(Share(t), "ok"))
    BY <1>1, <1>2, <1>3, <1>5, <1>19 DEF Succeed, Sends, SaysIt
  <2>2. ThreadOK(t)' /\ Moved
    BY <1>1, <1>2, <1>3, <1>5, <1>19 DEF Succeed, Sends
  <2> QED BY <2>1, <2>2
<1>20. CASE Quit(t)
  <2>1. SaysIt(t, Final(0, "aborted"))
    BY <1>1, <1>2, <1>3, <1>5, <1>20 DEF Quit, Sends, SaysIt
  <2>2. ThreadOK(t)' /\ Moved
    BY <1>1, <1>2, <1>3, <1>5, <1>20 DEF Quit, Sends
  <2> QED BY <2>1, <2>2
<1>21. CASE FailFinally(t)
  <2>1. SaysIt(t, Final(0, "error"))
    BY <1>1, <1>2, <1>3, <1>5, <1>21 DEF FailFinally, Sends, SaysIt
  <2>2. ThreadOK(t)' /\ Moved
    BY <1>1, <1>2, <1>3, <1>5, <1>21 DEF FailFinally, Sends
  <2> QED BY <2>1, <2>2
<1>22. CASE CloseChannel(t)
  BY <1>1, <1>2, <1>22 DEF CloseChannel, GoesOn
<1> QED BY <1>11, <1>12, <1>13, <1>14, <1>15, <1>16, <1>17, <1>18, <1>19, <1>20, <1>21, <1>22 DEF ThreadStep

\* A run that is complete stays so.
LEMMA CompleteStays ==
  ASSUME RunInv, NEW t \in Threads, ThreadStep(t), Complete
  PROVE  Complete'
<1>1. tpc[t] \in {"iterate"} => ran[t] < Share(t)
  BY DEF RunInv, ThreadInv, ThreadOK
<1>2. ran'[t] = ran[t]
  <2>1. CASE \E m : SaysIt(t, m)
    BY <2>1 DEF SaysIt
  <2>2. CASE GoesOn(t)
    BY <2>2 DEF GoesOn, Complete
  <2> QED BY <2>1, <2>2, ThreadMoves
<1>3. \A u \in Threads \ {t} : ran'[u] = ran[u]
  BY ThreadFrame DEF RunInv
<1> QED BY <1>2, <1>3 DEF Complete

\* A step that leaves the request's channel alone.
LEMMA SaidKept ==
  ASSUME RunInv, UNCHANGED outVars, Complete => Complete',
         NoOutcomeYet' => NoOutcomeYet, OutcomeSent' => OutcomeSent,
         Adding' => Adding /\ TotalOf(doneBy) <= TotalOf(doneBy'),
         \A t \in Threads : doneBy'[t] \in Nat /\ doneBy'[t] <= Share(t),
         doneBy' \in [Threads -> Nat],
         (ppc' = "done") <=> (ppc = "done")
  PROVE  SaidInv'
<1>1. Said' = Said /\ outClosed' = outClosed
  BY DEF Said, outVars
<1>2. SaidInv /\ TypeOK
  BY DEF RunInv, RunTypes
<1>3. NoOutcomeYet' => Silent(Said)'
  BY <1>1, <1>2 DEF SaidInv, Silent
<1>4. OutcomeSent' => ~Silent(Said)'
  BY <1>1, <1>2 DEF SaidInv, Silent
<1>5. ASSUME Adding', Said' # <<>> PROVE Said'[Len(Said')].done <= TotalOf(doneBy')
  <2>1. Said[Len(Said)].done <= TotalOf(doneBy)
    BY <1>1, <1>2, <1>5 DEF SaidInv
  <2>2. Said[Len(Said)] \in Messages
    BY <1>1, <1>2, <1>5, SaidType
  <2>3. Said[Len(Said)].done \in Nat
    BY <2>2, MessageFacts
  <2>4. doneBy \in [Threads -> Nat] /\ \A t \in Threads : doneBy[t] <= Share(t)
    BY <1>2 DEF TypeOK, RunInv, ThreadInv
  <2>5. TotalOf(doneBy) \in Nat /\ TotalOf(doneBy') \in Nat
    BY <2>4, TotalFacts
  <2> QED BY <1>1, <1>5, <2>1, <2>3, <2>5
<1>6. (\A i \in 1..Len(Said) : Truthful(Said[i]))'
  BY <1>1, <1>2 DEF SaidInv, Truthful
<1>7. outClosed' <=> ppc' = "done"
  BY <1>1, <1>2 DEF SaidInv
<1>8. TotalOf(doneBy)' = TotalOf(doneBy')
  BY DEF TotalOf, Totals
<1> QED BY <1>3, <1>4, <1>5, <1>6, <1>7, <1>8 DEF SaidInv

\* A thread keeps the invariant.
LEMMA ThreadKeeps ==
  ASSUME RunInv, NEW t \in Threads, ThreadStep(t)
  PROVE  RunInv'
<1>1. /\ UNCHANGED <<ppc, open, doneBy, final, reports, held, out, outClosed, consumed, abort, closing>>
      /\ \A u \in Threads \ {t} : /\ tpc'[u] = tpc[u] /\ ran'[u] = ran[u]
                                  /\ chan'[u] = chan[u] /\ closed'[u] = closed[u]
  BY ThreadFrame DEF RunInv, parentVars, outVars
<1>2. /\ (\E m : SaysIt(t, m)) \/ GoesOn(t)
      /\ ThreadOK(t)'
      /\ tpc' \in [Threads -> ThreadPlaces] /\ ran' \in [Threads -> Nat]
      /\ chan' \in [Threads -> Seq(Messages)] /\ closed' \in [Threads -> BOOLEAN]
  BY ThreadMoves
<1>3. RunTypes /\ TypeOK /\ ThreadInv /\ CountInv /\ HeldInv /\ SaidInv
  BY DEF RunInv, RunTypes
<1>4. doneBy \in [Threads -> Nat] /\ ran \in [Threads -> Nat] /\ chan \in [Threads -> Seq(Messages)]
  BY <1>3 DEF TypeOK, RunTypes
<1>5. RunTypes'
  <2>1. ran'[t] \in 0..Share(t) /\ Len(chan'[t]) <= Cap
    <3>0. ran[t] \in 0..Share(t) /\ Len(chan[t]) <= Cap /\ chan[t] \in Seq(Messages)
      BY <1>3 DEF TypeOK
    <3>1. ASSUME NEW m, SaysIt(t, m) PROVE ran'[t] \in 0..Share(t) /\ Len(chan'[t]) <= Cap
      BY <3>0, <3>1, ConcurrencyAssumption DEF SaysIt
    <3>2. CASE GoesOn(t)
      BY <3>0, <3>2 DEF GoesOn
    <3> QED BY <1>2, <3>1, <3>2
  <2>2. \A u \in Threads : ran'[u] \in 0..Share(u) /\ chan'[u] \in Seq(Messages) /\ Len(chan'[u]) <= Cap
    BY <1>1, <1>2, <1>3, <2>1 DEF TypeOK
  <2>3. TypeOK'
    BY <1>1, <1>2, <1>3, <2>2 DEF TypeOK, ThreadPlaces
  <2> QED BY <1>2, <2>3 DEF RunTypes
<1>6. /\ GoodChan(t, chan'[t], tpc'[t], ran'[t])
      /\ Counted(chan[t], doneBy[t], ran[t]) => Counted(chan'[t], doneBy[t], ran'[t])
  <2>0. /\ GoodChan(t, chan[t], tpc[t], ran[t]) /\ chan[t] \in Seq(Messages) /\ ran[t] \in Nat
        /\ ran'[t] \in Nat /\ doneBy[t] \in Nat
    BY <1>2, <1>3, <1>4 DEF ThreadInv
  <2>1. CASE \E m : SaysIt(t, m)
    <3>1. PICK m : SaysIt(t, m)
      BY <2>1
    <3> QED BY <2>0, <3>1, GoodAppend DEF SaysIt
  <2>2. CASE GoesOn(t)
    BY <2>0, <2>2, GoodLater DEF GoesOn
  <2> QED BY <1>2, <2>1, <2>2
<1>7. ThreadInv'
  <2> SUFFICES ASSUME NEW u \in Threads
               PROVE  ThreadOK(u)' /\ GoodChan(u, chan'[u], tpc'[u], ran'[u]) /\ doneBy'[u] <= Share(u)
    BY DEF ThreadInv, GoodChan, IsFinal, Failed, Share
  <2>1. ThreadOK(u) /\ GoodChan(u, chan[u], tpc[u], ran[u]) /\ doneBy[u] <= Share(u)
    BY <1>3 DEF ThreadInv
  <2>2. CASE u = t
    BY <1>1, <1>2, <1>6, <2>1, <2>2
  <2>3. CASE u # t
    BY <1>1, <2>1, <2>3 DEF ThreadOK
  <2> QED BY <2>2, <2>3
<1>8. ran[t] = Share(t) => ran'[t] = ran[t]
  <2>1. ASSUME NEW m, SaysIt(t, m) PROVE ran'[t] = ran[t]
    BY <2>1 DEF SaysIt
  <2> QED BY <1>2, <2>1 DEF GoesOn
<1>9. CountInv'
  <2> SUFFICES ASSUME Adding, NEW u \in Threads
               PROVE  /\ Counted(chan'[u], doneBy[u], ran'[u])
                      /\ final[u] \in {Nil, "ok"}
                      /\ final[u] = "ok" => u \notin open /\ doneBy[u] = Share(u) /\ ran'[u] = Share(u)
    BY <1>1 DEF CountInv, Adding, Counted, IsFinal, Failed, Share
  <2>1. /\ Counted(chan[u], doneBy[u], ran[u])
        /\ final[u] \in {Nil, "ok"}
        /\ final[u] = "ok" => u \notin open /\ doneBy[u] = Share(u) /\ ran[u] = Share(u)
    BY <1>3 DEF CountInv
  <2>2. CASE u = t
    BY <1>6, <1>8, <2>1, <2>2
  <2>3. CASE u # t
    BY <1>1, <2>1, <2>3
  <2> QED BY <2>2, <2>3
<1>10. Complete => Complete'
  BY CompleteStays
<1>11. HeldInv'
  <2>1. TotalOf(doneBy)' = TotalOf(doneBy)
    BY <1>1 DEF TotalOf, Totals
  <2>2. Progress(TotalOf(doneBy))' = Progress(TotalOf(doneBy))
    BY <2>1 DEF Progress
  <2> QED BY <1>1, <1>3, <1>10, <2>2 DEF HeldInv, Final
<1>12. SaidInv'
  <2>1. \A u \in Threads : doneBy[u] \in Nat /\ doneBy[u] <= Share(u)
    BY <1>3, <1>4 DEF ThreadInv
  <2>2. TotalOf(doneBy) <= TotalOf(doneBy)
    BY <2>1, TotalGrows
  <2>3. UNCHANGED outVars
    BY <1>1 DEF outVars
  <2> QED BY <1>1, <1>4, <1>10, <2>1, <2>2, <2>3, SaidKept DEF NoOutcomeYet, OutcomeSent, Adding
<1> QED BY <1>5, <1>7, <1>9, <1>11, <1>12 DEF RunInv

-----------------------------------------------------------------------------
(* The steps of the parent *)

\* What is received comes off one channel and leaves every channel good.
LEMMA TakeFacts ==
  ASSUME RunInv, NEW t \in Threads, Takes(t), UNCHANGED <<tpc, ran>>
  PROVE  /\ chan' \in [Threads -> Seq(Messages)]
         /\ \A u \in Threads : /\ Len(chan'[u]) <= Cap
                               /\ GoodChan(u, chan'[u], tpc[u], ran[u])
                               /\ Counted(chan[u], doneBy[u], ran[u]) => Counted(chan'[u], doneBy[u], ran[u])
         /\ chan[t] # <<>> =>
              /\ chan[t][1] \in Messages
              /\ Failed(chan[t][1]) => chan[t][1].done = 0
              /\ chan[t][1].result = "ok" => chan[t][1].done = Share(t) /\ ran[t] = Share(t)
              /\ ~Failed(chan[t][1]) => /\ Counted(chan'[t], chan[t][1].done, ran[t])
                                        /\ chan[t][1].done <= ran[t]
              /\ Counted(chan[t], doneBy[t], ran[t]) /\ ~Failed(chan[t][1]) => doneBy[t] <= chan[t][1].done
<1>1. /\ chan \in [Threads -> Seq(Messages)] /\ ran \in [Threads -> Nat] /\ doneBy \in [Threads -> Nat]
      /\ \A u \in Threads : Len(chan[u]) <= Cap /\ GoodChan(u, chan[u], tpc[u], ran[u])
  BY DEF RunInv, RunTypes, TypeOK, ThreadInv
<1>2. /\ \A u \in Threads \ {t} : chan'[u] = chan[u]
      /\ chan'[t] = IF chan[t] = <<>> THEN chan[t] ELSE Tail(chan[t])
  BY <1>1 DEF Takes
<1>3. chan' \in [Threads -> Seq(Messages)]
  <2>1. (IF chan[t] = <<>> THEN chan[t] ELSE Tail(chan[t])) \in Seq(Messages)
    BY <1>1
  <2> QED BY <1>1, <2>1 DEF Takes
<1>4. CASE chan[t] = <<>>
  <2>1. \A u \in Threads : chan'[u] = chan[u]
    BY <1>2, <1>4
  <2> QED BY <1>1, <1>3, <1>4, <2>1
<1>5. CASE chan[t] # <<>>
  <2>1. chan'[t] = Tail(chan[t]) /\ chan[t] \in Seq(Messages) /\ ran[t] \in Nat /\ doneBy[t] \in Nat
    BY <1>1, <1>2, <1>5
  <2>2. GoodChan(t, chan[t], tpc[t], ran[t])
    BY <1>1
  <2>3. /\ GoodChan(t, chan'[t], tpc[t], ran[t])
        /\ Counted(chan[t], doneBy[t], ran[t]) => Counted(chan'[t], doneBy[t], ran[t])
        /\ ~Failed(chan[t][1]) => chan[t][1].done <= ran[t] /\ Counted(chan'[t], chan[t][1].done, ran[t])
        /\ Counted(chan[t], doneBy[t], ran[t]) /\ ~Failed(chan[t][1]) => doneBy[t] <= chan[t][1].done
    BY <1>5, <2>1, <2>2, GoodTail
  <2>4. Len(chan[t]) \in Nat /\ 1 \in 1..Len(chan[t]) /\ Len(chan'[t]) = Len(chan[t]) - 1 /\ chan[t][1] \in Messages
    BY <1>5, <2>1
  <2>5. Len(chan'[t]) <= Cap
    BY <1>1, <2>4, ConcurrencyAssumption
  <2>6. /\ Failed(chan[t][1]) => chan[t][1].done = 0
        /\ chan[t][1].result = "ok" => chan[t][1].done = Share(t) /\ ran[t] = Share(t)
    BY <2>2, <2>4 DEF GoodChan
  <2>7. \A u \in Threads : /\ Len(chan'[u]) <= Cap
                           /\ GoodChan(u, chan'[u], tpc[u], ran[u])
                           /\ Counted(chan[u], doneBy[u], ran[u]) => Counted(chan'[u], doneBy[u], ran[u])
    BY <1>1, <1>2, <2>3, <2>5
  <2> QED BY <1>3, <2>3, <2>4, <2>6, <2>7
<1> QED BY <1>4, <1>5

\* The types of the counts, and that no step of parent, client or reader undoes a run.
LEMMA Counts ==
  ASSUME RunInv
  PROVE  /\ doneBy \in [Threads -> Nat]
         /\ \A t \in Threads : doneBy[t] \in Nat /\ doneBy[t] <= Share(t)
         /\ TotalOf(doneBy) <= TotalOf(doneBy)
         /\ UNCHANGED ran => (Complete <=> Complete')
<1>1. doneBy \in [Threads -> Nat] /\ \A t \in Threads : doneBy[t] \in Nat /\ doneBy[t] <= Share(t)
  BY DEF RunInv, RunTypes, TypeOK, ThreadInv
<1>2. TotalOf(doneBy) <= TotalOf(doneBy)
  BY <1>1, TotalGrows
<1>3. UNCHANGED ran => (Complete <=> Complete')
  BY DEF Complete
<1> QED BY <1>1, <1>2, <1>3

\* Steps that leave threads and counts alone keep what is said of them.
LEMMA ThreadsKept ==
  ASSUME RunInv, UNCHANGED <<tpc, ran, chan, doneBy>>
  PROVE  /\ ThreadInv'
         /\ (Adding' => Adding) /\ UNCHANGED <<final, open>> => CountInv'
<1>1. ThreadInv'
  BY DEF RunInv, ThreadInv, ThreadOK, GoodChan, IsFinal, Failed, Share
<1>2. (Adding' => Adding) /\ UNCHANGED <<final, open>> => CountInv'
  BY DEF RunInv, CountInv, Counted, IsFinal, Failed, Share
<1> QED BY <1>1, <1>2

\* The parent finds the signal triggered.
LEMMA AbortedKeeps ==
  ASSUME RunInv, NEW t \in Threads, ReceiveAborted(t)
  PROVE  RunInv'
<1>1. /\ Takes(t) /\ ppc = "select" /\ ppc' = "sendLast" /\ held' = Final(0, "aborted")
      /\ UNCHANGED <<tpc, ran, closed, open, doneBy, final, reports, out, outClosed, consumed, abort, closing>>
  BY DEF ReceiveAborted, outVars
<1>2. RunTypes /\ TypeOK /\ ThreadInv /\ SaidInv
  BY DEF RunInv, RunTypes
<1>3. /\ chan' \in [Threads -> Seq(Messages)]
      /\ \A u \in Threads : Len(chan'[u]) <= Cap /\ GoodChan(u, chan'[u], tpc[u], ran[u])
  BY <1>1, TakeFacts
<1>4. Final(0, "aborted") \in Messages
  BY FieldFacts, ConcurrencyAssumption
<1>5. RunTypes'
  BY <1>1, <1>2, <1>3, <1>4 DEF RunTypes, TypeOK
<1>6. ThreadInv'
  BY <1>1, <1>2, <1>3 DEF ThreadInv, ThreadOK, GoodChan, IsFinal, Failed, Share
<1>7. CountInv'
  BY <1>1 DEF CountInv, Adding
<1>8. HeldInv'
  BY <1>1 DEF HeldInv, Final
<1>9. SaidInv'
  BY <1>1, Counts, SaidKept DEF NoOutcomeYet, OutcomeSent, Adding, outVars
<1> QED BY <1>5, <1>6, <1>7, <1>8, <1>9 DEF RunInv

\* The parent receives a report.
LEMMA ProgressKeeps ==
  ASSUME RunInv, NEW t \in Threads, ReceiveProgress(t)
  PROVE  RunInv'
<1> DEFINE m == chan[t][1]
<1>1. /\ Takes(t) /\ ppc = "select" /\ chan[t] # <<>> /\ m.kind = "progress" /\ t \in open
      /\ doneBy' = [doneBy EXCEPT ![t] = m.done]
      /\ reports' = (reports + 1) % Cardinality(Threads)
      /\ \/ held' = Progress(TotalOf(doneBy')) /\ ppc' = "send"
         \/ held' = held /\ ppc' = ppc
      /\ UNCHANGED <<tpc, ran, closed, open, final, out, outClosed, consumed, abort, closing>>
  BY DEF ReceiveProgress, Ready, outVars
<1>2. RunTypes /\ TypeOK /\ ThreadInv /\ CountInv /\ SaidInv /\ doneBy \in [Threads -> 0..Iterations]
  BY DEF RunInv, RunTypes, TypeOK
<1>3. Adding
  BY <1>1 DEF Adding
<1>4. /\ m \in Messages /\ ~Failed(m) /\ m.done \in 0..Iterations
      /\ Counted(chan'[t], m.done, ran[t]) /\ m.done <= ran[t] /\ doneBy[t] <= m.done
  <2>1. Counted(chan[t], doneBy[t], ran[t])
    BY <1>2, <1>3 DEF CountInv
  <2>2. m \in Messages /\ ~Failed(m)
    BY <1>1, TakeFacts DEF Failed, IsFinal
  <2>3. m.done \in 0..Iterations
    BY <2>2, MessageFacts
  <2> QED BY <1>1, <2>1, <2>2, <2>3, TakeFacts
<1>5. /\ chan' \in [Threads -> Seq(Messages)]
      /\ \A u \in Threads : /\ Len(chan'[u]) <= Cap /\ GoodChan(u, chan'[u], tpc[u], ran[u])
                            /\ Counted(chan[u], doneBy[u], ran[u]) => Counted(chan'[u], doneBy[u], ran[u])
  BY <1>1, TakeFacts
<1> HIDE DEF m
<1>6. /\ doneBy' \in [Threads -> 0..Iterations] /\ doneBy'[t] = m.done
      /\ \A u \in Threads \ {t} : doneBy'[u] = doneBy[u]
  BY <1>1, <1>2, <1>4
<1>7. \A u \in Threads : /\ doneBy[u] \in Nat /\ doneBy'[u] \in Nat /\ doneBy[u] <= doneBy'[u]
                         /\ doneBy'[u] <= Share(u)
  <2>1. ran[t] \in 0..Share(t) /\ Share(t) \in Nat
    BY <1>2, ShareFacts DEF TypeOK
  <2>2. doneBy'[t] <= Share(t) /\ doneBy[t] \in Nat /\ doneBy'[t] \in Nat /\ doneBy[t] <= doneBy'[t]
    BY <1>2, <1>4, <1>6, <2>1
  <2>3. \A u \in Threads : doneBy[u] \in Nat /\ doneBy[u] <= doneBy[u] /\ doneBy[u] <= Share(u)
    BY Counts
  <2> QED BY <1>6, <2>2, <2>3
<1>8. /\ TotalOf(doneBy') \in 0..Iterations /\ TotalOf(doneBy) <= TotalOf(doneBy')
      /\ doneBy' \in [Threads -> Nat]
  <2>1. doneBy' \in [Threads -> Nat]
    BY <1>6
  <2>2. TotalOf(doneBy') \in 0..Iterations
    BY <1>7, <2>1, TotalFacts
  <2> QED BY <1>7, <2>1, <2>2, TotalGrows
<1>9. RunTypes'
  <2>1. reports' \in 0..(Splits - 1)
    <3>1. Cardinality(Threads) = Splits
      BY SplitFacts, FS_Interval DEF Threads
    <3>2. reports + 1 \in Int
      BY <1>2 DEF TypeOK
    <3> QED BY <1>1, <3>1, <3>2, SplitFacts
  <2>2. held' \in Messages \cup {Nil} /\ ppc' \in {"select", "send"}
    <3>1. held \in Messages \cup {Nil}
      BY <1>2 DEF TypeOK
    <3>2. Progress(TotalOf(doneBy')) \in Messages
      BY <1>8, FieldFacts
    <3> QED BY <1>1, <3>1, <3>2
  <2>3. \A u \in Threads : ran'[u] \in 0..Share(u) /\ chan'[u] \in Seq(Messages) /\ Len(chan'[u]) <= Cap
    BY <1>1, <1>2, <1>5 DEF TypeOK
  <2>4. TypeOK'
    BY <1>1, <1>2, <1>6, <2>1, <2>2, <2>3 DEF TypeOK
  <2> QED BY <1>1, <1>2, <1>5, <2>4 DEF RunTypes
<1>10. ThreadInv'
  BY <1>1, <1>2, <1>5, <1>7 DEF ThreadInv, ThreadOK, GoodChan, IsFinal, Failed, Share
<1>11. CountInv'
  <2> SUFFICES ASSUME NEW u \in Threads
               PROVE  /\ Counted(chan'[u], doneBy'[u], ran[u])
                      /\ final[u] \in {Nil, "ok"}
                      /\ final[u] = "ok" => u \notin open /\ doneBy'[u] = Share(u) /\ ran[u] = Share(u)
    BY <1>1 DEF CountInv, Counted, IsFinal, Failed, Share
  <2>1. /\ Counted(chan[u], doneBy[u], ran[u])
        /\ final[u] \in {Nil, "ok"}
        /\ final[u] = "ok" => u \notin open /\ doneBy[u] = Share(u) /\ ran[u] = Share(u)
    BY <1>2, <1>3 DEF CountInv
  <2>2. CASE u = t
    BY <1>1, <1>4, <1>6, <2>1, <2>2
  <2>3. CASE u # t
    BY <1>5, <1>6, <2>1, <2>3
  <2> QED BY <2>2, <2>3
<1>12. HeldInv'
  <2>1. Progress(TotalOf(doneBy))' = Progress(TotalOf(doneBy'))
    BY DEF Progress, TotalOf, Totals
  <2> QED BY <1>1, <2>1 DEF HeldInv
<1>13. SaidInv'
  BY <1>1, <1>3, <1>7, <1>8, Counts, SaidKept DEF NoOutcomeYet, OutcomeSent, Adding, outVars
<1> QED BY <1>9, <1>10, <1>11, <1>12, <1>13 DEF RunInv

\* The parent receives a final result, or finds a channel closed.
LEMMA EndKeeps ==
  ASSUME RunInv, NEW t \in Threads, ReceiveEnd(t)
  PROVE  RunInv'
<1>1. /\ Takes(t) /\ ppc = "select" /\ t \in open
      /\ UNCHANGED <<tpc, ran, closed, reports, out, outClosed, consumed, abort, closing>>
  BY DEF ReceiveEnd, Ready, outVars
<1>2. /\ RunTypes /\ TypeOK /\ ThreadInv /\ CountInv /\ SaidInv
      /\ doneBy \in [Threads -> 0..Iterations] /\ open \subseteq Threads
      /\ final \in [Threads -> {Nil, "ok", "aborted", "error"}] /\ held \in Messages \cup {Nil}
  BY DEF RunInv, RunTypes, TypeOK
<1>3. Adding
  BY <1>1 DEF Adding
<1>4. /\ chan' \in [Threads -> Seq(Messages)]
      /\ \A u \in Threads : /\ Len(chan'[u]) <= Cap /\ GoodChan(u, chan'[u], tpc[u], ran[u])
                            /\ Counted(chan[u], doneBy[u], ran[u]) => Counted(chan'[u], doneBy[u], ran[u])
  BY <1>1, TakeFacts
<1>5. \A u \in Threads : ran'[u] \in 0..Share(u) /\ chan'[u] \in Seq(Messages) /\ Len(chan'[u]) <= Cap
  BY <1>1, <1>2, <1>4 DEF TypeOK
<1>6. ASSUME NEW u \in Threads
      PROVE  /\ Counted(chan'[u], doneBy[u], ran[u])
             /\ final[u] \in {Nil, "ok"}
             /\ final[u] = "ok" => u \notin open /\ doneBy[u] = Share(u) /\ ran[u] = Share(u)
  BY <1>2, <1>3, <1>4 DEF CountInv
<1>7. \A u \in Threads : doneBy[u] \in Nat /\ doneBy[u] <= Share(u)
  BY Counts
<1>8. CASE chan[t] = <<>>
  <2>1. open' = open \ {t} /\ UNCHANGED <<doneBy, final, held, ppc>>
    BY <1>8 DEF ReceiveEnd
  <2>2. RunTypes'
    <3>1. TypeOK'
      BY <1>1, <1>2, <1>5, <2>1 DEF TypeOK
    <3> QED BY <1>1, <1>2, <1>4, <3>1 DEF RunTypes
  <2>3. ThreadInv'
    BY <1>1, <1>2, <1>4, <2>1 DEF ThreadInv, ThreadOK, GoodChan, IsFinal, Failed, Share
  <2>4. CountInv'
    BY <1>1, <1>6, <2>1 DEF CountInv, Counted, IsFinal, Failed, Share
  <2>5. HeldInv'
    BY <1>1, <2>1 DEF HeldInv
  <2>6. SaidInv'
    BY <1>1, <1>3, <2>1, Counts, SaidKept DEF NoOutcomeYet, OutcomeSent, Adding, outVars
  <2> QED BY <2>2, <2>3, <2>4, <2>5, <2>6 DEF RunInv
<1>9. CASE chan[t] # <<>>
  <2> DEFINE m == chan[t][1]
  <2>1. /\ m.kind = "final"
        /\ doneBy' = [doneBy EXCEPT ![t] = m.done]
        /\ final' = [final EXCEPT ![t] = m.result]
        /\ \/ m.result = "ok" /\ open' = open \ {t} /\ UNCHANGED <<held, ppc>>
           \/ m.result # "ok" /\ held' = m /\ ppc' = "sendError" /\ UNCHANGED open
    BY <1>9 DEF ReceiveEnd
  <2>2. /\ m \in Messages
        /\ Failed(m) => m.done = 0
        /\ m.result = "ok" => m.done = Share(t) /\ ran[t] = Share(t)
        /\ ~Failed(m) => Counted(chan'[t], m.done, ran[t])
        /\ ~Failed(m) => doneBy[t] <= m.done
    BY <1>1, <1>2, <1>3, <1>9, TakeFacts DEF CountInv
  <2> HIDE DEF m
  <2>3. /\ m.done \in 0..Iterations /\ m.result \in {"ok", "aborted", "error"} /\ m = Final(m.done, m.result)
        /\ Failed(m) <=> m.result # "ok"
    BY <2>1, <2>2, MessageFacts DEF IsFinal, Failed
  <2>4. /\ doneBy' \in [Threads -> 0..Iterations] /\ doneBy'[t] = m.done
        /\ \A u \in Threads \ {t} : doneBy'[u] = doneBy[u]
    BY <1>2, <2>1, <2>3
  <2>5. /\ final' \in [Threads -> {Nil, "ok", "aborted", "error"}] /\ final'[t] = m.result
        /\ \A u \in Threads \ {t} : final'[u] = final[u]
    BY <1>2, <2>1, <2>3
  <2>6. /\ \A u \in Threads : doneBy'[u] \in Nat /\ doneBy'[u] <= Share(u)
        /\ doneBy' \in [Threads -> Nat]
    <3>1. doneBy'[t] \in Nat /\ doneBy'[t] <= Share(t)
      <4>1. Share(t) \in Nat
        BY ShareFacts
      <4> QED BY <2>2, <2>3, <2>4, <4>1
    <3> QED BY <1>7, <2>4, <3>1
  <2>7. RunTypes'
    <3>1. TypeOK'
      BY <1>1, <1>2, <1>5, <2>1, <2>2, <2>4, <2>5 DEF TypeOK
    <3> QED BY <1>1, <1>2, <1>4, <3>1 DEF RunTypes
  <2>8. ThreadInv'
    BY <1>1, <1>2, <1>4, <2>6 DEF ThreadInv, ThreadOK, GoodChan, IsFinal, Failed, Share
  <2>9. CASE m.result = "ok"
    <3>1. open' = open \ {t} /\ UNCHANGED <<held, ppc>>
      BY <2>1, <2>9
    <3>2. CountInv'
      <4> SUFFICES ASSUME NEW u \in Threads
                   PROVE  /\ Counted(chan'[u], doneBy'[u], ran[u])
                          /\ final'[u] \in {Nil, "ok"}
                          /\ final'[u] = "ok" => u \notin open' /\ doneBy'[u] = Share(u) /\ ran[u] = Share(u)
        BY <1>1 DEF CountInv, Counted, IsFinal, Failed, Share
      <4>1. CASE u = t
        BY <2>2, <2>3, <2>4, <2>5, <2>9, <3>1, <4>1
      <4>2. CASE u # t
        BY <1>6, <2>4, <2>5, <3>1, <4>2
      <4> QED BY <4>1, <4>2
    <3>3. HeldInv'
      BY <1>1, <3>1 DEF HeldInv
    <3>4. TotalOf(doneBy) <= TotalOf(doneBy')
      <4>1. \A u \in Threads : doneBy[u] \in Nat /\ doneBy'[u] \in Nat /\ doneBy[u] <= doneBy'[u]
        BY <1>7, <2>2, <2>3, <2>4, <2>6, <2>9
      <4> QED BY <4>1, TotalGrows
    <3>5. SaidInv'
      BY <1>1, <1>3, <2>6, <3>1, <3>4, Counts, SaidKept DEF NoOutcomeYet, OutcomeSent, Adding, outVars
    <3> QED BY <2>7, <2>8, <3>2, <3>3, <3>5 DEF RunInv
  <2>10. CASE m.result # "ok"
    <3>1. held' = m /\ ppc' = "sendError" /\ UNCHANGED open
      BY <2>1, <2>10
    <3>2. m = Final(0, m.result) /\ m.result \in {"aborted", "error"}
      BY <2>2, <2>3, <2>10
    <3>3. CountInv'
      BY <3>1 DEF CountInv, Adding
    <3>4. HeldInv'
      BY <3>1, <3>2 DEF HeldInv, Final
    <3>5. SaidInv'
      BY <1>1, <2>6, <3>1, Counts, SaidKept DEF NoOutcomeYet, OutcomeSent, Adding, outVars
    <3> QED BY <2>7, <2>8, <3>3, <3>4, <3>5 DEF RunInv
  <2> QED BY <2>9, <2>10
<1> QED BY <1>8, <1>9

\* The parent combines the results.
LEMMA CombineKeeps ==
  ASSUME RunInv, Combine
  PROVE  RunInv'
<1>1. /\ ppc = "select" /\ open = {}
      /\ UNCHANGED <<tpc, ran, chan, closed, open, doneBy, final, reports, out, outClosed, consumed, abort, closing>>
      /\ \/ held' = Final(0, "error") /\ ppc' = "sendPanic"
         \/ held' = Final(TotalOf(doneBy), "ok") /\ ppc' = "sendLast" /\ \A t \in Threads : final[t] # Nil
  BY DEF Combine, threadVars, outVars
<1>2. RunTypes /\ TypeOK /\ CountInv /\ doneBy \in [Threads -> Nat] /\ \A t \in Threads : doneBy[t] <= Share(t)
  BY Counts DEF RunInv, RunTypes
<1>3. TotalOf(doneBy) \in 0..Iterations /\ 0 \in 0..Iterations
  BY <1>2, TotalFacts, ConcurrencyAssumption
<1>4. Final(0, "error") \in Messages /\ Final(TotalOf(doneBy), "ok") \in Messages
  BY <1>3, FieldFacts
<1>5. ASSUME \A t \in Threads : final[t] # Nil
      PROVE  TotalOf(doneBy) = Iterations /\ Complete
  <2>1. \A t \in Threads : doneBy[t] = Share(t) /\ ran[t] = Share(t)
    BY <1>1, <1>2, <1>5 DEF CountInv, Adding
  <2> QED BY <1>2, <2>1, TotalFacts DEF Complete
<1>6. RunTypes'
  BY <1>1, <1>2, <1>4 DEF RunTypes, TypeOK
<1>7. ThreadInv' /\ CountInv'
  BY <1>1, ThreadsKept DEF CountInv, Adding
<1>8. HeldInv'
  BY <1>1, <1>5 DEF HeldInv, Final, Complete
<1>9. SaidInv'
  BY <1>1, Counts, SaidKept DEF NoOutcomeYet, OutcomeSent, Adding, outVars
<1> QED BY <1>6, <1>7, <1>8, <1>9 DEF RunInv

\* What a step that sends says.
LEMMA SendFacts ==
  ASSUME RunInv, SendOut
  PROVE  /\ held \in Messages /\ out' = Append(out, held) /\ out' \in Seq(Messages) /\ Len(out') <= OutCap
         /\ Said \in Seq(Messages) /\ Said' = Append(Said, held)
         /\ ppc' \in {"select", "closeOut", "trigger"}
         /\ ppc' = "select" <=> ppc = "send"
         /\ ppc = "send" => held = Progress(TotalOf(doneBy))
         /\ ppc # "send" => IsFinal(held) /\ held.result \in {"ok", "aborted", "error"}
         /\ held.result # "ok" /\ ppc # "send" => held.done = 0
         /\ Truthful(held)
<1> DEFINE Says == /\ held \in Messages
                   /\ ppc = "send" => held = Progress(TotalOf(doneBy))
                   /\ ppc # "send" => IsFinal(held) /\ held.result \in {"ok", "aborted", "error"}
                   /\ held.result # "ok" /\ ppc # "send" => held.done = 0
                   /\ Truthful(held)
<1>1. /\ ppc \in {"send", "sendLast", "sendError", "sendPanic"} /\ Len(out) < OutCap
      /\ out' = Append(out, held) /\ ppc' = AfterSend /\ consumed' = consumed
  BY DEF SendOut
<1>2. TypeOK /\ HeldInv /\ out \in Seq(Messages) /\ consumed \in Seq(Messages)
  BY DEF RunInv, RunTypes, TypeOK
<1>3. ppc' \in {"select", "closeOut", "trigger"} /\ (ppc' = "select" <=> ppc = "send")
  BY <1>1 DEF AfterSend
<1>4. TotalOf(doneBy) \in 0..Iterations /\ 0 \in 0..Iterations /\ Iterations \in 0..Iterations
  BY Counts, TotalFacts, ConcurrencyAssumption
<1>5. ASSUME ppc = "send" PROVE Says
  <2>1. held = Progress(TotalOf(doneBy))
    BY <1>2, <1>5 DEF HeldInv
  <2>2. Progress(TotalOf(doneBy)) \in Messages /\ Progress(TotalOf(doneBy)).result = "none"
    BY <1>4, FieldFacts
  <2> QED BY <1>5, <2>1, <2>2 DEF Truthful
<1>6. ASSUME ppc # "send" PROVE Says
  <2>1. PICK n \in 0..Iterations, r \in {"ok", "aborted", "error"} :
           held = Final(n, r) /\ (r = "ok" => n = Iterations /\ Complete) /\ (r # "ok" => n = 0)
    <3>1. \/ held = Final(0, "aborted")
          \/ held = Final(0, "error")
          \/ held = Final(Iterations, "ok") /\ Complete
      BY <1>1, <1>2, <1>6 DEF HeldInv
    <3> QED BY <1>4, <3>1
  <2>2. Final(n, r) \in Messages /\ IsFinal(Final(n, r)) /\ Final(n, r).done = n /\ Final(n, r).result = r
    BY FieldFacts
  <2> QED BY <1>6, <2>1, <2>2 DEF Truthful
<1>7. held \in Messages
  BY <1>5, <1>6
<1>8. out' \in Seq(Messages) /\ Len(out') <= OutCap
  BY <1>1, <1>2, <1>7, ConcurrencyAssumption
<1>9. Said' = Append(Said, held) /\ Said \in Seq(Messages)
  BY <1>1, <1>2, <1>7 DEF Said
<1> QED BY <1>1, <1>3, <1>5, <1>6, <1>7, <1>8, <1>9

\* The parent sends.
LEMMA SendKeeps ==
  ASSUME RunInv, SendOut
  PROVE  RunInv'
<1>1. /\ ppc \in {"send", "sendLast", "sendError", "sendPanic"} /\ held' = Nil
      /\ UNCHANGED <<tpc, ran, chan, closed, open, doneBy, final, reports, outClosed, consumed, abort, closing>>
  BY DEF SendOut, threadVars
<1>2. /\ held \in Messages /\ out' \in Seq(Messages) /\ Len(out') <= OutCap
      /\ Said \in Seq(Messages) /\ Said' = Append(Said, held)
      /\ ppc' \in {"select", "closeOut", "trigger"} /\ (ppc' = "select" <=> ppc = "send")
      /\ ppc = "send" => held = Progress(TotalOf(doneBy))
      /\ ppc # "send" => IsFinal(held)
      /\ Truthful(held)
  BY SendFacts
<1>3. RunTypes /\ TypeOK /\ SaidInv
  BY DEF RunInv, RunTypes
<1>4. RunTypes'
  BY <1>1, <1>2, <1>3 DEF RunTypes, TypeOK
<1>5. Adding' => Adding
  BY <1>1, <1>2 DEF Adding
<1>6. ThreadInv' /\ CountInv'
  BY <1>1, <1>5, ThreadsKept
<1>7. HeldInv'
  BY <1>2 DEF HeldInv
<1>8. SaidInv'
  <2> DEFINE n == Len(Said)
             a == Append(Said, held)
  <2>1. n \in Nat /\ Len(a) = n + 1 /\ a[n + 1] = held /\ a # <<>> /\ \A i \in 1..n : a[i] = Said[i]
    BY <1>2
  <2>2. \A i \in 1..(n + 1) : i \in 1..n \/ i = n + 1
    BY <2>1
  <2>3. Said' = a
    BY <1>2
  <2> HIDE DEF a, n
  <2>4. NoOutcomeYet' => Silent(a)
    <3> SUFFICES ASSUME NoOutcomeYet' PROVE Silent(a)
      OBVIOUS
    <3>1. ppc = "send"
      BY <1>2 DEF NoOutcomeYet
    <3>2. Silent(Said)
      BY <1>3, <3>1 DEF SaidInv, NoOutcomeYet
    <3>3. ~IsFinal(held)
      <4>1. TotalOf(doneBy) \in 0..Iterations
        BY Counts, TotalFacts
      <4> QED BY <1>2, <3>1, <4>1, FieldFacts
    <3> QED BY <2>1, <2>2, <3>2, <3>3 DEF Silent, n
  <2>5. OutcomeSent' => ~Silent(a)
    <3> SUFFICES ASSUME OutcomeSent' PROVE ~Silent(a)
      OBVIOUS
    <3>1. IsFinal(held)
      BY <1>2 DEF OutcomeSent
    <3>2. n + 1 \in 1..Len(a)
      BY <2>1
    <3> QED BY <2>1, <3>1, <3>2 DEF Silent
  <2>6. Adding' => a[Len(a)].done <= TotalOf(doneBy)
    <3> SUFFICES ASSUME Adding' PROVE a[Len(a)].done <= TotalOf(doneBy)
      OBVIOUS
    <3>1. ppc = "send"
      BY <1>2 DEF Adding
    <3>2. TotalOf(doneBy) \in 0..Iterations
      BY Counts, TotalFacts
    <3>3. held.done = TotalOf(doneBy)
      BY <1>2, <3>1, <3>2, FieldFacts
    <3> QED BY <2>1, <3>2, <3>3
  <2>7. \A i \in 1..Len(a) : Truthful(a[i])
    BY <1>2, <1>3, <2>1, <2>2 DEF SaidInv, n
  <2>8. Complete' <=> Complete
    BY <1>1, Counts
  <2>9. (\A i \in 1..Len(Said) : Truthful(Said[i]))'
    BY <2>3, <2>7, <2>8 DEF Truthful
  <2>10. TotalOf(doneBy)' = TotalOf(doneBy)
    BY <1>1 DEF TotalOf, Totals
  <2>11. outClosed' <=> ppc' = "done"
    BY <1>1, <1>2, <1>3 DEF SaidInv
  <2>12. /\ NoOutcomeYet' => Silent(Said)'
         /\ OutcomeSent' => ~Silent(Said)'
    BY <2>3, <2>4, <2>5 DEF Silent, IsFinal
  <2> QED BY <2>3, <2>6, <2>9, <2>10, <2>11, <2>12 DEF SaidInv
<1> QED BY <1>4, <1>6, <1>7, <1>8 DEF RunInv

\* Triggers, and the end: what was said, run and counted stays.
LEMMA EndingKeeps ==
  ASSUME RunInv, ParentLooks \/ ParentTriggers \/ CloseOut \/ ClientLooks \/ ClientTriggers
  PROVE  RunInv'
<1> USE DEF threadVars, outVars, parentVars
<1>1. UNCHANGED <<tpc, ran, chan, closed, open, doneBy, final, reports, out, consumed>>
  BY DEF ParentLooks, ParentTriggers, CloseOut, ClientLooks, ClientTriggers
<1>2. RunTypes /\ TypeOK /\ SaidInv /\ HeldInv
  BY DEF RunInv, RunTypes
<1>3. Final(0, "error") \in Messages
  BY FieldFacts, ConcurrencyAssumption
<1>4. \/ ppc' = ppc /\ held' = held /\ outClosed' = outClosed
      \/ ppc \in {"trigger", "closeSignal"} /\ ppc' \in {"closeOut", "closeSignal"}
           /\ held' = held /\ outClosed' = outClosed
      \/ ppc = "closeSignal" /\ ppc' = "sendPanic" /\ held' = Final(0, "error") /\ outClosed' = outClosed
      \/ ppc = "closeOut" /\ ppc' = "done" /\ held' = held /\ outClosed' = TRUE
  BY DEF ParentLooks, ParentTriggers, CloseOut, ClientLooks, ClientTriggers
<1>5. abort' \in BOOLEAN /\ closing' \subseteq {"client", "parent"}
  BY <1>2 DEF TypeOK, ParentLooks, ParentTriggers, CloseOut, ClientLooks, ClientTriggers
<1>6. RunTypes'
  <2>1. /\ ppc' \in {"select", "send", "sendLast", "sendError", "sendPanic", "trigger", "closeSignal",
                     "closeOut", "done"}
        /\ held' \in Messages \cup {Nil} /\ outClosed' \in BOOLEAN
    BY <1>2, <1>3, <1>4 DEF TypeOK
  <2>2. TypeOK'
    BY <1>1, <1>2, <1>5, <2>1 DEF TypeOK
  <2> QED BY <1>1, <1>2, <2>2 DEF RunTypes
<1>7. Adding' => Adding /\ ppc' = ppc
  BY <1>4 DEF Adding
<1>8. ThreadInv' /\ CountInv'
  BY <1>1, <1>7, ThreadsKept
<1>9. HeldInv'
  <2>1. Progress(TotalOf(doneBy))' = Progress(TotalOf(doneBy)) /\ (Complete' <=> Complete)
    BY <1>1, Counts DEF Progress, TotalOf, Totals
  <2> QED BY <1>2, <1>4, <2>1 DEF HeldInv, Final
<1>10. SaidInv'
  <2>1. Said' = Said /\ TotalOf(doneBy)' = TotalOf(doneBy) /\ (Complete' <=> Complete)
    BY <1>1, Counts DEF Said, TotalOf, Totals
  <2>2. (NoOutcomeYet' => NoOutcomeYet) /\ (OutcomeSent' => OutcomeSent)
    BY <1>4 DEF NoOutcomeYet, OutcomeSent
  <2>3. outClosed' <=> ppc' = "done"
    BY <1>2, <1>4 DEF SaidInv
  <2>4. /\ NoOutcomeYet' => Silent(Said)'
        /\ OutcomeSent' => ~Silent(Said)'
    BY <1>2, <2>1, <2>2 DEF SaidInv, Silent, IsFinal
  <2>5. (\A i \in 1..Len(Said) : Truthful(Said[i]))'
    BY <1>2, <2>1 DEF SaidInv, Truthful
  <2>6. (Adding /\ Said # <<>> => Said[Len(Said)].done <= TotalOf(doneBy))'
    BY <1>2, <1>7, <2>1 DEF SaidInv
  <2> QED BY <2>3, <2>4, <2>5, <2>6 DEF SaidInv
<1> QED BY <1>6, <1>8, <1>9, <1>10 DEF RunInv

\* Two sequences of messages, one behind the other.
LEMMA ConcatFacts ==
  ASSUME NEW a \in Seq(Messages), NEW b \in Seq(Messages)
  PROVE  /\ a \o b \in Seq(Messages) /\ Len(a \o b) = Len(a) + Len(b)
         /\ \A i \in 1..Len(a) : (a \o b)[i] = a[i]
         /\ \A i \in 1..Len(b) : (a \o b)[Len(a) + i] = b[i]
<1>1. a \o b \in Seq(Messages) /\ Len(a \o b) = Len(a) + Len(b) /\ Len(a) \in Nat /\ Len(b) \in Nat
  OBVIOUS
<1>2. \A i \in 1..Len(a) : (a \o b)[i] = a[i]
  BY <1>1
<1>3. ASSUME NEW i \in 1..Len(b) PROVE (a \o b)[Len(a) + i] = b[i]
  <2>1. Len(a) + i \in 1..(Len(a) + Len(b)) /\ ~(Len(a) + i <= Len(a)) /\ (Len(a) + i) - Len(a) = i
    BY <1>1
  <2> QED BY <1>1, <2>1
<1> QED BY <1>1, <1>2, <1>3

\* The first message, and those behind it.
LEMMA HeadFacts ==
  ASSUME NEW b \in Seq(Messages), b # <<>>
  PROVE  /\ Len(b) \in Nat /\ Len(b) > 0 /\ b[1] \in Messages
         /\ <<b[1]>> \in Seq(Messages) /\ Len(<<b[1]>>) = 1 /\ <<b[1]>>[1] = b[1]
         /\ Tail(b) \in Seq(Messages) /\ Len(Tail(b)) = Len(b) - 1
         /\ \A i \in 1..(Len(b) - 1) : Tail(b)[i] = b[i + 1]
         /\ <<b[1]>> \o Tail(b) = b
<1>1. Len(b) \in Nat /\ Len(b) > 0 /\ b[1] \in Messages
  OBVIOUS
<1>2. <<b[1]>> \in Seq(Messages) /\ Len(<<b[1]>>) = 1 /\ <<b[1]>>[1] = b[1]
  BY <1>1
<1>3. Tail(b) \in Seq(Messages) /\ Len(Tail(b)) = Len(b) - 1
  BY <1>1
<1>4. \A i \in 1..(Len(b) - 1) : Tail(b)[i] = b[i + 1]
  BY <1>1
<1> DEFINE h == <<b[1]>>
           l == Tail(b)
<1> HIDE DEF h, l
<1>5. h \o l \in Seq(Messages) /\ Len(h \o l) = Len(b)
  <2>1. h \in Seq(Messages) /\ l \in Seq(Messages) /\ Len(h) = 1 /\ Len(l) = Len(b) - 1
    BY <1>2, <1>3 DEF h, l
  <2>2. h \o l \in Seq(Messages) /\ Len(h \o l) = Len(h) + Len(l)
    BY <2>1, ConcatFacts
  <2>3. Len(h) + Len(l) = Len(b)
    BY <1>1, <2>1
  <2> QED BY <2>2, <2>3
<1>6. ASSUME NEW i \in 1..Len(b) PROVE (h \o l)[i] = b[i]
  <2>1. h \in Seq(Messages) /\ l \in Seq(Messages) /\ Len(h) = 1 /\ Len(l) = Len(b) - 1 /\ h[1] = b[1]
    BY <1>2, <1>3 DEF h, l
  <2>2. CASE i = 1
    <3>0. 1 \in 1..Len(h)
      BY <2>1
    <3>1. (h \o l)[1] = h[1]
      BY <2>1, <3>0, ConcatFacts
    <3> QED BY <2>1, <2>2, <3>1
  <2>3. CASE i # 1
    <3>1. i - 1 \in 1..Len(l) /\ i - 1 \in 1..(Len(b) - 1) /\ Len(h) + (i - 1) = i /\ (i - 1) + 1 = i
      BY <1>1, <2>1, <2>3
    <3>2. (h \o l)[Len(h) + (i - 1)] = l[i - 1]
      BY <2>1, <3>1, ConcatFacts
    <3>3. l[i - 1] = b[(i - 1) + 1]
      BY <1>4, <3>1 DEF l
    <3> QED BY <3>1, <3>2, <3>3
  <2> QED BY <2>2, <2>3
<1>7. h \o l = b
  <2>1. h \o l \in Seq(Messages) /\ b \in Seq(Messages) /\ Len(h \o l) = Len(b)
    BY <1>5
  <2> QED BY <1>6, <2>1, SeqEqual
<1> QED BY <1>1, <1>2, <1>3, <1>4, <1>7 DEF h, l

\* What a read leaves of what was said: all of it but for a message already taken, which was
\* no outcome.
LEMMA ReadFacts ==
  ASSUME RunTypes, Read
  PROVE  /\ consumed' \in Seq(Messages) /\ Len(consumed') <= 1 /\ out' \in Seq(Messages) /\ Len(out') <= OutCap
         /\ Said' = out /\ out # <<>> /\ out \in Seq(Messages) /\ Said \in Seq(Messages)
         /\ \/ Said = out
            \/ /\ Len(Said) = Len(out) + 1 /\ ~IsFinal(Said[1])
               /\ \A i \in 1..Len(out) : Said[i + 1] = out[i]
<1>1. /\ out # <<>> /\ (consumed # <<>> => Last(consumed).kind # "final")
      /\ consumed' = <<out[1]>> /\ out' = Tail(out)
  BY DEF Read
<1>2. out \in Seq(Messages) /\ Len(out) <= OutCap /\ consumed \in Seq(Messages) /\ Len(consumed) <= 1
  BY DEF RunTypes, TypeOK
<1>3. Len(out) \in Nat /\ Len(out) > 0 /\ out[1] \in Messages /\ Len(consumed) \in Nat
  BY <1>1, <1>2
<1>4. consumed' \in Seq(Messages) /\ Len(consumed') <= 1 /\ out' \in Seq(Messages) /\ Len(out') <= OutCap
  <2>1. /\ <<out[1]>> \in Seq(Messages) /\ Len(<<out[1]>>) = 1
        /\ Tail(out) \in Seq(Messages) /\ Len(Tail(out)) = Len(out) - 1
    BY <1>1, <1>2, HeadFacts
  <2> QED BY <1>1, <1>2, <1>3, <2>1, ConcurrencyAssumption
<1>5. Said' = out
  BY <1>1, <1>2, HeadFacts DEF Said
<1>6. CASE consumed = <<>>
  <2>1. Said = out
    <3>1. <<>> \o out = out
      BY <1>2
    <3> QED BY <1>6, <3>1 DEF Said
  <2> QED BY <1>1, <1>2, <1>4, <1>5, <2>1
<1>7. CASE consumed # <<>>
  <2>1. Len(consumed) = 1 /\ 1 \in 1..Len(consumed)
    <3> DEFINE n == Len(consumed)
    <3>1. n > 0 /\ n <= 1 /\ n \in Nat
      BY <1>2, <1>7
    <3> HIDE DEF n
    <3>2. n = 1 /\ 1 \in 1..n
      BY <3>1
    <3> QED BY <3>2 DEF n
  <2>2. /\ Said \in Seq(Messages) /\ Len(Said) = Len(consumed) + Len(out) /\ Said[1] = consumed[1]
        /\ \A i \in 1..Len(out) : Said[Len(consumed) + i] = out[i]
    BY <1>2, <2>1, ConcatFacts DEF Said
  <2>3. Len(Said) = Len(out) + 1 /\ \A i \in 1..Len(out) : Said[i + 1] = out[i]
    <3>1. \A i \in 1..Len(out) : Len(consumed) + i = i + 1
      BY <1>3, <2>1
    <3> QED BY <1>3, <2>1, <2>2, <3>1
  <2>4. ~IsFinal(consumed[1])
    BY <1>1, <1>7, <2>1 DEF Last, IsFinal
  <2> QED BY <1>1, <1>2, <1>4, <1>5, <2>2, <2>3, <2>4
<1> QED BY <1>6, <1>7

\* The reader takes a message.
LEMMA ReadKeeps ==
  ASSUME RunInv, Read
  PROVE  RunInv'
<1>1. UNCHANGED <<tpc, ran, chan, closed, ppc, open, doneBy, final, reports, held, outClosed, abort, closing>>
  BY DEF Read, threadVars, parentVars
<1>2. RunTypes /\ TypeOK /\ SaidInv /\ HeldInv
  BY DEF RunInv, RunTypes
<1>3. /\ consumed' \in Seq(Messages) /\ Len(consumed') <= 1 /\ out' \in Seq(Messages) /\ Len(out') <= OutCap
      /\ Said' = out /\ out # <<>> /\ out \in Seq(Messages)
      /\ \/ Said = out
         \/ /\ Len(Said) = Len(out) + 1 /\ ~IsFinal(Said[1])
            /\ \A i \in 1..Len(out) : Said[i + 1] = out[i]
  BY <1>2, ReadFacts
<1>4. RunTypes'
  BY <1>1, <1>2, <1>3 DEF RunTypes, TypeOK
<1>5. ThreadInv' /\ CountInv'
  BY <1>1, ThreadsKept DEF Adding
<1>6. TotalOf(doneBy)' = TotalOf(doneBy) /\ (Complete' <=> Complete)
  BY <1>1, Counts DEF TotalOf, Totals
<1>7. HeldInv'
  BY <1>1, <1>2, <1>6 DEF HeldInv, Progress, Final
<1>8. Len(out) \in Nat /\ Len(out) > 0
  BY <1>3
<1>9. \A i \in 1..Len(out) : \E j \in 1..Len(Said) : Said[j] = out[i]
  <2>1. CASE Said = out
    BY <2>1
  <2>2. CASE Said # out
    <3>1. \A i \in 1..Len(out) : i + 1 \in 1..Len(Said) /\ Said[i + 1] = out[i]
      BY <1>3, <1>8, <2>2
    <3> QED BY <3>1
  <2> QED BY <2>1, <2>2
<1>10. Silent(Said) <=> Silent(out)
  <2>1. CASE Said = out
    BY <2>1
  <2>2. CASE Said # out
    <3>1. Len(Said) = Len(out) + 1 /\ ~IsFinal(Said[1]) /\ \A i \in 1..Len(out) : Said[i + 1] = out[i]
      BY <1>3, <2>2
    <3>2. \A j \in 1..Len(Said) : j = 1 \/ (j - 1 \in 1..Len(out) /\ Said[j] = out[j - 1])
      <4> TAKE j \in 1..Len(Said)
      <4>1. j = 1 \/ (j - 1 \in 1..Len(out) /\ (j - 1) + 1 = j)
        BY <1>8, <3>1
      <4> QED BY <3>1, <4>1
    <3> QED BY <1>9, <3>1, <3>2 DEF Silent
  <2> QED BY <2>1, <2>2
<1>11. Said # <<>> /\ Said[Len(Said)] = out[Len(out)]
  <2>1. CASE Said = out
    BY <1>3, <2>1
  <2>2. CASE Said # out
    <3>1. Len(Said) = Len(out) + 1 /\ Len(out) \in 1..Len(out) /\ Said[Len(out) + 1] = out[Len(out)]
      BY <1>3, <1>8, <2>2
    <3> QED BY <1>8, <3>1
  <2> QED BY <2>1, <2>2
<1>12. SaidInv'
  <2>1. /\ NoOutcomeYet' => Silent(Said)'
        /\ OutcomeSent' => ~Silent(Said)'
    BY <1>1, <1>2, <1>3, <1>10 DEF SaidInv, NoOutcomeYet, OutcomeSent, Silent, IsFinal
  <2>2. (Adding /\ Said # <<>> => Said[Len(Said)].done <= TotalOf(doneBy))'
    BY <1>1, <1>2, <1>3, <1>6, <1>11 DEF SaidInv, Adding
  <2>3. \A i \in 1..Len(out) : Truthful(out[i])
    BY <1>2, <1>9 DEF SaidInv
  <2>4. (\A i \in 1..Len(Said) : Truthful(Said[i]))'
    BY <1>3, <1>6, <2>3 DEF Truthful
  <2>5. (outClosed <=> ppc = "done")'
    BY <1>1, <1>2 DEF SaidInv
  <2> QED BY <2>1, <2>2, <2>4, <2>5 DEF SaidInv
<1> QED BY <1>4, <1>5, <1>7, <1>12 DEF RunInv

-----------------------------------------------------------------------------
(* The invariant holds, and what follows from it *)

\* Every step keeps the invariant.
LEMMA RunNext == RunInv /\ [Next]_vars => RunInv'
<1> SUFFICES ASSUME RunInv, [Next]_vars PROVE RunInv'
  OBVIOUS
<1>1. ASSUME NEW t \in Threads, ThreadStep(t) PROVE RunInv'
  BY <1>1, ThreadKeeps
<1>2. ASSUME NEW t \in Threads, ReceiveAborted(t) \/ ReceiveProgress(t) \/ ReceiveEnd(t) PROVE RunInv'
  BY <1>2, AbortedKeeps, ProgressKeeps, EndKeeps
<1>3. CASE Combine
  BY <1>3, CombineKeeps
<1>4. CASE SendOut
  BY <1>4, SendKeeps
<1>5. CASE ParentLooks \/ ParentTriggers \/ CloseOut \/ ClientLooks \/ ClientTriggers
  BY <1>5, EndingKeeps
<1>6. CASE Read
  BY <1>6, ReadKeeps
<1>7. CASE UNCHANGED vars
  <2> USE DEF vars, threadVars, parentVars, outVars
  <2>1. RunTypes'
    BY <1>7 DEF RunInv, RunTypes, TypeOK
  <2>2. ThreadInv' /\ CountInv'
    BY <1>7, ThreadsKept DEF Adding
  <2>3. HeldInv'
    BY <1>7 DEF RunInv, HeldInv, Progress, Final, TotalOf, Totals, Complete
  <2>4. SaidInv'
    BY <1>7, Counts, SaidKept DEF NoOutcomeYet, OutcomeSent, Adding
  <2> QED BY <2>1, <2>2, <2>3, <2>4 DEF RunInv
<1> QED BY <1>1, <1>2, <1>3, <1>4, <1>5, <1>6, <1>7 DEF Next, ParentStep

\* The invariant of the request.
LEMMA RunInvariant == Spec => []RunInv
BY RunInit, RunNext, PTL DEF Spec

\* A success handed to the reader stands for every iteration asked for, each on a seed of its
\* own, however the threads, the parent, an abort and a failure interleave (runSimConcurrent).
THEOREM SuccessCorrect == Spec => []SuccessIsComplete
<1>1. RunInv => SuccessIsComplete
  <2> SUFFICES ASSUME RunInv PROVE SuccessIsComplete
    OBVIOUS
  <2>1. TypeOK
    BY DEF RunInv, RunTypes
  <2>2. ASSUME NEW i \in 1..Len(Said), Said[i].result = "ok"
        PROVE  Said[i].done = Iterations /\ Complete
    BY <2>2 DEF RunInv, SaidInv, Truthful
  <2> QED BY <2>1, <2>2, SeedsCover DEF SuccessIsComplete
<1> QED BY <1>1, RunInvariant, PTL

-----------------------------------------------------------------------------
(* The run implements what its reader is promised *)

\* What the reader heard last is a report until an outcome was said.
LEMMA LastFacts ==
  ASSUME TypeOK
  PROVE  /\ LastHeard = LastOf(Said)
         /\ LastHeard.done \in 0..Iterations
         /\ LastHeard.result = "none" <=> Silent(Said)
<1>1. LastHeard = LastOf(Said)
  BY DEF LastHeard, Heard, LastOf
<1>2. Said \in Seq(Messages) /\ Len(Said) \in Nat
  BY SaidType
<1>3. CASE Silent(Said)
  <2>1. LastHeard = IF Said = <<>> THEN Progress(0) ELSE Said[Len(Said)]
    BY <1>1, <1>2, <1>3, HeardFacts
  <2>2. CASE Said = <<>>
    BY <1>1, <1>3, <2>1, <2>2, FieldFacts, ConcurrencyAssumption
  <2>3. CASE Said # <<>>
    <3>1. Len(Said) \in 1..Len(Said) /\ Said[Len(Said)] \in Messages
      BY <1>2, <2>3
    <3>2. ~IsFinal(Said[Len(Said)])
      BY <1>3, <3>1 DEF Silent
    <3> QED BY <1>1, <1>3, <2>1, <2>3, <3>1, <3>2, MessageFacts
  <2> QED BY <2>2, <2>3
<1>4. CASE ~Silent(Said)
  <2>1. PICK k : FirstFinal(Said, k)
    BY <1>2, <1>4, HeardFacts
  <2>2. LastHeard = Said[k]
    BY <1>1, <1>2, <2>1, HeardFacts
  <2>3. Said[k] \in Messages /\ IsFinal(Said[k])
    BY <1>2, <2>1 DEF FirstFinal
  <2> QED BY <1>1, <1>4, <2>2, <2>3, MessageFacts
<1> QED BY <1>3, <1>4

\* A message of the parent is a report that tells no less, the outcome, or behind the outcome.
LEMMA SendPromised ==
  ASSUME RunInv, RunInv', SendOut
  PROVE  [Promise!Next]_Promise!vars
<1>1. /\ held \in Messages /\ Said \in Seq(Messages) /\ Said' = Append(Said, held)
      /\ ppc = "send" => held = Progress(TotalOf(doneBy))
      /\ ppc # "send" => IsFinal(held) /\ held.result \in {"ok", "aborted", "error"}
      /\ held.result # "ok" /\ ppc # "send" => held.done = 0
      /\ Truthful(held)
  BY SendFacts
<1>2. TypeOK /\ TypeOK' /\ SaidInv
  BY DEF RunInv, RunTypes
<1>3. /\ LastHeard = LastOf(Said) /\ LastHeard.done \in 0..Iterations
      /\ LastHeard.result = "none" <=> Silent(Said)
  BY <1>2, LastFacts
<1>4. LastHeard' = LastOf(Said')
  BY DEF LastHeard, Heard, LastOf, Progress
<1>5. Said' \in Seq(Messages)
  BY <1>1
<1>6. outClosed' = outClosed
  BY DEF SendOut
<1> DEFINE n == Len(Said)
<1>7. /\ n \in Nat /\ Len(Said') = n + 1 /\ Said'[n + 1] = held /\ Said' # <<>>
      /\ \A i \in 1..n : Said'[i] = Said[i]
  BY <1>1
<1>8. \A i \in 1..(n + 1) : i \in 1..n \/ i = n + 1
  BY <1>7
<1>9. TotalOf(doneBy) \in 0..Iterations
  BY Counts, TotalFacts
<1>10. CASE ppc = "send"
  <2>1. held = Progress(TotalOf(doneBy)) /\ ~IsFinal(held) /\ held.done = TotalOf(doneBy) /\ held.result = "none"
    BY <1>1, <1>9, <1>10, FieldFacts
  <2>2. Silent(Said)
    BY <1>2, <1>10 DEF SaidInv, NoOutcomeYet
  <2>3. Silent(Said')
    BY <1>7, <1>8, <2>1, <2>2 DEF Silent
  <2>4. LastHeard' = held
    BY <1>4, <1>5, <1>7, <2>3, HeardFacts
  <2>5. LastHeard.done <= TotalOf(doneBy)
    <3>1. LastHeard = IF Said = <<>> THEN Progress(0) ELSE Said[Len(Said)]
      BY <1>1, <1>3, <2>2, HeardFacts
    <3>2. CASE Said = <<>>
      BY <1>9, <3>1, <3>2, FieldFacts, ConcurrencyAssumption
    <3>3. CASE Said # <<>>
      BY <1>2, <1>10, <3>1, <3>3 DEF SaidInv, Adding
    <3> QED BY <3>2, <3>3
  <2>6. LastHeard'.done \in LastHeard.done..Iterations
    BY <1>3, <1>9, <2>1, <2>4, <2>5
  <2>7. LastHeard.result = "none" /\ LastHeard'.result = "none"
    BY <1>3, <2>1, <2>2, <2>4
  <2>8. Promise!Tell
    BY <1>6, <2>6, <2>7 DEF Promise!Tell
  <2> QED BY <2>8 DEF Promise!Next
<1>11. CASE ppc # "send" /\ Silent(Said)
  <2>1. FirstFinal(Said', n + 1)
    <3>1. n + 1 \in 1..Len(Said') /\ (n + 1) - 1 = n
      BY <1>7
    <3> QED BY <1>1, <1>7, <1>11, <3>1 DEF FirstFinal, Silent
  <2>2. LastHeard' = held
    BY <1>4, <1>5, <1>7, <2>1, HeardFacts
  <2>3. LastHeard.result = "none"
    BY <1>3, <1>11
  <2>4. \/ held.result = "ok" /\ held.done = Iterations
        \/ held.result \in {"aborted", "error"} /\ held.done = 0
    BY <1>1, <1>11 DEF Truthful
  <2>5. Promise!Finish
    BY <1>6, <2>2, <2>3, <2>4 DEF Promise!Finish
  <2> QED BY <2>5 DEF Promise!Next
<1>12. CASE ~Silent(Said)
  <2>1. PICK k : FirstFinal(Said, k)
    BY <1>1, <1>12, HeardFacts
  <2>2. FirstFinal(Said', k)
    <3>1. k \in 1..n /\ k \in 1..Len(Said') /\ \A i \in 1..(k - 1) : i \in 1..n
      BY <1>7, <2>1 DEF FirstFinal
    <3> QED BY <1>7, <2>1, <3>1 DEF FirstFinal
  <2>3. LastHeard = Said[k] /\ LastHeard' = Said'[k]
    BY <1>1, <1>3, <1>4, <1>5, <2>1, <2>2, HeardFacts
  <2>4. LastHeard' = LastHeard
    BY <1>7, <2>1, <2>3 DEF FirstFinal
  <2> QED BY <1>6, <2>4 DEF Promise!vars
<1> QED BY <1>10, <1>11, <1>12

\* A read is nothing new.
LEMMA ReadPromised ==
  ASSUME RunInv, Read
  PROVE  UNCHANGED Promise!vars
<1>1. RunTypes /\ TypeOK
  BY DEF RunInv, RunTypes
<1>2. /\ Said' = out /\ out # <<>> /\ out \in Seq(Messages) /\ Said \in Seq(Messages)
      /\ \/ Said = out
         \/ /\ Len(Said) = Len(out) + 1 /\ ~IsFinal(Said[1])
            /\ \A i \in 1..Len(out) : Said[i + 1] = out[i]
  BY <1>1, ReadFacts
<1>3. LastHeard = LastOf(Said) /\ LastHeard' = LastOf(out) /\ outClosed' = outClosed
  BY <1>2 DEF LastHeard, Heard, LastOf, Progress, Read
<1>4. Len(out) \in Nat /\ Len(out) > 0
  BY <1>2
<1>5. CASE Said = out
  BY <1>3, <1>5 DEF Promise!vars
<1>6. CASE Said # out
  <2>1. /\ Len(Said) = Len(out) + 1 /\ ~IsFinal(Said[1])
        /\ \A i \in 1..Len(out) : Said[i + 1] = out[i]
    BY <1>2, <1>6
  <2>2. \A j \in 1..Len(Said) : j = 1 \/ (j - 1 \in 1..Len(out) /\ Said[j] = out[j - 1])
    <3> TAKE j \in 1..Len(Said)
    <3>1. j = 1 \/ (j - 1 \in 1..Len(out) /\ (j - 1) + 1 = j)
      BY <1>4, <2>1
    <3> QED BY <2>1, <3>1
  <2>3. CASE Silent(out)
    <3>1. Silent(Said)
      BY <2>1, <2>2, <2>3 DEF Silent
    <3>2. Said # <<>> /\ Said[Len(Said)] = out[Len(out)]
      <4>1. Len(out) \in 1..Len(out) /\ Said[Len(out) + 1] = out[Len(out)]
        BY <1>4, <2>1
      <4> QED BY <1>4, <2>1, <4>1
    <3>3. LastHeard = LastHeard'
      BY <1>2, <1>3, <2>3, <3>1, <3>2, HeardFacts
    <3> QED BY <1>3, <3>3 DEF Promise!vars
  <2>4. CASE ~Silent(out)
    <3>1. PICK k : FirstFinal(out, k)
      BY <1>2, <2>4, HeardFacts
    <3>2. k \in 1..Len(out) /\ k + 1 \in 1..Len(Said) /\ Said[k + 1] = out[k] /\ (k + 1) - 1 = k
      BY <1>4, <2>1, <3>1 DEF FirstFinal
    <3>3. ASSUME NEW i \in 1..k PROVE ~IsFinal(Said[i])
      <4>1. i \in 1..Len(Said) /\ (i = 1 \/ i - 1 \in 1..(k - 1))
        BY <1>4, <2>1, <3>2
      <4> QED BY <2>1, <2>2, <3>1, <4>1 DEF FirstFinal
    <3>4. FirstFinal(Said, k + 1)
      BY <3>1, <3>2, <3>3 DEF FirstFinal
    <3>5. LastHeard = Said[k + 1] /\ LastHeard' = out[k]
      BY <1>2, <1>3, <3>1, <3>4, HeardFacts
    <3> QED BY <1>3, <3>2, <3>5 DEF Promise!vars
  <2> QED BY <2>3, <2>4
<1> QED BY <1>5, <1>6

\* The end comes behind the outcome.
LEMMA ClosePromised ==
  ASSUME RunInv, CloseOut
  PROVE  Promise!Close
<1>1. /\ ppc = "closeOut" /\ outClosed' = TRUE /\ out' = out /\ consumed' = consumed
  BY DEF CloseOut
<1>2. TypeOK /\ SaidInv
  BY DEF RunInv, RunTypes
<1>3. outClosed = FALSE /\ ~Silent(Said)
  BY <1>1, <1>2 DEF SaidInv, TypeOK, OutcomeSent
<1>4. LastHeard.result # "none"
  BY <1>2, <1>3, LastFacts
<1>5. LastHeard' = LastHeard
  BY <1>1 DEF LastHeard, Heard, Said, Progress
<1> QED BY <1>1, <1>3, <1>4, <1>5 DEF Promise!Close

\* Every step is one the reader was promised, or none of its business.
LEMMA StepPromised == RunInv /\ RunInv' /\ [Next]_vars => [Promise!Next]_Promise!vars
<1> SUFFICES ASSUME RunInv, RunInv', [Next]_vars PROVE [Promise!Next]_Promise!vars
  OBVIOUS
<1>1. CASE SendOut
  BY <1>1, SendPromised
<1>2. CASE Read
  BY <1>2, ReadPromised
<1>3. CASE CloseOut
  BY <1>3, ClosePromised DEF Promise!Next
<1>4. CASE UNCHANGED outVars
  BY <1>4 DEF outVars, Promise!vars, LastHeard, Heard, Said, Progress
<1>5. SendOut \/ Read \/ CloseOut \/ UNCHANGED outVars
  <2>1. ASSUME NEW t \in Threads, ThreadStep(t) PROVE UNCHANGED outVars
    BY <2>1, ThreadFrame DEF RunInv
  <2>2. ASSUME NEW t \in Threads, ReceiveAborted(t) \/ ReceiveProgress(t) \/ ReceiveEnd(t)
        PROVE  UNCHANGED outVars
    BY <2>2 DEF ReceiveAborted, ReceiveProgress, ReceiveEnd
  <2>3. CASE Combine \/ ParentLooks \/ ParentTriggers \/ ClientLooks \/ ClientTriggers
    BY <2>3 DEF Combine, ParentLooks, ParentTriggers, ClientLooks, ClientTriggers
  <2>4. CASE UNCHANGED vars
    BY <2>4 DEF vars
  <2> QED BY <2>1, <2>2, <2>3, <2>4 DEF Next, ParentStep
<1> QED BY <1>1, <1>2, <1>3, <1>4, <1>5

\* The run implements SimRequest, but for the end it promises: the counts its reader is told
\* grow, there is one outcome, and behind it the end (KeepsPromise without its liveness).
THEOREM PromiseKept == Spec => Promise!Safety
<1>1. Init => Promise!Init
  <2> SUFFICES ASSUME Init PROVE Promise!Init
    OBVIOUS
  <2>1. Said = <<>> /\ outClosed = FALSE
    BY DEF Init, Said
  <2>2. TypeOK
    BY RunInit DEF RunInv, RunTypes
  <2>3. LastHeard = Progress(0)
    <3>1. Silent(Said)
      BY <2>1 DEF Silent
    <3> QED BY <2>1, <2>2, <3>1, LastFacts, HeardFacts, SaidType
  <2>4. LastHeard.done = 0 /\ LastHeard.result = "none"
    BY <2>3, FieldFacts, ConcurrencyAssumption
  <2> QED BY <2>1, <2>4 DEF Promise!Init
<1> QED BY <1>1, RunInvariant, StepPromised, PTL DEF Spec, Promise!Safety

=============================================================================
