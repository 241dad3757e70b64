----------------------------- MODULE QueueProofs ------------------------------
(***************************************************************************)
(* Theorems about the page's queue of simulations (SimQueue) and about a   *)
(* player's rotation and its actions on the event queue (SpellQueue).  The *)
(* two components have nothing in common: the first part is about the      *)
(* first, the second about the second.                                     *)
(***************************************************************************)
EXTENDS SimQueue, SpellQueue, FiniteSetTheorems, WellFoundedInduction, TLAPS


-----------------------------------------------------------------------------
(* Numbers *)

\* A set of naturals with a least element.
HasLeast(T) == \E m \in T : \A k \in T : m <= k

\* A set of naturals that is not empty has a least element: what stands in for an
\* induction over a length, as a least counterexample.
LEMMA LeastNatural == ASSUME NEW T, T \subseteq Nat, T # {} PROVE HasLeast(T)
<1> DEFINE R == OpToRel(<, Nat)
<1>1. \E m \in T : \A k \in T : ~(<<k, m>> \in R)
  <2>1. IsWellFoundedOn(R, Nat)
    BY NatLessThanWellFounded
  <2> HIDE DEF R
  <2> QED BY <2>1, WFMin
<1>2. PICK m \in T : \A k \in T : ~(<<k, m>> \in OpToRel(<, Nat))
  BY <1>1
<1>3. ASSUME NEW k \in T PROVE m <= k
  <2>1. ~(<<k, m>> \in {ss \in Nat \X Nat : ss[1] < ss[2]})
    BY <1>2 DEF OpToRel
  <2>2. ~(k < m)
    BY <2>1
  <2> QED BY <2>2
<1> QED BY <1>3 DEF HasLeast

-----------------------------------------------------------------------------
(* The queue of sims *)

-----------------------------------------------------------------------------
(* The invariant. What the page's code keeps is stated of a record like State, *)
(* so that each call of it can be followed from record to record.              *)

Calls ==
    [call : {"sim", "abort"}, of : Splits] \cup [call : {"split"}, of : (1..Sims) \X {0}]
Places ==
    [at : {"begin", "split", "claimed", "sim", "done"},
     sim : 0..Sims, split : 0..Workers, worker : 0..Workers]
States ==
    [box : [Loops -> Seq(Calls)], refused : SUBSET Splits, triggered : BOOLEAN,
     errors : SUBSET {"failed", "aborted"}, memo : SUBSET (1..Sims),
     promise : [1..Sims -> {"none", "asked", "ok", "failed"}],
     nextSim : 1..(Sims + 1), nextSplit : 1..Workers, loop : [Loops -> Places]]

\* A loop that has a split, and the split.
Has(S, w) == S.loop[w].at \in {"claimed", "sim"}
Of(S, w) == <<S.loop[w].sim, S.loop[w].split>>
\* The splits that have been claimed.
Gone(S, s, i) == s < S.nextSim \/ (s = S.nextSim /\ i < S.nextSplit)

TurnInv(S) ==
    /\ S.nextSim <= Sims => S.nextSplit <= SplitsOf(S.nextSim)
    /\ S.nextSim > Sims => S.nextSplit = 1

\* No two loops have the same split, and what they have is gone.
LoopInv(S) ==
    /\ \A w \in Loops : Has(S, w) =>
          /\ S.loop[w].sim \in 1..Sims /\ S.loop[w].split \in 1..SplitsOf(S.loop[w].sim)
          /\ Gone(S, S.loop[w].sim, S.loop[w].split)
    /\ \A w \in Loops : S.loop[w].at = "sim" => S.loop[w].worker \in Loops
    /\ \A w \in Loops : S.loop[w].at = "split" => S.loop[w].sim \in 1..Sims
    /\ \A w, v \in Loops : Has(S, w) /\ Has(S, v) /\ Of(S, w) = Of(S, v) => w = v
    /\ \A w \in Loops : S.loop[w].at = "done" /\ S.errors = {} => S.nextSim > Sims

\* The split requests of a sim are asked for once, and kept until its last split is gone.
AskedAt(S, k, i, s) == S.box[k][i] = Call("split", <<s, 0>>)
PromiseInv(S) ==
    /\ \A s \in 1..Sims : s \in S.memo => S.promise[s] # "none"
    /\ \A s \in 1..Sims : s >= S.nextSim /\ S.promise[s] # "none" => s \in S.memo
    /\ \A s \in 1..Sims : Gone(S, s, 1) => S.promise[s] = "ok"
    /\ \A s \in 1..Sims : \A k \in Loops : \A i \in 1..Len(S.box[k]) :
          AskedAt(S, k, i, s) =>
              /\ S.promise[s] = "asked"
              /\ \A l \in Loops : \A j \in 1..Len(S.box[l]) : AskedAt(S, l, j, s) => l = k /\ j = i

\* What an abort or a failure leaves.
StopInv(S) == S.errors # {} => S.triggered
CauseInv(S, fails, user) ==
    /\ S.triggered \/ S.errors # {} => user \/ "failed" \in S.errors
    /\ "failed" \in S.errors => fails > 0
    /\ \A s \in 1..Sims : S.promise[s] = "failed" => fails > 0
    /\ fails > 0 => "failed" \in S.errors \/ \E s \in 1..Sims : S.promise[s] = "failed"
AbortInv(S, cut) ==
    /\ cut # {} => S.triggered
    /\ \A k \in Loops : \A i \in 1..Len(S.box[k]) : S.box[k][i].call = "abort" => S.triggered

\* A split on a worker, or on its way there, is one that a loop awaits from it.
AwaitedFrom(S, k, of) == \E w \in Loops : S.loop[w].at = "sim" /\ S.loop[w].worker = k /\ Of(S, w) = of
SentAt(S, k, i, of) == S.box[k][i] = Call("sim", of)
OnWorkerInv(S, run) ==
    \A k \in Loops :
        /\ \A of \in run[k] : AwaitedFrom(S, k, of)
        /\ \A of \in Splits : \A i \in 1..Len(S.box[k]) :
              SentAt(S, k, i, of) =>
                  /\ AwaitedFrom(S, k, of) /\ of \notin run[k]
                  /\ \A j \in 1..Len(S.box[k]) : SentAt(S, k, j, of) => j = i

\* A split that is gone is with a loop or back, unless the queue is stopped.
BackInv(S, back, count, told) ==
    /\ \A s \in 1..Sims :
          /\ back[s] \subseteq 1..SplitsOf(s) /\ count[s] = Cardinality(back[s])
          /\ \A i \in back[s] : Gone(S, s, i)
          /\ told[s] = IF back[s] = 1..SplitsOf(s) THEN 1 ELSE 0
    /\ \A w \in Loops : Has(S, w) => S.loop[w].split \notin back[S.loop[w].sim]
    /\ S.errors = {} =>
          \A s \in 1..Sims : \A i \in 1..SplitsOf(s) :
              Gone(S, s, i) => i \in back[s] \/ \E w \in Loops : Has(S, w) /\ Of(S, w) = <<s, i>>

\* While the pool keeps its size a split is sent to its loop's own worker.
OwnInv(S) == \A w \in Loops : S.loop[w].at = "sim" => S.loop[w].worker = w

EndInv(S, end) ==
    end # Nil =>
        /\ \A w \in Loops : S.loop[w].at = "done"
        /\ end = IF S.errors = {} THEN "ok" ELSE IF "failed" \in S.errors THEN "failed" ELSE "aborted"

OtherTypes ==
    /\ pool \in 1..Workers /\ resizes \in 0..MaxResizes /\ failures \in 0..MaxFailures
    /\ running \in [Loops -> SUBSET Splits] /\ hit \subseteq Splits
    /\ aborted \in BOOLEAN
    /\ results \in [1..Sims -> SUBSET Loops]
    /\ returned \in [1..Sims -> Nat] /\ finished \in [1..Sims -> Nat]
    /\ outcome \in {"ok", "failed", "aborted", Nil}

PageInv(S) == S \in States /\ TurnInv(S) /\ LoopInv(S) /\ PromiseInv(S)

QueueInv ==
    /\ OtherTypes
    /\ PageInv(State) /\ StopInv(State)
    /\ CauseInv(State, failures, aborted) /\ AbortInv(State, hit)
    /\ OnWorkerInv(State, running)
    /\ BackInv(State, results, returned, finished)
    /\ resizes = 0 => pool = Workers /\ OwnInv(State)
    /\ EndInv(State, outcome)

-----------------------------------------------------------------------------
(* Triggering the abort *)

\* The boxes of R are those of S with aborts added.
AbortsAdded(S, R) ==
    \A k \in Loops :
        /\ Len(S.box[k]) <= Len(R.box[k])
        /\ \A i \in 1..Len(R.box[k]) :
              IF i <= Len(S.box[k]) THEN R.box[k][i] = S.box[k][i] ELSE R.box[k][i].call = "abort"

AbortCalls == [call : {"abort"}, of : Splits]
AbortsFor(S, k) == SetToSeq({Call("abort", of) : of \in Awaited(S, k)})

\* The aborts for one worker form a sequence.
LEMMA AbortsSeq ==
  ASSUME NEW S \in States, LoopInv(S), NEW k \in Loops
  PROVE  /\ AbortsFor(S, k) \in Seq(Calls) /\ Len(AbortsFor(S, k)) \in Nat
         /\ \A i \in 1..Len(AbortsFor(S, k)) : AbortsFor(S, k)[i].call = "abort"
<1> DEFINE W == {v \in Loops : S.loop[v].at = "sim" /\ S.loop[v].worker = k}
           T == {Call("abort", of) : of \in Awaited(S, k)}
           g == [v \in W |-> Call("abort", Of(S, v))]
           n == Cardinality(T)
<1>1. IsFiniteSet(W)
  <2>1. IsFiniteSet(Loops)
    BY FS_Interval, SimQueueAssumption DEF Loops
  <2> QED BY <2>1, FS_Subset
<1>2. T = {Call("abort", Of(S, v)) : v \in W}
  BY DEF Awaited, Of
<1>3. IsFiniteSet(T)
  <2>1. g \in Surjection(W, T)
    BY <1>2 DEF Surjection
  <2> HIDE DEF T, W, g
  <2> QED BY <1>1, <2>1, FS_Surjection
<1>4. n \in Nat /\ \E f \in [1..n -> T] : IsInjective(f)
  BY <1>3, FS_CardinalityType DEF ExistsBijection, Bijection, Injection
<1>5. SetToSeq(T) \in [1..n -> T]
  BY <1>4 DEF SetToSeq
<1>6. T \subseteq AbortCalls
  <2>1. \A v \in W : Of(S, v) \in Splits
    BY SimQueueAssumption DEF LoopInv, Has, Of, Splits
  <2> QED BY <1>2, <2>1 DEF Call, AbortCalls
<1>7. AbortsFor(S, k) = SetToSeq(T)
  BY DEF AbortsFor
<1> HIDE DEF T, n
<1>8. \A i \in 1..n : SetToSeq(T)[i] \in AbortCalls /\ SetToSeq(T)[i] \in Calls
  BY <1>5, <1>6 DEF AbortCalls, Calls
<1>9. SetToSeq(T) \in [1..n -> Calls]
  BY <1>5, <1>8
<1>10. SetToSeq(T) \in Seq(Calls) /\ Len(SetToSeq(T)) = n
  BY <1>4, <1>9
<1> QED BY <1>4, <1>7, <1>8, <1>10 DEF AbortCalls

\* What a trigger changes.
LEMMA TriggerFacts ==
  ASSUME NEW S \in States, LoopInv(S), pool \in 1..Workers
  PROVE  LET R == Trigger(S)
         IN  /\ R \in States /\ R.loop = S.loop /\ R.errors = S.errors /\ R.memo = S.memo
             /\ R.promise = S.promise /\ R.nextSim = S.nextSim /\ R.nextSplit = S.nextSplit
             /\ R.triggered = TRUE
             /\ AbortsAdded(S, R)
<1> DEFINE b == [k \in Loops |-> IF k <= pool
                    THEN S.box[k] \o AbortsFor(S, k)
                    ELSE S.box[k]]
           r == S.refused \cup UNION {Awaited(S, k) : k \in (pool + 1)..Workers}
<1>1. CASE S.triggered
  BY <1>1 DEF Trigger, States, AbortsAdded
<1>2. CASE ~S.triggered
  <2>1. Trigger(S) = [box |-> b, refused |-> r, triggered |-> TRUE, errors |-> S.errors,
                      memo |-> S.memo, promise |-> S.promise, nextSim |-> S.nextSim,
                      nextSplit |-> S.nextSplit, loop |-> S.loop]
    BY <1>2 DEF Trigger, States, AbortsFor
  <2>2. \A k \in Loops : S.box[k] \in Seq(Calls)
    BY DEF States
  <2>3. ASSUME NEW k \in Loops
        PROVE  /\ b[k] \in Seq(Calls) /\ Len(S.box[k]) <= Len(b[k])
               /\ \A i \in 1..Len(b[k]) :
                     IF i <= Len(S.box[k]) THEN b[k][i] = S.box[k][i] ELSE b[k][i].call = "abort"
    <3> DEFINE q == AbortsFor(S, k)
    <3>1. /\ q \in Seq(Calls) /\ Len(q) \in Nat /\ Len(S.box[k]) \in Nat
          /\ \A i \in 1..Len(q) : q[i].call = "abort"
      BY <2>2, AbortsSeq
    <3>2. b[k] = IF k <= pool THEN S.box[k] \o q ELSE S.box[k]
      OBVIOUS
    <3> HIDE DEF b, q
    <3>3. CASE k <= pool
      <4>1. /\ b[k] = S.box[k] \o q /\ b[k] \in Seq(Calls)
            /\ Len(b[k]) = Len(S.box[k]) + Len(q)
        BY <2>2, <3>1, <3>2, <3>3
      <4>2. \A i \in 1..Len(b[k]) :
               b[k][i] = IF i <= Len(S.box[k]) THEN S.box[k][i] ELSE q[i - Len(S.box[k])]
        BY <2>2, <3>1, <4>1
      <4> QED BY <3>1, <4>1, <4>2
    <3>4. CASE ~(k <= pool)
      BY <2>2, <3>2, <3>4
    <3> QED BY <3>3, <3>4
  <2>4. r \subseteq Splits
    <3>1. \A k \in Loops : Awaited(S, k) \subseteq Splits
      BY SimQueueAssumption DEF LoopInv, Has, Awaited, Splits
    <3>2. (pool + 1)..Workers \subseteq Loops
      BY SimQueueAssumption DEF Loops
    <3>3. S.refused \subseteq Splits
      BY DEF States
    <3> QED BY <3>1, <3>2, <3>3
  <2>5. b \in [Loops -> Seq(Calls)]
    BY <2>3
  <2> HIDE DEF b, r
  <2>6. Trigger(S) \in States
    BY <2>1, <2>4, <2>5 DEF States
  <2>7. AbortsAdded(S, Trigger(S))
    BY <2>1, <2>3 DEF AbortsAdded
  <2> QED BY <2>1, <2>6, <2>7
<1> QED BY <1>1, <1>2

\* A trigger keeps what the page keeps and what is on the workers.
LEMMA TriggerKeeps ==
  ASSUME NEW S, PageInv(S), pool \in 1..Workers
  PROVE  /\ PageInv(Trigger(S)) /\ StopInv(Trigger(S)) /\ \A cut : AbortInv(Trigger(S), cut)
         /\ \A run : OnWorkerInv(S, run) => OnWorkerInv(Trigger(S), run)
         /\ \A back, count, told : BackInv(S, back, count, told) => BackInv(Trigger(S), back, count, told)
<1> DEFINE R == Trigger(S)
<1>1. /\ S \in States /\ R \in States /\ R.loop = S.loop /\ R.errors = S.errors /\ R.memo = S.memo
      /\ R.promise = S.promise /\ R.nextSim = S.nextSim /\ R.nextSplit = S.nextSplit
      /\ R.triggered = TRUE
      /\ AbortsAdded(S, R)
  BY TriggerFacts DEF PageInv
<1> HIDE DEF R
<1>2. TurnInv(R) /\ LoopInv(R)
  BY <1>1 DEF PageInv, TurnInv, LoopInv, Has, Of, Gone
<1>3. \A k \in Loops : Len(S.box[k]) \in Nat /\ Len(R.box[k]) \in Nat
  BY <1>1 DEF States
<1>4. ASSUME NEW k \in Loops, NEW i \in 1..Len(R.box[k]), R.box[k][i].call # "abort"
      PROVE  i \in 1..Len(S.box[k]) /\ R.box[k][i] = S.box[k][i]
  BY <1>1, <1>3, <1>4 DEF AbortsAdded
<1>5. PromiseInv(R)
  <2>1. ASSUME NEW k \in Loops, NEW i \in 1..Len(R.box[k]), NEW s \in 1..Sims, AskedAt(R, k, i, s)
        PROVE  i \in 1..Len(S.box[k]) /\ AskedAt(S, k, i, s)
    BY <1>4, <2>1 DEF AskedAt, Call
  <2>2. PromiseInv(S)
    BY DEF PageInv
  <2> QED BY <1>1, <2>1, <2>2 DEF PromiseInv, Gone
<1>6. ASSUME NEW run, OnWorkerInv(S, run) PROVE OnWorkerInv(R, run)
  <2>1. ASSUME NEW k \in Loops, NEW i \in 1..Len(R.box[k]), NEW of \in Splits, SentAt(R, k, i, of)
        PROVE  i \in 1..Len(S.box[k]) /\ SentAt(S, k, i, of)
    BY <1>4, <2>1 DEF SentAt, Call
  <2>2. \A k \in Loops : \A of \in Splits : AwaitedFrom(R, k, of) <=> AwaitedFrom(S, k, of)
    BY <1>1 DEF AwaitedFrom, Of
  <2>3. \A k \in Loops : \A of : AwaitedFrom(S, k, of) => AwaitedFrom(R, k, of)
    BY <1>1 DEF AwaitedFrom, Of
  <2> QED BY <1>6, <2>1, <2>2, <2>3 DEF OnWorkerInv
<1>7. ASSUME NEW back, NEW count, NEW told, BackInv(S, back, count, told)
      PROVE  BackInv(R, back, count, told)
  BY <1>1, <1>7 DEF BackInv, Gone, Has, Of
<1>8. StopInv(R) /\ \A cut : AbortInv(R, cut)
  BY <1>1 DEF StopInv, AbortInv
<1> QED BY <1>1, <1>2, <1>5, <1>6, <1>7, <1>8 DEF R, PageInv

-----------------------------------------------------------------------------
(* A loop that moves on *)

Moved(S, w, p) == [S EXCEPT !.loop[w] = p]
Idling == {At("begin", 0, 0, 0), At("done", 0, 0, 0)} \cup {At("split", s, 0, 0) : s \in 1..Sims}

\* What a loop's move changes.
LEMMA MoveFacts ==
  ASSUME NEW S \in States, NEW w \in Loops, NEW p \in Places
  PROVE  LET R == Moved(S, w, p)
         IN  /\ R \in States /\ R.box = S.box /\ R.refused = S.refused /\ R.triggered = S.triggered
             /\ R.errors = S.errors /\ R.memo = S.memo /\ R.promise = S.promise
             /\ R.nextSim = S.nextSim /\ R.nextSplit = S.nextSplit
             /\ R.loop[w] = p /\ \A v \in Loops : v # w => R.loop[v] = S.loop[v]
BY DEF Moved, States

\* A loop that has no split on a worker may move to where it waits or is done, unless it
\* leaves splits behind while no error is told.
LEMMA MoveKeeps ==
  ASSUME NEW S, PageInv(S), NEW w \in Loops, NEW p \in Idling,
         p.at = "done" => S.errors # {} \/ S.nextSim > Sims
  PROVE  /\ PageInv(Moved(S, w, p))
         /\ \A run : OnWorkerInv(S, run) /\ S.loop[w].at # "sim" => OnWorkerInv(Moved(S, w, p), run)
         /\ \A back, count, told :
               BackInv(S, back, count, told) /\ (S.errors # {} \/ ~Has(S, w))
                  => BackInv(Moved(S, w, p), back, count, told)
<1> DEFINE R == Moved(S, w, p)
<1>0. p \in Places /\ p.at \in {"begin", "done", "split"} /\ (p.at = "split" => p.sim \in 1..Sims)
  BY SimQueueAssumption DEF Idling, Places, At
<1>1. /\ S \in States /\ R \in States /\ R.box = S.box /\ R.refused = S.refused /\ R.triggered = S.triggered
      /\ R.errors = S.errors /\ R.memo = S.memo /\ R.promise = S.promise
      /\ R.nextSim = S.nextSim /\ R.nextSplit = S.nextSplit
      /\ R.loop[w] = p /\ \A v \in Loops : v # w => R.loop[v] = S.loop[v]
  BY <1>0, MoveFacts DEF PageInv
<1> HIDE DEF R
<1>2. TurnInv(R) /\ PromiseInv(R)
  BY <1>1 DEF PageInv, TurnInv, PromiseInv, AskedAt, Gone
<1>3. ~Has(R, w) /\ \A v \in Loops : v # w => (Has(R, v) <=> Has(S, v)) /\ Of(R, v) = Of(S, v)
  BY <1>0, <1>1 DEF Has, Of
<1>4. LoopInv(R)
  BY <1>0, <1>1, <1>3 DEF PageInv, LoopInv, Gone
<1>5. ASSUME NEW run, OnWorkerInv(S, run), S.loop[w].at # "sim" PROVE OnWorkerInv(R, run)
  <2>1. \A k \in Loops : \A of : AwaitedFrom(S, k, of) => AwaitedFrom(R, k, of)
    BY <1>1, <1>5 DEF AwaitedFrom, Of
  <2> QED BY <1>1, <1>5, <2>1 DEF OnWorkerInv, SentAt
<1>6. ASSUME NEW back, NEW count, NEW told, BackInv(S, back, count, told), S.errors # {} \/ ~Has(S, w)
      PROVE  BackInv(R, back, count, told)
  BY <1>1, <1>3, <1>6 DEF BackInv, Gone
<1> QED BY <1>1, <1>2, <1>4, <1>5, <1>6 DEF R, PageInv

\* Moves of one loop overwrite each other.
LEMMA MoveForgets ==
  ASSUME NEW S \in States, NEW w \in Loops, NEW p \in Places, NEW q \in Places
  PROVE  Moved(Moved(S, w, p), w, q) = Moved(S, w, q)
BY DEF Moved, States

-----------------------------------------------------------------------------
(* A loop that ends with an error *)

Blamed(S, error) == [S EXCEPT !.errors = @ \cup {error}]
Finished == At("done", 0, 0, 0)

\* What an error changes, and that it breaks nothing.
LEMMA BlameKeeps ==
  ASSUME NEW S, PageInv(S), NEW error \in {"failed", "aborted"}
  PROVE  LET R == Blamed(S, error)
         IN  /\ PageInv(R)
             /\ \A run : OnWorkerInv(S, run) => OnWorkerInv(R, run)
             /\ \A back, count, told : BackInv(S, back, count, told) => BackInv(R, back, count, told)
             /\ R.loop = S.loop /\ R.promise = S.promise /\ R.errors = S.errors \cup {error}
<1> DEFINE R == Blamed(S, error)
<1>1. /\ S \in States /\ R \in States /\ R.box = S.box /\ R.refused = S.refused /\ R.triggered = S.triggered
      /\ R.errors = S.errors \cup {error} /\ R.memo = S.memo /\ R.promise = S.promise
      /\ R.nextSim = S.nextSim /\ R.nextSplit = S.nextSplit /\ R.loop = S.loop
  BY DEF PageInv, Blamed, States
<1> HIDE DEF R
<1>2. TurnInv(R) /\ PromiseInv(R)
  BY <1>1 DEF PageInv, TurnInv, PromiseInv, AskedAt, Gone
<1>3. LoopInv(R)
  BY <1>1 DEF PageInv, LoopInv, Gone, Has, Of
<1>4. ASSUME NEW run, OnWorkerInv(S, run) PROVE OnWorkerInv(R, run)
  BY <1>1, <1>4 DEF OnWorkerInv, AwaitedFrom, SentAt, Of
<1>5. ASSUME NEW back, NEW count, NEW told, BackInv(S, back, count, told)
      PROVE  BackInv(R, back, count, told)
  BY <1>1, <1>5 DEF BackInv, Gone, Has, Of
<1> QED BY <1>1, <1>2, <1>3, <1>4, <1>5 DEF R, PageInv

\* What the end of a loop with an error changes, and what it keeps.
FailedTo(S, R, w, error) ==
    /\ PageInv(R) /\ StopInv(R) /\ \A cut : AbortInv(R, cut)
    /\ \A run : OnWorkerInv(S, run) /\ S.loop[w].at # "sim" => OnWorkerInv(R, run)
    /\ \A back, count, told : BackInv(S, back, count, told) => BackInv(R, back, count, told)
    /\ R.errors = S.errors \cup {error} /\ R.promise = S.promise
    /\ R.loop[w] = Finished /\ \A v \in Loops : v # w => R.loop[v] = S.loop[v]

\* A loop that ends with an error triggers the signal, and keeps the rest.
LEMMA FailKeeps ==
  ASSUME NEW S, PageInv(S), NEW w \in Loops, NEW error \in {"failed", "aborted"},
         pool \in 1..Workers
  PROVE  FailedTo(S, Fail(S, w, error), w, error)
<1> DEFINE B == Blamed(S, error)
           M == Moved(B, w, Finished)
<1>1. S \in States
  BY DEF PageInv
<1>2. Fail(S, w, error) = Trigger(M)
  BY <1>1 DEF Fail, Done, Moved, Blamed, Finished, States
<1>3. /\ PageInv(B)
      /\ \A run : OnWorkerInv(S, run) => OnWorkerInv(B, run)
      /\ \A back, count, told : BackInv(S, back, count, told) => BackInv(B, back, count, told)
      /\ B.loop = S.loop /\ B.promise = S.promise /\ B.errors = S.errors \cup {error}
  BY BlameKeeps
<1>4. Finished \in Idling /\ Finished \in Places /\ B \in States
  BY <1>3, SimQueueAssumption DEF Finished, Idling, At, Places, PageInv
<1> HIDE DEF B
<1>5. /\ PageInv(M)
      /\ \A run : OnWorkerInv(B, run) /\ B.loop[w].at # "sim" => OnWorkerInv(M, run)
      /\ \A back, count, told : BackInv(B, back, count, told) => BackInv(M, back, count, told)
  BY <1>3, <1>4, MoveKeeps
<1>6. /\ M.loop[w] = Finished /\ \A v \in Loops : v # w => M.loop[v] = B.loop[v]
      /\ M.errors = B.errors /\ M.promise = B.promise
  BY <1>4, MoveFacts
<1> HIDE DEF M
<1>7. /\ PageInv(Trigger(M)) /\ StopInv(Trigger(M)) /\ \A cut : AbortInv(Trigger(M), cut)
      /\ \A run : OnWorkerInv(M, run) => OnWorkerInv(Trigger(M), run)
      /\ \A back, count, told : BackInv(M, back, count, told) => BackInv(Trigger(M), back, count, told)
  BY <1>5, TriggerKeeps
<1>8. Trigger(M).loop = M.loop /\ Trigger(M).errors = M.errors /\ Trigger(M).promise = M.promise
  <2>1. M \in States /\ LoopInv(M)
    BY <1>5 DEF PageInv
  <2> QED BY <2>1, TriggerFacts
<1> QED BY <1>2, <1>3, <1>5, <1>6, <1>7, <1>8 DEF FailedTo

-----------------------------------------------------------------------------
(* Asking for the split of a sim *)

\* What a split request changes, and what it keeps. It is asked for in turn or ahead.
LEMMA AskKeeps ==
  ASSUME NEW S, PageInv(S), NEW s \in 1..Sims, s >= S.nextSim, NEW k \in Loops
  PROVE  LET R == SplitRequest(S, s, k)
         IN  /\ PageInv(R)
             /\ \A run : OnWorkerInv(S, run) => OnWorkerInv(R, run)
             /\ \A back, count, told : BackInv(S, back, count, told) => BackInv(R, back, count, told)
             /\ \A cut : AbortInv(S, cut) => AbortInv(R, cut)
             /\ R.loop = S.loop /\ R.errors = S.errors /\ R.triggered = S.triggered
             /\ R.nextSim = S.nextSim /\ R.nextSplit = S.nextSplit
             /\ \A t \in 1..Sims : R.promise[t] = "failed" <=> S.promise[t] = "failed"
<1> DEFINE R == SplitRequest(S, s, k)
           m == Call("split", <<s, 0>>)
<1>1. CASE s \in S.memo
  <2>1. R = S
    BY <1>1 DEF SplitRequest
  <2> QED BY <2>1
<1>2. CASE s \notin S.memo
  <2>1. S \in States /\ S.promise[s] = "none"
    BY <1>2 DEF PageInv, PromiseInv, States
  <2>2. m \in Calls /\ m.call = "split" /\ m.of = <<s, 0>>
    BY DEF Call, Calls
  <2> HIDE DEF m
  <2>3. /\ R.box = [S.box EXCEPT ![k] = Append(@, m)]
        /\ R.refused = S.refused /\ R.triggered = S.triggered
        /\ R.errors = S.errors /\ R.memo = S.memo \cup {s}
        /\ R.promise = [S.promise EXCEPT ![s] = "asked"]
        /\ R.nextSim = S.nextSim /\ R.nextSplit = S.nextSplit /\ R.loop = S.loop
    BY <1>2, <2>1 DEF SplitRequest, Post, States, m
  <2>4. R \in States
    <3>1. S.box[k] \in Seq(Calls)
      BY <2>1 DEF States
    <3>2. Append(S.box[k], m) \in Seq(Calls)
      BY <2>2, <3>1
    <3>3. R = [box |-> R.box, refused |-> R.refused, triggered |-> R.triggered, errors |-> R.errors,
               memo |-> R.memo, promise |-> R.promise, nextSim |-> R.nextSim,
               nextSplit |-> R.nextSplit, loop |-> R.loop]
      BY <1>2, <2>1 DEF SplitRequest, Post, States
    <3> HIDE DEF R
    <3>4. R.box \in [Loops -> Seq(Calls)] /\ R.memo \in SUBSET (1..Sims)
          /\ R.promise \in [1..Sims -> {"none", "asked", "ok", "failed"}]
      BY <2>1, <2>3, <3>2 DEF States
    <3> QED BY <2>1, <2>3, <3>3, <3>4 DEF States
  <2> HIDE DEF R
  <2>5. \A l \in Loops : l # k => R.box[l] = S.box[l]
    BY <2>1, <2>3 DEF States
  <2>6. /\ Len(S.box[k]) \in Nat /\ Len(R.box[k]) = Len(S.box[k]) + 1
        /\ \A i \in 1..Len(S.box[k]) : R.box[k][i] = S.box[k][i]
        /\ R.box[k][Len(S.box[k]) + 1] = m
    <3>1. S.box[k] \in Seq(Calls) /\ R.box[k] = Append(S.box[k], m)
      BY <2>1, <2>3 DEF States
    <3> QED BY <2>2, <3>1
  <2>7. ASSUME NEW l \in Loops, NEW i \in 1..Len(R.box[l])
        PROVE  \/ i \in 1..Len(S.box[l]) /\ R.box[l][i] = S.box[l][i]
               \/ l = k /\ i = Len(S.box[k]) + 1 /\ R.box[l][i] = m
    BY <2>5, <2>6
  <2>8. TurnInv(R) /\ LoopInv(R)
    BY <2>3 DEF PageInv, TurnInv, LoopInv, Has, Of, Gone
  <2>9. \A t \in 1..Sims : R.promise[t] = IF t = s THEN "asked" ELSE S.promise[t]
    BY <2>1, <2>3 DEF States
  <2>10. PromiseInv(R)
    <3>1. PromiseInv(S)
      BY DEF PageInv
    <3>2. \A t \in 1..Sims : t \in R.memo => R.promise[t] # "none"
      BY <2>3, <2>9, <3>1 DEF PromiseInv
    <3>3. \A t \in 1..Sims : t >= R.nextSim /\ R.promise[t] # "none" => t \in R.memo
      BY <2>3, <2>9, <3>1 DEF PromiseInv
    <3>4. \A t \in 1..Sims : Gone(R, t, 1) => R.promise[t] = "ok"
      BY <2>1, <2>3, <2>9, <3>1 DEF PromiseInv, Gone
    <3>5. ASSUME NEW t \in 1..Sims, NEW l \in Loops, NEW i \in 1..Len(R.box[l]), AskedAt(R, l, i, t)
          PROVE  IF t = s THEN l = k /\ i = Len(S.box[k]) + 1
                 ELSE i \in 1..Len(S.box[l]) /\ AskedAt(S, l, i, t)
      <4>1. CASE i \in 1..Len(S.box[l]) /\ R.box[l][i] = S.box[l][i]
        <5>1. AskedAt(S, l, i, t)
          BY <3>5, <4>1 DEF AskedAt
        <5>2. S.promise[t] = "asked"
          BY <3>1, <4>1, <5>1 DEF PromiseInv
        <5> QED BY <2>1, <4>1, <5>1, <5>2
      <4>2. CASE l = k /\ i = Len(S.box[k]) + 1 /\ R.box[l][i] = m
        <5>1. t = s
          BY <2>2, <3>5, <4>2 DEF AskedAt, Call
        <5> QED BY <4>2, <5>1
      <4> QED BY <2>7, <4>1, <4>2
    <3>6. ASSUME NEW t \in 1..Sims, NEW l \in Loops, NEW i \in 1..Len(R.box[l]), AskedAt(R, l, i, t)
          PROVE  /\ R.promise[t] = "asked"
                 /\ \A h \in Loops : \A j \in 1..Len(R.box[h]) : AskedAt(R, h, j, t) => h = l /\ j = i
      BY <2>9, <3>1, <3>5, <3>6 DEF PromiseInv
    <3> QED BY <3>2, <3>3, <3>4, <3>6 DEF PromiseInv
  <2>11. ASSUME NEW run, OnWorkerInv(S, run) PROVE OnWorkerInv(R, run)
    <3>1. \A l \in Loops : \A of : AwaitedFrom(S, l, of) => AwaitedFrom(R, l, of)
      BY <2>3 DEF AwaitedFrom, Of
    <3>2. ASSUME NEW l \in Loops, NEW i \in 1..Len(R.box[l]), NEW of \in Splits, SentAt(R, l, i, of)
          PROVE  i \in 1..Len(S.box[l]) /\ SentAt(S, l, i, of)
      BY <2>2, <2>7, <3>2 DEF SentAt, Call
    <3> QED BY <2>11, <3>1, <3>2 DEF OnWorkerInv
  <2>12. ASSUME NEW back, NEW count, NEW told, BackInv(S, back, count, told)
         PROVE  BackInv(R, back, count, told)
    BY <2>3, <2>12 DEF BackInv, Gone, Has, Of
  <2>13. ASSUME NEW cut, AbortInv(S, cut) PROVE AbortInv(R, cut)
    BY <2>2, <2>3, <2>7, <2>13 DEF AbortInv
  <2>14. \A t \in 1..Sims : R.promise[t] = "failed" <=> S.promise[t] = "failed"
    BY <2>1, <2>9
  <2> QED BY <2>3, <2>4, <2>8, <2>10, <2>11, <2>12, <2>13, <2>14 DEF R, PageInv
<1> QED BY <1>1, <1>2

-----------------------------------------------------------------------------
(* A round of a loop *)

\* What the rounds of the loops keep between them.
Keeps(S, R) ==
    /\ PageInv(R) /\ StopInv(R)
    /\ \A run : OnWorkerInv(S, run) => OnWorkerInv(R, run)
    /\ \A back, count, told : BackInv(S, back, count, told) => BackInv(R, back, count, told)
    /\ \A cut : AbortInv(S, cut) => AbortInv(R, cut)
    /\ \A fails, user : CauseInv(S, fails, user) => CauseInv(R, fails, user)
    /\ OwnInv(S) => OwnInv(R)

\* A loop that finds the queue stopped, holding no split on a worker.
LEMMA StopKeeps ==
  ASSUME NEW S, PageInv(S), StopInv(S), Stopped(S), NEW w \in Loops, S.loop[w].at # "sim",
         pool \in 1..Workers
  PROVE  Keeps(S, Stop(S, w)) /\ \A v \in Loops : v # w => Stop(S, w).loop[v] = S.loop[v]
<1> DEFINE R == Stop(S, w)
<1>0. S \in States /\ Finished \in Idling /\ Finished \in Places
  BY SimQueueAssumption DEF PageInv, Finished, Idling, At, Places
<1>1. CASE S.errors # {}
  <2>1. R = Moved(S, w, Finished)
    BY <1>1 DEF Stop, Done, Moved, Finished
  <2>2. /\ PageInv(R)
        /\ \A run : OnWorkerInv(S, run) => OnWorkerInv(R, run)
        /\ \A back, count, told : BackInv(S, back, count, told) => BackInv(R, back, count, told)
    BY <1>0, <1>1, <2>1, MoveKeeps
  <2>3. /\ R.box = S.box /\ R.triggered = S.triggered /\ R.errors = S.errors /\ R.promise = S.promise
        /\ R.loop[w] = Finished /\ \A v \in Loops : v # w => R.loop[v] = S.loop[v]
    BY <1>0, <2>1, MoveFacts
  <2> HIDE DEF R
  <2>4. /\ StopInv(R)
        /\ \A cut : AbortInv(S, cut) => AbortInv(R, cut)
        /\ \A fails, user : CauseInv(S, fails, user) => CauseInv(R, fails, user)
    BY <2>3 DEF StopInv, AbortInv, CauseInv
  <2>5. OwnInv(S) => OwnInv(R)
    BY <2>3 DEF OwnInv, Finished, At
  <2> QED BY <2>2, <2>3, <2>4, <2>5 DEF R, Keeps
<1>2. CASE S.errors = {}
  <2>1. R = Fail(S, w, "aborted") /\ S.triggered
    BY <1>2 DEF Stop, Stopped
  <2>2. FailedTo(S, R, w, "aborted")
    BY <2>1, FailKeeps
  <2> HIDE DEF R
  <2>3. \A fails, user : CauseInv(S, fails, user) => CauseInv(R, fails, user)
    <3>1. ASSUME NEW fails, NEW user, CauseInv(S, fails, user) PROVE CauseInv(R, fails, user)
      <4>1. user
        BY <1>2, <2>1, <3>1 DEF CauseInv
      <4> QED BY <1>2, <2>2, <3>1, <4>1 DEF CauseInv, FailedTo
    <3> QED BY <3>1
  <2>4. OwnInv(S) => OwnInv(R)
    BY <2>2 DEF OwnInv, Finished, At, FailedTo
  <2> QED BY <2>2, <2>3, <2>4 DEF R, Keeps, FailedTo
<1> QED BY <1>1, <1>2

\* A loop that has no split and asks for one.
LEMMA AwaitKeeps ==
  ASSUME NEW S, PageInv(S), StopInv(S), NEW w \in Loops, ~Has(S, w), NEW k \in Loops
  PROVE  /\ Keeps(S, AwaitSplit(S, w, k))
         /\ \A v \in Loops : v # w => AwaitSplit(S, w, k).loop[v] = S.loop[v]
<1> DEFINE R == AwaitSplit(S, w, k)
<1>0. S \in States /\ Finished \in Idling /\ Finished \in Places /\ S.loop[w].at # "sim"
  BY SimQueueAssumption DEF PageInv, Finished, Idling, At, Places, Has
<1>1. CASE S.nextSim > Sims
  <2>1. R = Moved(S, w, Finished)
    BY <1>1 DEF AwaitSplit, Done, Moved, Finished
  <2>2. /\ PageInv(R)
        /\ \A run : OnWorkerInv(S, run) => OnWorkerInv(R, run)
        /\ \A back, count, told : BackInv(S, back, count, told) => BackInv(R, back, count, told)
    BY <1>0, <1>1, <2>1, MoveKeeps
  <2>3. /\ R.box = S.box /\ R.triggered = S.triggered /\ R.errors = S.errors /\ R.promise = S.promise
        /\ R.loop[w] = Finished /\ \A v \in Loops : v # w => R.loop[v] = S.loop[v]
    BY <1>0, <2>1, MoveFacts
  <2> HIDE DEF R
  <2>4. /\ StopInv(R)
        /\ \A cut : AbortInv(S, cut) => AbortInv(R, cut)
        /\ \A fails, user : CauseInv(S, fails, user) => CauseInv(R, fails, user)
    BY <2>3 DEF StopInv, AbortInv, CauseInv
  <2>5. OwnInv(S) => OwnInv(R)
    BY <2>3 DEF OwnInv, Finished, At
  <2> QED BY <2>2, <2>3, <2>4, <2>5 DEF R, Keeps
<1>2. CASE ~(S.nextSim > Sims)
  <2> DEFINE s == S.nextSim
             T == SplitRequest(S, s, k)
             p == At("split", s, 0, 0)
  <2>1. s \in 1..Sims /\ s >= S.nextSim
    BY <1>0, <1>2, SimQueueAssumption DEF States
  <2>2. p \in Idling /\ p \in Places /\ p.at = "split"
    BY <2>1, SimQueueAssumption DEF Idling, Places, At
  <2>3. R = Moved(T, w, p)
    BY <1>2 DEF AwaitSplit, Moved
  <2> HIDE DEF R, p
  <2>4. /\ PageInv(T)
        /\ \A run : OnWorkerInv(S, run) => OnWorkerInv(T, run)
        /\ \A back, count, told : BackInv(S, back, count, told) => BackInv(T, back, count, told)
        /\ \A cut : AbortInv(S, cut) => AbortInv(T, cut)
        /\ T.loop = S.loop /\ T.errors = S.errors /\ T.triggered = S.triggered
        /\ T.nextSim = S.nextSim /\ T.nextSplit = S.nextSplit
        /\ \A t \in 1..Sims : T.promise[t] = "failed" <=> S.promise[t] = "failed"
    BY <2>1, AskKeeps
  <2> HIDE DEF T
  <2>5. ~Has(T, w) /\ T.loop[w].at # "sim" /\ T \in States
    BY <1>0, <2>4 DEF Has, PageInv
  <2>6. /\ PageInv(R)
        /\ \A run : OnWorkerInv(T, run) => OnWorkerInv(R, run)
        /\ \A back, count, told : BackInv(T, back, count, told) => BackInv(R, back, count, told)
    BY <2>2, <2>3, <2>4, <2>5, MoveKeeps
  <2>7. /\ R.box = T.box /\ R.triggered = T.triggered /\ R.errors = T.errors /\ R.promise = T.promise
        /\ R.loop[w] = p /\ \A v \in Loops : v # w => R.loop[v] = T.loop[v]
    BY <2>2, <2>3, <2>5, MoveFacts
  <2>8. StopInv(R)
    BY <2>4, <2>7 DEF StopInv
  <2>9. \A cut : AbortInv(S, cut) => AbortInv(R, cut)
    BY <2>4, <2>7 DEF AbortInv
  <2>10. \A fails, user : CauseInv(S, fails, user) => CauseInv(R, fails, user)
    BY <2>4, <2>7 DEF CauseInv
  <2>11. OwnInv(S) => OwnInv(R)
    BY <2>2, <2>4, <2>7 DEF OwnInv
  <2> QED BY <2>4, <2>6, <2>7, <2>8, <2>9, <2>10, <2>11 DEF R, Keeps
<1> QED BY <1>1, <1>2

\* A loop that begins a round.
LEMMA RoundKeeps ==
  ASSUME NEW S, PageInv(S), StopInv(S), NEW w \in Loops, ~Has(S, w), NEW k \in Loops,
         pool \in 1..Workers
  PROVE  /\ Keeps(S, NextRound(S, w, k))
         /\ \A v \in Loops : v # w => NextRound(S, w, k).loop[v] = S.loop[v]
<1>1. S.loop[w].at # "sim"
  BY DEF Has
<1>2. CASE Stopped(S)
  BY <1>1, <1>2, StopKeeps DEF NextRound
<1>3. CASE ~Stopped(S)
  BY <1>3, AwaitKeeps DEF NextRound
<1> QED BY <1>2, <1>3

-----------------------------------------------------------------------------
(* The start *)

\* One after the other lets go of nothing.
LEMMA KeepsOn ==
  ASSUME NEW S, NEW T, NEW R, Keeps(S, T), Keeps(T, R)
  PROVE  Keeps(S, R)
<1>1. /\ \A run : OnWorkerInv(S, run) => OnWorkerInv(R, run)
      /\ \A back, count, told : BackInv(S, back, count, told) => BackInv(R, back, count, told)
  BY DEF Keeps
<1>2. \A cut : AbortInv(S, cut) => AbortInv(R, cut)
  BY DEF Keeps
<1>3. \A fails, user : CauseInv(S, fails, user) => CauseInv(R, fails, user)
  BY DEF Keeps
<1> QED BY <1>1, <1>2, <1>3 DEF Keeps

\* The rounds up to the m-th loop satisfy their recursive equation.
Rounds(k, m, g) ==
    g = [w \in 0..m |-> IF w = 0 THEN State ELSE NextRound(g[w - 1], w, k)]

\* There are such rounds.
LEMMA RoundsExist ==
  ASSUME NEW k, NEW m \in Nat
  PROVE  \E g : Rounds(k, m, g)
<1> DEFINE T == {j \in Nat : ~\E g : Rounds(k, j, g)}
<1>1. T = {}
  <2> SUFFICES ASSUME T # {} PROVE FALSE
    OBVIOUS
  <2>1. PICK j \in T : \A i \in T : j <= i
    BY LeastNatural DEF HasLeast
  <2>2. j # 0
    <3>1. Rounds(k, 0, [w \in 0..0 |-> State])
      BY DEF Rounds
    <3> QED BY <2>1, <3>1
  <2>3. j - 1 \in Nat /\ ~(j <= j - 1)
    BY <2>1, <2>2
  <2>4. PICK g : Rounds(k, j - 1, g)
    BY <2>1, <2>3
  <2> DEFINE h == [w \in 0..j |-> IF w = j THEN NextRound(g[j - 1], j, k) ELSE g[w]]
  <2>5. ASSUME NEW w \in 0..j
        PROVE  h[w] = IF w = 0 THEN State ELSE NextRound(h[w - 1], w, k)
    <3>1. CASE w = j
      BY <2>1, <2>2, <3>1
    <3>2. CASE w # j
      <4>1. w \in 0..(j - 1)
        BY <2>1, <3>2
      <4>2. g[w] = IF w = 0 THEN State ELSE NextRound(g[w - 1], w, k)
        BY <2>4, <4>1 DEF Rounds
      <4>3. h[w] = g[w] /\ (w # 0 => h[w - 1] = g[w - 1])
        BY <2>1, <3>2
      <4> QED BY <4>2, <4>3
    <3> QED BY <3>1, <3>2
  <2>6. Rounds(k, j, h)
    BY <2>5 DEF Rounds
  <2> QED BY <2>1, <2>6
<1> QED BY <1>1

\* The loops begin one after the other.
LEMMA BegunFacts ==
  ASSUME NEW k
  PROVE  /\ Begun(k)[0] = State
         /\ \A w \in 1..Workers : Begun(k)[w] = NextRound(Begun(k)[w - 1], w, k)
<1>1. Begun(k) = CHOOSE g : Rounds(k, Workers, g)
  BY DEF Begun, Rounds
<1>2. Rounds(k, Workers, Begun(k))
  BY <1>1, RoundsExist, SimQueueAssumption
<1> QED BY <1>2, SimQueueAssumption DEF Rounds

\* The start keeps what each round keeps.
LEMMA StartKeeps ==
  ASSUME PageInv(State), StopInv(State), \A w \in Loops : ~Has(State, w), NEW k \in Loops,
         pool \in 1..Workers
  PROVE  Keeps(State, Begun(k)[Workers])
<1> DEFINE B(n) == Begun(k)[n]
           Q(n) == Keeps(State, B(n)) /\ \A v \in Loops : v > n => B(n).loop[v] = State.loop[v]
           T == {n \in Nat : n <= Workers /\ ~Q(n)}
<1>1. T = {}
  <2> SUFFICES ASSUME T # {} PROVE FALSE
    OBVIOUS
  <2>1. PICK n \in T : \A j \in T : n <= j
    BY LeastNatural DEF HasLeast
  <2>2. n # 0
    <3>1. B(0) = State
      BY BegunFacts
    <3>2. Keeps(State, State)
      BY DEF Keeps
    <3> QED BY <2>1, <3>1, <3>2
  <2>3. n \in Loops /\ n - 1 \in Nat /\ n - 1 <= Workers /\ ~(n <= n - 1) /\ n > n - 1
    BY <2>1, <2>2, SimQueueAssumption DEF Loops
  <2>4. Q(n - 1)
    BY <2>1, <2>3
  <2>5. B(n) = NextRound(B(n - 1), n, k)
    BY <2>3, BegunFacts DEF Loops
  <2> DEFINE S == B(n - 1)
  <2>6. PageInv(S) /\ StopInv(S) /\ ~Has(S, n)
    BY <2>3, <2>4 DEF Keeps, Has
  <2>7. Keeps(S, B(n)) /\ \A v \in Loops : v # n => B(n).loop[v] = S.loop[v]
    <3> HIDE DEF S
    <3>1. Keeps(S, NextRound(S, n, k)) /\ \A v \in Loops : v # n => NextRound(S, n, k).loop[v] = S.loop[v]
      BY <2>3, <2>6, RoundKeeps
    <3>2. B(n) = NextRound(S, n, k)
      BY <2>5 DEF S
    <3> QED BY <3>1, <3>2
  <2>8. Keeps(State, B(n))
    BY <2>4, <2>7, KeepsOn
  <2>9. \A v \in Loops : v > n => B(n).loop[v] = State.loop[v]
    BY <2>3, <2>4, <2>7 DEF Loops
  <2> QED BY <2>1, <2>8, <2>9
<1>2. Workers \in Nat
  BY SimQueueAssumption
<1> QED BY <1>1, <1>2

-----------------------------------------------------------------------------
(* Claiming *)

\* The state once the split in turn is the loop's.
Claimed(S, w) ==
    LET last == S.nextSplit = SplitsOf(S.nextSim)
    IN  [S EXCEPT !.loop[w] = At("claimed", S.nextSim, S.nextSplit, 0),
                  !.memo = IF last THEN @ \ {S.nextSim} ELSE @,
                  !.nextSim = IF last THEN S.nextSim + 1 ELSE S.nextSim,
                  !.nextSplit = IF last THEN 1 ELSE S.nextSplit + 1]

\* A claim takes the split in turn and no other.
LEMMA ClaimedKeeps ==
  ASSUME NEW S, PageInv(S), StopInv(S), NEW w \in Loops, ~Has(S, w),
         S.nextSim \in 1..Sims, S.promise[S.nextSim] = "ok"
  PROVE  /\ Keeps(S, Claimed(S, w))
         /\ Claimed(S, w).nextSim \in {S.nextSim, S.nextSim + 1}
<1> DEFINE R == Claimed(S, w)
           s == S.nextSim
           i == S.nextSplit
           last == i = SplitsOf(s)
           p == At("claimed", s, i, 0)
<1>0. /\ S \in States /\ s \in 1..Sims /\ SplitsOf(s) \in 1..Workers
      /\ i \in 1..SplitsOf(s) /\ i \in 1..Workers /\ Sims \in Nat /\ Workers \in Nat
  BY SimQueueAssumption DEF PageInv, TurnInv, States
<1>1. p \in Places /\ p.at = "claimed" /\ p.sim = s /\ p.split = i
  BY <1>0 DEF Places, At
<1>2. /\ R.box = S.box /\ R.refused = S.refused /\ R.triggered = S.triggered
      /\ R.errors = S.errors /\ R.promise = S.promise
      /\ R.memo = (IF last THEN S.memo \ {s} ELSE S.memo)
      /\ R.nextSim = (IF last THEN s + 1 ELSE s)
      /\ R.nextSplit = (IF last THEN 1 ELSE i + 1)
      /\ R.loop = [S.loop EXCEPT ![w] = p]
  BY <1>0 DEF Claimed, States
<1>3. R.loop[w] = p /\ \A v \in Loops : v # w => R.loop[v] = S.loop[v]
  BY <1>0, <1>2 DEF States
<1>4. R \in States
  <2> DEFINE m == IF last THEN S.memo \ {s} ELSE S.memo
             x == IF last THEN s + 1 ELSE s
             y == IF last THEN 1 ELSE i + 1
  <2>0. R = [[[[S EXCEPT !.loop[w] = p] EXCEPT !.memo = m] EXCEPT !.nextSim = x] EXCEPT !.nextSplit = y]
    BY DEF Claimed
  <2> HIDE DEF R, p, m, x, y
  <2>1. R = [box |-> R.box, refused |-> R.refused, triggered |-> R.triggered, errors |-> R.errors,
             memo |-> R.memo, promise |-> R.promise, nextSim |-> R.nextSim,
             nextSplit |-> R.nextSplit, loop |-> R.loop]
    BY <1>0, <2>0 DEF States
  <2>2. /\ R.loop \in [Loops -> Places] /\ R.memo \in SUBSET (1..Sims)
        /\ R.nextSim \in 1..(Sims + 1) /\ R.nextSplit \in 1..Workers
    BY <1>0, <1>1, <1>2 DEF States
  <2> QED BY <1>0, <1>2, <2>1, <2>2 DEF States
<1> HIDE DEF R, p
<1>5. TurnInv(R)
  BY <1>0, <1>2, SimQueueAssumption DEF TurnInv
<1>6. ASSUME NEW t \in 1..Sims, NEW j \in 1..SplitsOf(t)
      PROVE  Gone(R, t, j) <=> Gone(S, t, j) \/ (t = s /\ j = i)
  BY <1>0, <1>2, SimQueueAssumption DEF Gone
<1>7. ~Gone(S, s, i)
  BY <1>0 DEF Gone
<1>8. /\ Has(R, w) /\ Of(R, w) = <<s, i>>
      /\ \A v \in Loops : v # w => (Has(R, v) <=> Has(S, v)) /\ Of(R, v) = Of(S, v)
  BY <1>1, <1>3 DEF Has, Of
<1>9. LoopInv(R)
  <2>1. LoopInv(S)
    BY DEF PageInv
  <2>2. ASSUME NEW v \in Loops, Has(R, v)
        PROVE  /\ R.loop[v].sim \in 1..Sims /\ R.loop[v].split \in 1..SplitsOf(R.loop[v].sim)
               /\ Gone(R, R.loop[v].sim, R.loop[v].split)
    <3>1. CASE v = w
      BY <1>0, <1>1, <1>3, <1>6, <3>1
    <3>2. CASE v # w
      BY <1>3, <1>6, <1>8, <2>1, <2>2, <3>2 DEF LoopInv
    <3> QED BY <3>1, <3>2
  <2>3. \A v \in Loops : v # w /\ Has(R, v) => Of(R, v) # <<s, i>>
    BY <1>7, <1>8, <2>1 DEF LoopInv, Of
  <2>4. \A u, v \in Loops : Has(R, u) /\ Has(R, v) /\ Of(R, u) = Of(R, v) => u = v
    BY <1>8, <2>1, <2>3 DEF LoopInv
  <2>5. /\ \A v \in Loops : R.loop[v].at = "sim" => R.loop[v].worker \in Loops
        /\ \A v \in Loops : R.loop[v].at = "split" => R.loop[v].sim \in 1..Sims
    BY <1>1, <1>3, <2>1 DEF LoopInv
  <2>6. \A v \in Loops : R.loop[v].at = "done" /\ R.errors = {} => R.nextSim > Sims
    BY <1>0, <1>1, <1>2, <1>3, <2>1 DEF LoopInv
  <2> QED BY <2>2, <2>4, <2>5, <2>6 DEF LoopInv
<1>10. PromiseInv(R)
  <2>1. PromiseInv(S)
    BY DEF PageInv
  <2>2. \A t \in 1..Sims : t \in R.memo => R.promise[t] # "none"
    BY <1>2, <2>1 DEF PromiseInv
  <2>3. \A t \in 1..Sims : t >= R.nextSim /\ R.promise[t] # "none" => t \in R.memo
    BY <1>0, <1>2, <2>1 DEF PromiseInv
  <2>4. \A t \in 1..Sims : Gone(R, t, 1) => R.promise[t] = "ok"
    <3>1. \A t \in 1..Sims : 1 \in 1..SplitsOf(t)
      BY SimQueueAssumption
    <3> QED BY <1>2, <1>6, <2>1, <3>1 DEF PromiseInv
  <2>5. \A t \in 1..Sims : \A k \in Loops : \A j \in 1..Len(R.box[k]) :
           AskedAt(R, k, j, t) =>
              /\ R.promise[t] = "asked"
              /\ \A l \in Loops : \A h \in 1..Len(R.box[l]) : AskedAt(R, l, h, t) => l = k /\ h = j
    BY <1>2, <2>1 DEF PromiseInv, AskedAt
  <2> QED BY <2>2, <2>3, <2>4, <2>5 DEF PromiseInv
<1>11. ASSUME NEW run, OnWorkerInv(S, run) PROVE OnWorkerInv(R, run)
  <2>1. S.loop[w].at # "sim"
    BY DEF Has
  <2>2. \A k \in Loops : \A of : AwaitedFrom(S, k, of) => AwaitedFrom(R, k, of)
    BY <1>3, <2>1 DEF AwaitedFrom, Of
  <2> QED BY <1>2, <1>11, <2>2 DEF OnWorkerInv, SentAt
<1>12. ASSUME NEW back, NEW count, NEW told, BackInv(S, back, count, told)
       PROVE  BackInv(R, back, count, told)
  <2>1. \A t \in 1..Sims : /\ back[t] \subseteq 1..SplitsOf(t) /\ count[t] = Cardinality(back[t])
                           /\ \A j \in back[t] : Gone(R, t, j)
                           /\ told[t] = IF back[t] = 1..SplitsOf(t) THEN 1 ELSE 0
    BY <1>6, <1>12 DEF BackInv
  <2>2. i \notin back[s]
    BY <1>0, <1>7, <1>12 DEF BackInv
  <2>3. \A v \in Loops : Has(R, v) => R.loop[v].split \notin back[R.loop[v].sim]
    BY <1>1, <1>3, <1>8, <1>12, <2>2 DEF BackInv
  <2>4. ASSUME R.errors = {}, NEW t \in 1..Sims, NEW j \in 1..SplitsOf(t), Gone(R, t, j)
        PROVE  j \in back[t] \/ \E v \in Loops : Has(R, v) /\ Of(R, v) = <<t, j>>
    <3>1. CASE t = s /\ j = i
      BY <1>8, <3>1
    <3>2. CASE ~(t = s /\ j = i)
      <4>1. j \in back[t] \/ \E v \in Loops : Has(S, v) /\ Of(S, v) = <<t, j>>
        BY <1>2, <1>6, <1>12, <2>4, <3>2 DEF BackInv
      <4> QED BY <1>8, <4>1
    <3> QED BY <3>1, <3>2
  <2> QED BY <2>1, <2>3, <2>4 DEF BackInv
<1>13. StopInv(R)
  BY <1>2 DEF StopInv
<1>14. \A cut : AbortInv(S, cut) => AbortInv(R, cut)
  BY <1>2 DEF AbortInv
<1>15. \A fails, user : CauseInv(S, fails, user) => CauseInv(R, fails, user)
  BY <1>2 DEF CauseInv
<1>16. OwnInv(S) => OwnInv(R)
  BY <1>1, <1>3 DEF OwnInv
<1>17. Keeps(S, R)
  BY <1>4, <1>5, <1>9, <1>10, <1>11, <1>12, <1>13, <1>14, <1>15, <1>16 DEF Keeps, PageInv
<1> QED BY <1>2, <1>17 DEF R

\* Taking the split in turn, and asking for the next sim's with the first one.
LEMMA TakeKeeps ==
  ASSUME NEW S, PageInv(S), StopInv(S), NEW w \in Loops, ~Has(S, w),
         S.nextSim \in 1..Sims, S.promise[S.nextSim] = "ok", NEW k \in Loops
  PROVE  Keeps(S, Take(S, w, k))
<1> DEFINE T == Claimed(S, w)
           s == S.nextSim
<1>1. Keeps(S, T) /\ T.nextSim \in {s, s + 1}
  BY ClaimedKeeps
<1>2. Take(S, w, k) = IF S.nextSplit = 1 /\ s < Sims THEN SplitRequest(T, s + 1, k) ELSE T
  BY DEF Take, Claimed
<1>3. s \in Nat /\ s <= Sims /\ Sims \in Nat
  BY SimQueueAssumption
<1> HIDE DEF T
<1>4. CASE S.nextSplit = 1 /\ s < Sims
  <2> DEFINE R == SplitRequest(T, s + 1, k)
             t == s + 1
  <2>1. PageInv(T) /\ StopInv(T) /\ t \in 1..Sims /\ t >= T.nextSim
    BY <1>1, <1>3, <1>4 DEF Keeps
  <2>2. /\ PageInv(R)
        /\ \A run : OnWorkerInv(T, run) => OnWorkerInv(R, run)
        /\ \A back, count, told : BackInv(T, back, count, told) => BackInv(R, back, count, told)
        /\ \A cut : AbortInv(T, cut) => AbortInv(R, cut)
        /\ R.loop = T.loop /\ R.errors = T.errors /\ R.triggered = T.triggered
        /\ \A j \in 1..Sims : R.promise[j] = "failed" <=> T.promise[j] = "failed"
    BY <2>1, AskKeeps
  <2> HIDE DEF R
  <2>3. Keeps(T, R)
    <3>1. StopInv(R) /\ (OwnInv(T) => OwnInv(R))
      BY <2>1, <2>2 DEF StopInv, OwnInv
    <3>2. \A fails, user : CauseInv(T, fails, user) => CauseInv(R, fails, user)
      BY <2>2 DEF CauseInv
    <3> QED BY <2>2, <3>1, <3>2 DEF Keeps
  <2>4. Take(S, w, k) = R
    BY <1>2, <1>4 DEF R
  <2> QED BY <1>1, <2>3, <2>4, KeepsOn
<1>5. CASE ~(S.nextSplit = 1 /\ s < Sims)
  BY <1>1, <1>2, <1>5
<1> QED BY <1>4, <1>5

-----------------------------------------------------------------------------
(* Sending *)

\* The state once a claimed split is posted to worker k.
Sent(S, w, k) ==
    Post([S EXCEPT !.loop[w] = [@ EXCEPT !.at = "sim", !.worker = k]], k, Call("sim", Of(S, w)))

\* A split is sent once, and awaited from where it was sent.
LEMMA SentKeeps ==
  ASSUME NEW S, PageInv(S), NEW w \in Loops, S.loop[w].at = "claimed", NEW k \in Loops
  PROVE  LET R == Sent(S, w, k)
         IN  /\ PageInv(R) /\ (StopInv(S) => StopInv(R))
             /\ \A run : OnWorkerInv(S, run) => OnWorkerInv(R, run)
             /\ \A back, count, told : BackInv(S, back, count, told) => BackInv(R, back, count, told)
             /\ \A cut : AbortInv(S, cut) => AbortInv(R, cut)
             /\ \A fails, user : CauseInv(S, fails, user) => CauseInv(R, fails, user)
             /\ OwnInv(S) /\ k = w => OwnInv(R)
<1> DEFINE R == Sent(S, w, k)
           p == At("sim", S.loop[w].sim, S.loop[w].split, k)
           m == Call("sim", Of(S, w))
           b == Append(S.box[k], m)
<1>0. S \in States /\ LoopInv(S) /\ S.loop[w] \in Places /\ Has(S, w) /\ S.box[k] \in Seq(Calls)
  BY DEF PageInv, States, Has
<1>1. p \in Places /\ p.at = "sim" /\ p.worker = k /\ <<p.sim, p.split>> = Of(S, w)
  BY <1>0, SimQueueAssumption DEF Places, At, Of, Loops
<1>17. p = [S.loop[w] EXCEPT !.at = "sim", !.worker = k]
  <2> DEFINE l == S.loop[w]
  <2>1. l \in Places
    BY <1>0
  <2> HIDE DEF l
  <2>2. [l EXCEPT !.at = "sim", !.worker = k]
           = [at |-> "sim", sim |-> l.sim, split |-> l.split, worker |-> k]
    <3> DEFINE x == [l EXCEPT !.at = "sim"]
               y == [x EXCEPT !.worker = k]
    <3>1. x = [at |-> "sim", sim |-> l.sim, split |-> l.split, worker |-> l.worker]
      BY <2>1 DEF Places
    <3> HIDE DEF x
    <3>2. y = [at |-> "sim", sim |-> l.sim, split |-> l.split, worker |-> k]
      BY <3>1
    <3>3. y = [l EXCEPT !.at = "sim", !.worker = k]
      BY DEF x
    <3> QED BY <3>2, <3>3
  <2> QED BY <2>2 DEF l, At
<1>2. Of(S, w) \in Splits /\ m \in Calls /\ m.call = "sim" /\ m.of = Of(S, w)
  <2>1. Of(S, w) \in Splits
    BY <1>0, SimQueueAssumption DEF LoopInv, Of, Splits
  <2> QED BY <2>1 DEF Call, Calls
<1> HIDE DEF m
<1>3. /\ b \in Seq(Calls) /\ Len(S.box[k]) \in Nat /\ Len(b) = Len(S.box[k]) + 1
      /\ \A i \in 1..Len(S.box[k]) : b[i] = S.box[k][i]
      /\ b[Len(S.box[k]) + 1] = m
  BY <1>0, <1>2
<1>4. R = [[S EXCEPT !.loop[w] = p] EXCEPT !.box[k] = b]
  BY <1>0, <1>17 DEF Sent, Post, States, m
<1> HIDE DEF R, p, b
<1>5. /\ R.refused = S.refused /\ R.triggered = S.triggered /\ R.errors = S.errors
      /\ R.memo = S.memo /\ R.promise = S.promise
      /\ R.nextSim = S.nextSim /\ R.nextSplit = S.nextSplit
      /\ R.box[k] = b /\ \A l \in Loops : l # k => R.box[l] = S.box[l]
      /\ R.loop[w] = p /\ \A v \in Loops : v # w => R.loop[v] = S.loop[v]
  BY <1>0, <1>4 DEF States
<1>6. R \in States
  BY <1>0, <1>1, <1>3, <1>4 DEF States
<1>7. ASSUME NEW l \in Loops, NEW i \in 1..Len(R.box[l])
      PROVE  \/ i \in 1..Len(S.box[l]) /\ R.box[l][i] = S.box[l][i]
             \/ l = k /\ i = Len(S.box[k]) + 1 /\ R.box[l][i] = m
  BY <1>3, <1>5
<1>8. \A v \in Loops : (Has(R, v) <=> Has(S, v)) /\ Of(R, v) = Of(S, v)
  BY <1>0, <1>1, <1>5 DEF Has, Of
<1>9. TurnInv(R) /\ LoopInv(R)
  <2>1. \A v \in Loops : R.loop[v].sim = S.loop[v].sim /\ R.loop[v].split = S.loop[v].split
    BY <1>1, <1>5 DEF Of
  <2>2. \A v \in Loops : v # w => R.loop[v].at = S.loop[v].at /\ R.loop[v].worker = S.loop[v].worker
    BY <1>5
  <2>3. TurnInv(R)
    BY <1>5 DEF PageInv, TurnInv
  <2>4. \A s, i : Gone(R, s, i) <=> Gone(S, s, i)
    BY <1>5 DEF Gone
  <2>5. \A v \in Loops : R.loop[v].at = "sim" => R.loop[v].worker \in Loops
    BY <1>0, <1>1, <1>5, <2>2 DEF LoopInv
  <2>6. \A v \in Loops : R.loop[v].at = "split" => R.loop[v].sim \in 1..Sims
    BY <1>0, <1>1, <1>5, <2>1, <2>2 DEF LoopInv
  <2>7. \A v \in Loops : R.loop[v].at = "done" /\ R.errors = {} => R.nextSim > Sims
    BY <1>0, <1>1, <1>5, <2>2 DEF LoopInv
  <2> QED BY <1>0, <1>8, <2>1, <2>3, <2>4, <2>5, <2>6, <2>7 DEF LoopInv
<1>10. PromiseInv(R)
  <2>1. PromiseInv(S)
    BY DEF PageInv
  <2>2. ASSUME NEW s \in 1..Sims, NEW l \in Loops, NEW i \in 1..Len(R.box[l]), AskedAt(R, l, i, s)
        PROVE  i \in 1..Len(S.box[l]) /\ AskedAt(S, l, i, s)
    BY <1>2, <1>7, <2>2 DEF AskedAt, Call
  <2> QED BY <1>5, <2>1, <2>2 DEF PromiseInv, Gone
<1>11. ASSUME NEW run, OnWorkerInv(S, run) PROVE OnWorkerInv(R, run)
  <2>1. \A l \in Loops : \A of : AwaitedFrom(S, l, of) => AwaitedFrom(R, l, of)
    BY <1>5, <1>8 DEF AwaitedFrom
  <2>2. AwaitedFrom(R, k, Of(S, w))
    BY <1>1, <1>5, <1>8 DEF AwaitedFrom
  <2>3. \A l \in Loops : ~AwaitedFrom(S, l, Of(S, w))
    BY <1>0 DEF AwaitedFrom, LoopInv, Has
  <2>4. \A l \in Loops : Of(S, w) \notin run[l]
    BY <1>11, <2>3 DEF OnWorkerInv
  <2>5. \A l \in Loops : \A i \in 1..Len(S.box[l]) : ~SentAt(S, l, i, Of(S, w))
    BY <1>2, <1>11, <2>3 DEF OnWorkerInv
  <2>6. ASSUME NEW l \in Loops, NEW i \in 1..Len(R.box[l]), NEW of \in Splits, SentAt(R, l, i, of)
        PROVE  IF of = Of(S, w) THEN l = k /\ i = Len(S.box[k]) + 1
               ELSE i \in 1..Len(S.box[l]) /\ SentAt(S, l, i, of)
    <3>1. CASE i \in 1..Len(S.box[l]) /\ R.box[l][i] = S.box[l][i]
      <4>1. SentAt(S, l, i, of)
        BY <2>6, <3>1 DEF SentAt
      <4> QED BY <2>5, <3>1, <4>1
    <3>2. CASE l = k /\ i = Len(S.box[k]) + 1 /\ R.box[l][i] = m
      <4>1. of = Of(S, w)
        BY <1>2, <2>6, <3>2 DEF SentAt, Call
      <4> QED BY <3>2, <4>1
    <3> QED BY <1>7, <3>1, <3>2
  <2>7. ASSUME NEW l \in Loops
        PROVE  /\ \A of \in run[l] : AwaitedFrom(R, l, of)
               /\ \A of \in Splits : \A i \in 1..Len(R.box[l]) :
                     SentAt(R, l, i, of) =>
                        /\ AwaitedFrom(R, l, of) /\ of \notin run[l]
                        /\ \A j \in 1..Len(R.box[l]) : SentAt(R, l, j, of) => j = i
    <3>1. \A of \in run[l] : AwaitedFrom(R, l, of)
      BY <1>11, <2>1 DEF OnWorkerInv
    <3>2. ASSUME NEW of \in Splits, NEW i \in 1..Len(R.box[l]), SentAt(R, l, i, of)
          PROVE  /\ AwaitedFrom(R, l, of) /\ of \notin run[l]
                 /\ \A j \in 1..Len(R.box[l]) : SentAt(R, l, j, of) => j = i
      <4>1. CASE of = Of(S, w)
        BY <2>2, <2>4, <2>6, <3>2, <4>1
      <4>2. CASE of # Of(S, w)
        BY <1>11, <2>1, <2>6, <3>2, <4>2 DEF OnWorkerInv
      <4> QED BY <4>1, <4>2
    <3> QED BY <3>1, <3>2
  <2> QED BY <2>7 DEF OnWorkerInv
<1>12. ASSUME NEW back, NEW count, NEW told, BackInv(S, back, count, told)
       PROVE  BackInv(R, back, count, told)
  <2>1. \A v \in Loops : R.loop[v].sim = S.loop[v].sim /\ R.loop[v].split = S.loop[v].split
    BY <1>1, <1>5 DEF Of
  <2>2. \A s, i : Gone(R, s, i) <=> Gone(S, s, i)
    BY <1>5 DEF Gone
  <2> QED BY <1>5, <1>8, <1>12, <2>1, <2>2 DEF BackInv
<1>13. \A cut : AbortInv(S, cut) => AbortInv(R, cut)
  BY <1>2, <1>5, <1>7 DEF AbortInv
<1>14. StopInv(S) => StopInv(R)
  BY <1>5 DEF StopInv
<1>15. \A fails, user : CauseInv(S, fails, user) => CauseInv(R, fails, user)
  BY <1>5 DEF CauseInv
<1>16. OwnInv(S) /\ k = w => OwnInv(R)
  BY <1>1, <1>5 DEF OwnInv
<1> QED BY <1>6, <1>9, <1>10, <1>11, <1>12, <1>13, <1>14, <1>15, <1>16 DEF PageInv, R

-----------------------------------------------------------------------------
(* The steps *)

\* What a call's record says is what the variables become.
LEMMA BecomesFacts ==
  ASSUME NEW S, S \in States, Becomes(S)
  PROVE  State' = S
BY DEF Becomes, State, States

\* A step of the page that keeps what a round keeps, before the queue has returned.
LEMMA PageStep ==
  ASSUME QueueInv, NEW R, Becomes(R), Keeps(State, R), outcome = Nil,
         UNCHANGED <<running, hit>>, Quiet, NoResult
  PROVE  QueueInv'
<1>1. State' = R
  BY BecomesFacts DEF Keeps, PageInv
<1>2. OtherTypes'
  BY DEF QueueInv, OtherTypes, Quiet, NoResult
<1>3. PageInv(State)' /\ StopInv(State)'
  BY <1>1 DEF Keeps
<1>4. CauseInv(State, failures, aborted)' /\ AbortInv(State, hit)'
  BY <1>1 DEF QueueInv, Keeps, Quiet
<1>5. OnWorkerInv(State, running)' /\ BackInv(State, results, returned, finished)'
  BY <1>1 DEF QueueInv, Keeps, NoResult
<1>6. (resizes = 0 => pool = Workers /\ OwnInv(State))'
  BY <1>1 DEF QueueInv, Keeps, Quiet
<1>7. EndInv(State, outcome)'
  BY DEF EndInv, Quiet
<1> QED BY <1>2, <1>3, <1>4, <1>5, <1>6, <1>7 DEF QueueInv

\* The invariant holds at first.
LEMMA QueueInit == Init => QueueInv
<1> SUFFICES ASSUME Init PROVE QueueInv
  OBVIOUS
<1>0. /\ Workers \in Nat /\ Workers > 0 /\ Sims \in Nat /\ Sims > 0
      /\ \A s \in 1..Sims : SplitsOf(s) \in 1..Workers
      /\ MaxResizes \in Nat /\ MaxFailures \in Nat
  BY SimQueueAssumption
<1>1. OtherTypes
  <2>1. pool \in 1..Workers /\ resizes \in 0..MaxResizes /\ failures \in 0..MaxFailures
    BY <1>0 DEF Init
  <2>2. /\ running \in [Loops -> SUBSET Splits] /\ hit \subseteq Splits /\ aborted \in BOOLEAN
        /\ results \in [1..Sims -> SUBSET Loops] /\ outcome = Nil
    BY DEF Init
  <2>3. returned \in [1..Sims -> Nat] /\ finished \in [1..Sims -> Nat]
    BY DEF Init
  <2> QED BY <2>1, <2>2, <2>3 DEF OtherTypes
<1>2. /\ \A k \in Loops : State.box[k] = <<>> /\ Len(State.box[k]) = 0
      /\ \A w \in Loops : State.loop[w] = At("begin", 0, 0, 0)
      /\ State.errors = {} /\ State.triggered = FALSE /\ State.memo = {}
      /\ \A s \in 1..Sims : State.promise[s] = "none"
      /\ State.nextSim = 1 /\ State.nextSplit = 1
  BY DEF Init, State
<1>3. At("begin", 0, 0, 0) \in Places /\ \A w \in Loops : State.loop[w].at = "begin"
  BY <1>0, <1>2 DEF At, Places
<1>4. State \in States
  <2>1. <<>> \in Seq(Calls)
    OBVIOUS
  <2>2. box \in [Loops -> Seq(Calls)] /\ loop \in [Loops -> Places]
    BY <1>3, <2>1 DEF Init
  <2>3. 1 \in 1..(Sims + 1) /\ 1 \in 1..Workers
    BY <1>0
  <2>4. promise \in [1..Sims -> {"none", "asked", "ok", "failed"}]
    BY DEF Init
  <2>5. /\ refused \in SUBSET Splits /\ triggered \in BOOLEAN
        /\ errors \in SUBSET {"failed", "aborted"} /\ memo \in SUBSET (1..Sims)
        /\ nextSim = 1 /\ nextSplit = 1
    BY DEF Init
  <2> QED BY <2>2, <2>3, <2>4, <2>5 DEF State, States
<1>5. \A w \in Loops : ~Has(State, w)
  BY <1>3 DEF Has
<1>6. \A s \in 1..Sims : \A i \in 1..SplitsOf(s) : ~Gone(State, s, i)
  BY <1>0, <1>2 DEF Gone
<1>7. TurnInv(State) /\ LoopInv(State)
  BY <1>0, <1>2, <1>3, <1>5 DEF TurnInv, LoopInv
<1>8. PromiseInv(State)
  <2>1. \A s \in 1..Sims : ~Gone(State, s, 1)
    BY <1>0, <1>6
  <2> QED BY <1>2, <2>1 DEF PromiseInv
<1>9. StopInv(State) /\ AbortInv(State, hit) /\ CauseInv(State, failures, aborted)
  BY <1>2 DEF StopInv, AbortInv, CauseInv, Init
<1>10. OnWorkerInv(State, running)
  BY <1>2 DEF OnWorkerInv, Init
<1>11. BackInv(State, results, returned, finished)
  <2>1. Cardinality({}) = 0
    BY FS_EmptySet
  <2>2. \A s \in 1..Sims : results[s] = {} /\ returned[s] = 0 /\ finished[s] = 0
    BY DEF Init
  <2>3. \A s \in 1..Sims : 1 \in 1..SplitsOf(s)
    BY <1>0
  <2> QED BY <1>5, <1>6, <2>1, <2>2, <2>3 DEF BackInv
<1>12. pool = Workers /\ OwnInv(State) /\ EndInv(State, outcome)
  BY <1>3 DEF Init, OwnInv, EndInv
<1> QED BY <1>1, <1>4, <1>7, <1>8, <1>9, <1>10, <1>11, <1>12 DEF QueueInv, PageInv

\* A loop that is not done says that the queue has not returned.
LEMMA NotYet == ASSUME QueueInv, NEW w \in Loops, loop[w].at # "done" PROVE outcome = Nil
BY DEF QueueInv, EndInv, State

\* Workers of the pool are workers.
LEMMA LeastBusyFacts == ASSUME pool \in 1..Workers PROVE LeastBusy \subseteq Loops
BY SimQueueAssumption DEF LeastBusy, Loops

\* The queue starts.
LEMMA StartStep == ASSUME QueueInv, Start PROVE QueueInv'
<1>1. PICK k \in LeastBusy : Becomes(Begun(k)[Workers])
  BY DEF Start
<1>2. PageInv(State) /\ StopInv(State) /\ pool \in 1..Workers
  BY DEF QueueInv, OtherTypes
<1>3. k \in Loops
  BY <1>2, LeastBusyFacts
<1>4. \A w \in Loops : ~Has(State, w)
  BY DEF Start, State, Has
<1>5. Keeps(State, Begun(k)[Workers])
  BY <1>2, <1>3, <1>4, StartKeeps
<1>6. outcome = Nil
  <2>1. loop[k].at # "done"
    BY <1>3 DEF Start
  <2> QED BY <1>3, <2>1, NotYet
<1>7. UNCHANGED <<running, hit>> /\ Quiet /\ NoResult
  BY DEF Start
<1> QED BY <1>1, <1>5, <1>6, <1>7, PageStep

\* A loop that waited for a sim's split requests goes on.
LEMMA ClaimStep == ASSUME QueueInv, NEW w \in Loops, Claim(w) PROVE QueueInv'
<1>1. /\ PageInv(State) /\ StopInv(State) /\ pool \in 1..Workers
      /\ UNCHANGED <<running, hit>> /\ Quiet /\ NoResult
  BY DEF QueueInv, OtherTypes, Claim
<1>2. outcome = Nil
  BY NotYet DEF Claim
<1>3. State.loop[w].at = "split" /\ ~Has(State, w) /\ State.loop[w].at # "sim"
  BY DEF Claim, State, Has
<1>4. loop[w].sim \in 1..Sims
  BY <1>1, <1>3 DEF PageInv, LoopInv, State
<1>5. CASE promise[loop[w].sim] = "failed"
  <2> DEFINE R == Fail(State, w, "failed")
  <2>1. Becomes(R)
    BY <1>5 DEF Claim
  <2>2. FailedTo(State, R, w, "failed")
    BY <1>1, FailKeeps
  <2> HIDE DEF R
  <2>3. \A fails, user : CauseInv(State, fails, user) => CauseInv(R, fails, user)
    <3>1. State.promise[loop[w].sim] = "failed"
      BY <1>5 DEF State
    <3> QED BY <1>4, <2>2, <3>1 DEF CauseInv, FailedTo
  <2>4. OwnInv(State) => OwnInv(R)
    BY <2>2 DEF FailedTo, OwnInv, Finished, At
  <2>5. Keeps(State, R)
    BY <1>3, <2>2, <2>3, <2>4 DEF FailedTo, Keeps
  <2> QED BY <1>1, <1>2, <2>1, <2>5, PageStep
<1>6. CASE promise[loop[w].sim] = "ok"
  <2>1. PICK k \in LeastBusy : Becomes(IF InTurn(w) THEN Take(State, w, k) ELSE AwaitSplit(State, w, k))
    BY <1>6 DEF Claim
  <2>2. k \in Loops
    BY <1>1, LeastBusyFacts
  <2>3. CASE InTurn(w)
    <3>1. State.nextSim \in 1..Sims /\ State.promise[State.nextSim] = "ok"
      BY <1>4, <1>6, <2>3 DEF InTurn, State
    <3>2. Keeps(State, Take(State, w, k))
      BY <1>1, <1>3, <2>2, <3>1, TakeKeeps
    <3> QED BY <1>1, <1>2, <2>1, <2>3, <3>2, PageStep
  <2>4. CASE ~InTurn(w)
    <3>1. Keeps(State, AwaitSplit(State, w, k))
      BY <1>1, <1>3, <2>2, AwaitKeeps
    <3> QED BY <1>1, <1>2, <2>1, <2>4, <3>1, PageStep
  <2> QED BY <2>3, <2>4
<1> QED BY <1>5, <1>6 DEF Claim

\* A claimed split is sent, unless the queue is stopped.
LEMMA SendStep == ASSUME QueueInv, NEW w \in Loops, Send(w) PROVE QueueInv'
<1>1. /\ PageInv(State) /\ StopInv(State) /\ pool \in 1..Workers
      /\ UNCHANGED <<running, hit>> /\ Quiet /\ NoResult
  BY DEF QueueInv, OtherTypes, Send
<1>2. outcome = Nil
  BY NotYet DEF Send
<1>3. State.loop[w].at = "claimed" /\ State.loop[w].at # "sim"
  BY DEF Send, State
<1>4. CASE Stopped(State)
  <2>1. Becomes(Stop(State, w))
    BY <1>4 DEF Send
  <2>2. Keeps(State, Stop(State, w))
    BY <1>1, <1>3, <1>4, StopKeeps
  <2> QED BY <1>1, <1>2, <2>1, <2>2, PageStep
<1>5. CASE ~Stopped(State)
  <2>1. PICK k \in Targets(w) : Becomes(Sent(State, w, k))
    BY <1>5 DEF Send, Sent, State, Of, SplitOf
  <2>2. k \in Loops /\ (pool = Workers => k = w)
    <3>1. LeastBusy \subseteq Loops
      BY <1>1, LeastBusyFacts
    <3>2. w <= Workers
      BY SimQueueAssumption DEF Loops
    <3> QED BY <3>1, <3>2 DEF Targets
  <2> DEFINE R == Sent(State, w, k)
  <2>3. /\ PageInv(R) /\ (StopInv(State) => StopInv(R))
        /\ \A run : OnWorkerInv(State, run) => OnWorkerInv(R, run)
        /\ \A back, count, told : BackInv(State, back, count, told) => BackInv(R, back, count, told)
        /\ \A cut : AbortInv(State, cut) => AbortInv(R, cut)
        /\ \A fails, user : CauseInv(State, fails, user) => CauseInv(R, fails, user)
        /\ OwnInv(State) /\ k = w => OwnInv(R)
    BY <1>1, <1>3, <2>2, SentKeeps
  <2> HIDE DEF R
  <2>4. State' = R
    BY <2>1, <2>3, BecomesFacts DEF PageInv, R
  <2>5. OtherTypes'
    BY <1>1 DEF QueueInv, OtherTypes, Quiet, NoResult
  <2>6. PageInv(State)' /\ StopInv(State)'
    BY <1>1, <2>3, <2>4
  <2>7. CauseInv(State, failures, aborted)' /\ AbortInv(State, hit)'
    BY <1>1, <2>3, <2>4 DEF QueueInv, Quiet
  <2>8. OnWorkerInv(State, running)' /\ BackInv(State, results, returned, finished)'
    BY <1>1, <2>3, <2>4 DEF QueueInv, NoResult
  <2>9. (resizes = 0 => pool = Workers /\ OwnInv(State))'
    BY <1>1, <2>2, <2>3, <2>4 DEF QueueInv, Quiet
  <2>10. EndInv(State, outcome)'
    BY <1>1, <1>2 DEF EndInv, Quiet
  <2> QED BY <2>5, <2>6, <2>7, <2>8, <2>9, <2>10 DEF QueueInv
<1> QED BY <1>4, <1>5

\* What a loop does next does not depend on what it had.
LEMMA RoundForgets ==
  ASSUME NEW S, PageInv(S), NEW w \in Loops, NEW p \in Places, NEW k \in Loops
  PROVE  /\ NextRound(Moved(S, w, p), w, k) = NextRound(S, w, k)
         /\ \A error : Fail(Moved(S, w, p), w, error) = Fail(S, w, error)
<1> DEFINE M == Moved(S, w, p)
<1>0. S \in States /\ Finished \in Places
  BY SimQueueAssumption DEF PageInv, Finished, At, Places
<1>1. /\ M \in States /\ M.box = S.box /\ M.refused = S.refused /\ M.triggered = S.triggered
      /\ M.errors = S.errors /\ M.memo = S.memo /\ M.promise = S.promise
      /\ M.nextSim = S.nextSim /\ M.nextSplit = S.nextSplit
  BY <1>0, MoveFacts
<1>2. Done(M, w) = Done(S, w)
  <2>1. Moved(M, w, Finished) = Moved(S, w, Finished)
    BY <1>0, MoveForgets
  <2> QED BY <2>1 DEF Done, Moved, Finished
<1>3. ASSUME NEW error PROVE Fail(M, w, error) = Fail(S, w, error)
  <2> HIDE DEF M
  <2> QED BY <1>2 DEF Fail
<1>4. Stop(M, w) = Stop(S, w) /\ (Stopped(M) <=> Stopped(S))
  <2> HIDE DEF M
  <2> QED BY <1>1, <1>2, <1>3 DEF Stop, Stopped
<1>5. AwaitSplit(M, w, k) = AwaitSplit(S, w, k)
  <2>1. CASE S.nextSim > Sims
    <3> HIDE DEF M
    <3> QED BY <1>1, <1>2, <2>1 DEF AwaitSplit
  <2>2. CASE ~(S.nextSim > Sims)
    <3> DEFINE s == S.nextSim
               T == SplitRequest(S, s, k)
               q == At("split", s, 0, 0)
    <3>1. s \in 1..Sims /\ s >= S.nextSim /\ q \in Places
      <4>1. s \in 1..Sims
        BY <1>0, <2>2, SimQueueAssumption DEF States
      <4> HIDE DEF s
      <4>2. q \in Places
        BY <4>1, SimQueueAssumption DEF Places, At
      <4>3. s >= s
        BY <4>1
      <4> QED BY <4>1, <4>2, <4>3 DEF s
    <3>2. T \in States
      <4>1. PageInv(T)
        BY <3>1, AskKeeps
      <4> QED BY <4>1 DEF PageInv
    <3>3. SplitRequest(M, s, k) = Moved(T, w, p)
      <4>1. CASE s \in S.memo
        BY <1>1, <4>1 DEF SplitRequest
      <4>2. CASE s \notin S.memo
        <5> DEFINE m == Call("split", <<s, 0>>)
                   l == [S.loop EXCEPT ![w] = p]
                   b == [S.box EXCEPT ![k] = Append(@, m)]
                   R == [box |-> b, refused |-> S.refused,
                         triggered |-> S.triggered, errors |-> S.errors, memo |-> S.memo \cup {s},
                         promise |-> [S.promise EXCEPT ![s] = "asked"], nextSim |-> S.nextSim,
                         nextSplit |-> S.nextSplit, loop |-> l]
        <5> HIDE DEF m
        <5>1. SplitRequest(M, s, k) = R
          <6>1. M.loop = l
            BY <1>0 DEF Moved, States
          <6> HIDE DEF M
          <6>2. SplitRequest(M, s, k) = Post([M EXCEPT !.memo = @ \cup {s}, !.promise[s] = "asked"], k, m)
            BY <1>1, <4>2 DEF SplitRequest, m
          <6> HIDE DEF l
          <6>3. M = [box |-> S.box, refused |-> S.refused, triggered |-> S.triggered,
                     errors |-> S.errors, memo |-> S.memo, promise |-> S.promise,
                     nextSim |-> S.nextSim, nextSplit |-> S.nextSplit, loop |-> l]
            BY <1>1, <6>1 DEF States
          <6> QED BY <6>2, <6>3 DEF Post
        <5>2. Moved(T, w, p) = R
          <6>1. T = [box |-> b, refused |-> S.refused,
                     triggered |-> S.triggered, errors |-> S.errors, memo |-> S.memo \cup {s},
                     promise |-> [S.promise EXCEPT ![s] = "asked"], nextSim |-> S.nextSim,
                     nextSplit |-> S.nextSplit, loop |-> S.loop]
            BY <1>0, <4>2 DEF SplitRequest, Post, States, m
          <6> HIDE DEF T, b
          <6> QED BY <6>1 DEF Moved
        <5> QED BY <5>1, <5>2
      <4> QED BY <4>1, <4>2
    <3> HIDE DEF q, T
    <3>4. Moved(Moved(T, w, p), w, q) = Moved(T, w, q)
      BY <3>1, <3>2, MoveForgets
    <3>5. AwaitSplit(S, w, k) = Moved(T, w, q)
      BY <2>2 DEF AwaitSplit, Moved, T, q
    <3>6. AwaitSplit(M, w, k) = Moved(SplitRequest(M, s, k), w, q)
      <4> HIDE DEF M
      <4> QED BY <1>1, <2>2 DEF AwaitSplit, Moved, q
    <3> QED BY <3>3, <3>4, <3>5, <3>6
  <2> QED BY <2>1, <2>2
<1>6. NextRound(M, w, k) = NextRound(S, w, k)
  <2> HIDE DEF M
  <2> QED BY <1>4, <1>5 DEF NextRound
<1> QED BY <1>3, <1>6

\* Nor on which aborts were refused.
LEMMA ForgetKeeps ==
  ASSUME NEW S, PageInv(S), StopInv(S), NEW x \in SUBSET Splits
  PROVE  LET R == [S EXCEPT !.refused = x]
         IN  Keeps(S, R) /\ R.loop = S.loop /\ R.promise = S.promise /\ R.errors = S.errors
<1> DEFINE R == [S EXCEPT !.refused = x]
<1>1. /\ R \in States /\ R.box = S.box /\ R.triggered = S.triggered
      /\ R.errors = S.errors /\ R.memo = S.memo /\ R.promise = S.promise
      /\ R.nextSim = S.nextSim /\ R.nextSplit = S.nextSplit /\ R.loop = S.loop
  BY DEF PageInv, States
<1> HIDE DEF R
<1>2. TurnInv(R) /\ LoopInv(R) /\ PromiseInv(R) /\ StopInv(R)
  BY <1>1 DEF PageInv, TurnInv, LoopInv, PromiseInv, StopInv, AskedAt, Gone, Has, Of
<1>3. \A run : OnWorkerInv(S, run) => OnWorkerInv(R, run)
  BY <1>1 DEF OnWorkerInv, AwaitedFrom, SentAt, Of
<1>4. \A back, count, told : BackInv(S, back, count, told) => BackInv(R, back, count, told)
  BY <1>1 DEF BackInv, Gone, Has, Of
<1>5. \A cut : AbortInv(S, cut) => AbortInv(R, cut)
  BY <1>1 DEF AbortInv
<1>6. \A fails, user : CauseInv(S, fails, user) => CauseInv(R, fails, user)
  BY <1>1 DEF CauseInv
<1>7. OwnInv(S) => OwnInv(R)
  BY <1>1 DEF OwnInv
<1> QED BY <1>1, <1>2, <1>3, <1>4, <1>5, <1>6, <1>7 DEF Keeps, PageInv, R

\* A split comes back.
LEMMA SimEndsStep ==
  ASSUME QueueInv, NEW w \in Loops, NEW result \in {"ok", "failed", "aborted"}, SimEnds(w, result)
  PROVE  QueueInv'
<1> DEFINE s == loop[w].sim
           i == loop[w].split
           k == loop[w].worker
           S == [State EXCEPT !.refused = @ \ {<<s, i>>}]
           start == At("begin", 0, 0, 0)
           F == Moved(S, w, start)
<1>1. /\ PageInv(State) /\ StopInv(State) /\ pool \in 1..Workers /\ OtherTypes
      /\ CauseInv(State, failures, aborted) /\ AbortInv(State, hit)
      /\ OnWorkerInv(State, running) /\ BackInv(State, results, returned, finished)
      /\ (resizes = 0 => pool = Workers /\ OwnInv(State))
  BY DEF QueueInv, OtherTypes
<1>2. /\ loop[w].at = "sim" /\ <<s, i>> \in running[k]
      /\ (result = "aborted" <=> <<s, i>> \in hit)
      /\ running' = [running EXCEPT ![k] = @ \ {<<s, i>>}]
      /\ hit' = hit \ {<<s, i>>}
      /\ UNCHANGED <<pool, aborted, outcome, resizes>>
  BY DEF SimEnds
<1>3. outcome = Nil
  BY <1>2, NotYet
<1>4. Keeps(State, S) /\ S.loop = loop /\ S.promise = promise /\ S.errors = errors
  <2> DEFINE x == refused \ {<<s, i>>}
  <2>1. x \in SUBSET Splits
    BY <1>1 DEF PageInv, States, State
  <2>2. S = [State EXCEPT !.refused = x]
    BY DEF State
  <2> HIDE DEF x
  <2>3. State.loop = loop /\ State.promise = promise /\ State.errors = errors
    BY DEF State
  <2> HIDE DEF S
  <2> QED BY <1>1, <2>1, <2>2, <2>3, ForgetKeeps
<1>5. start \in Idling /\ start \in Places /\ start.at = "begin"
  BY SimQueueAssumption DEF Idling, Places, At
<1>6. \A j \in LeastBusy : result = "ok" => (Becomes(NextRound(S, w, j)) <=> Becomes(NextRound(F, w, j)))
  <2>1. \A j \in LeastBusy : j \in Loops
    BY <1>1, LeastBusyFacts
  <2>2. PageInv(S)
    BY <1>4 DEF Keeps
  <2> HIDE DEF S, start
  <2>3. \A j \in LeastBusy : NextRound(S, w, j) = NextRound(F, w, j)
    BY <1>5, <2>1, <2>2, RoundForgets
  <2> QED BY <2>3
<1>7. /\ result = "ok" =>
            /\ results' = [results EXCEPT ![s] = @ \cup {i}]
            /\ returned' = [returned EXCEPT ![s] = @ + 1]
            /\ finished' = [finished EXCEPT ![s] = IF returned'[s] = SplitsOf(s) THEN @ + 1 ELSE @]
            /\ \E j \in LeastBusy : Becomes(NextRound(S, w, j))
            /\ UNCHANGED failures
      /\ result # "ok" =>
            /\ failures' = (IF result = "failed" THEN failures + 1 ELSE failures)
            /\ (result = "failed" => failures < MaxFailures)
            /\ Becomes(Fail(S, w, result)) /\ NoResult
  BY DEF SimEnds
<1> HIDE DEF S
<1>8. /\ PageInv(S) /\ StopInv(S)
      /\ OnWorkerInv(S, running) /\ BackInv(S, results, returned, finished)
      /\ CauseInv(S, failures, aborted) /\ AbortInv(S, hit) /\ (resizes = 0 => OwnInv(S))
  BY <1>1, <1>4 DEF Keeps
<1>9. /\ S \in States /\ LoopInv(S) /\ S.loop[w].at = "sim" /\ Has(S, w) /\ Of(S, w) = <<s, i>>
      /\ s \in 1..Sims /\ i \in 1..SplitsOf(s) /\ k \in Loops
      /\ S.loop[w].worker = k /\ S.loop[w].split = i /\ S.loop[w].sim = s
  BY <1>2, <1>4, <1>8 DEF PageInv, LoopInv, Has, Of
<1>21. Gone(S, s, i)
  BY <1>9 DEF LoopInv
<1>10. /\ F.box = S.box /\ F.triggered = S.triggered /\ F.errors = S.errors /\ F.promise = S.promise
       /\ F.nextSim = S.nextSim /\ F.nextSplit = S.nextSplit
       /\ F.loop[w] = start /\ \A v \in Loops : v # w => F.loop[v] = S.loop[v]
  BY <1>5, <1>9, MoveFacts
<1>11. PageInv(F)
  <2>1. start.at # "done"
    BY <1>5
  <2> HIDE DEF start
  <2> QED BY <1>5, <1>8, <2>1, MoveKeeps
<1> HIDE DEF F, start, s, i, k
<1>12. /\ StopInv(F) /\ CauseInv(F, failures, aborted) /\ AbortInv(F, hit) /\ (resizes = 0 => OwnInv(F))
       /\ ~Has(F, w) /\ F.loop[w].at # "sim"
  <2>1. resizes = 0 => OwnInv(F)
    BY <1>5, <1>8, <1>10 DEF OwnInv
  <2>2. ~Has(F, w) /\ F.loop[w].at # "sim"
    BY <1>5, <1>10 DEF Has
  <2>3. StopInv(F) /\ AbortInv(F, hit)
    BY <1>8, <1>10 DEF StopInv, AbortInv
  <2>4. CauseInv(F, failures, aborted)
    BY <1>8, <1>10 DEF CauseInv
  <2> QED BY <2>1, <2>2, <2>3, <2>4
<1>13. \A v \in Loops : v # w => (Has(F, v) <=> Has(S, v)) /\ Of(F, v) = Of(S, v)
  BY <1>10 DEF Has, Of
<1>14. /\ running' \in [Loops -> SUBSET Splits]
       /\ \A l \in Loops : running'[l] = IF l = k THEN running[l] \ {<<s, i>>} ELSE running[l]
  BY <1>1, <1>2, <1>9 DEF OtherTypes
<1>15. OnWorkerInv(F, running')
  <2>1. ASSUME NEW l \in Loops, NEW of, AwaitedFrom(S, l, of), ~(l = k /\ of = <<s, i>>)
        PROVE  AwaitedFrom(F, l, of)
    <3>1. PICK v \in Loops : S.loop[v].at = "sim" /\ S.loop[v].worker = l /\ Of(S, v) = of
      BY <2>1 DEF AwaitedFrom
    <3>2. v # w
      BY <1>9, <2>1, <3>1
    <3>3. F.loop[v].at = "sim" /\ F.loop[v].worker = l /\ Of(F, v) = of
      BY <1>10, <1>13, <3>1, <3>2
    <3> QED BY <3>3 DEF AwaitedFrom
  <2>2. ASSUME NEW l \in Loops, NEW of \in running'[l] PROVE AwaitedFrom(F, l, of)
    <3>1. of \in running[l] /\ ~(l = k /\ of = <<s, i>>)
      BY <1>14
    <3>2. AwaitedFrom(S, l, of)
      BY <1>8, <3>1 DEF OnWorkerInv
    <3> QED BY <2>1, <3>1, <3>2
  <2>3. ASSUME NEW l \in Loops, NEW of \in Splits, NEW j \in 1..Len(F.box[l]), SentAt(F, l, j, of)
        PROVE  /\ AwaitedFrom(F, l, of) /\ of \notin running'[l]
               /\ \A h \in 1..Len(F.box[l]) : SentAt(F, l, h, of) => h = j
    <3>1. j \in 1..Len(S.box[l]) /\ SentAt(S, l, j, of)
      BY <1>10, <2>3 DEF SentAt
    <3>2. /\ AwaitedFrom(S, l, of) /\ of \notin running[l]
          /\ \A h \in 1..Len(S.box[l]) : SentAt(S, l, h, of) => h = j
      BY <1>8, <3>1 DEF OnWorkerInv
    <3>3. ~(l = k /\ of = <<s, i>>)
      BY <1>2, <3>2
    <3>4. of \notin running'[l]
      BY <1>14, <3>2
    <3>5. \A h \in 1..Len(F.box[l]) : SentAt(F, l, h, of) => h = j
      BY <1>10, <3>2 DEF SentAt
    <3> QED BY <2>1, <3>2, <3>3, <3>4, <3>5
  <2> QED BY <2>2, <2>3 DEF OnWorkerInv
<1>16. AbortInv(F, hit')
  BY <1>2, <1>12 DEF AbortInv
<1>17. EndInv(State, outcome)'
  BY <1>2, <1>3 DEF EndInv
<1>18. hit' \subseteq Splits
  BY <1>1, <1>2 DEF OtherTypes
<1>19. CASE result = "ok"
  <2>1. PICK j \in LeastBusy : Becomes(NextRound(F, w, j))
    BY <1>6, <1>7, <1>19
  <2>2. j \in Loops
    BY <1>1, LeastBusyFacts
  <2> DEFINE R == NextRound(F, w, j)
  <2>3. Keeps(F, R)
    BY <1>1, <1>11, <1>12, <2>2, RoundKeeps
  <2>4. Becomes(R)
    BY <2>1
  <2> HIDE DEF R
  <2>5. State' = R
    BY <2>3, <2>4, BecomesFacts DEF Keeps, PageInv
  <2>6. /\ results \in [1..Sims -> SUBSET Loops] /\ returned \in [1..Sims -> Nat]
        /\ finished \in [1..Sims -> Nat] /\ SplitsOf(s) \in 1..Workers /\ Workers \in Nat
        /\ i \in Loops
    <3>1. SplitsOf(s) \in 1..Workers /\ Workers \in Nat
      BY <1>9, SimQueueAssumption
    <3>2. i \in Loops
      BY <1>9, <3>1 DEF Loops
    <3> QED BY <1>1, <3>1, <3>2 DEF OtherTypes
  <2>7. /\ \A t \in 1..Sims : results'[t] = IF t = s THEN results[t] \cup {i} ELSE results[t]
        /\ \A t \in 1..Sims : returned'[t] = IF t = s THEN returned[t] + 1 ELSE returned[t]
        /\ \A t \in 1..Sims : finished'[t] = IF t = s /\ returned'[t] = SplitsOf(s)
                                             THEN finished[t] + 1 ELSE finished[t]
    <3>1. \A t \in 1..Sims : results'[t] = IF t = s THEN results[t] \cup {i} ELSE results[t]
      BY <1>7, <1>9, <1>19, <2>6
    <3>2. \A t \in 1..Sims : returned'[t] = IF t = s THEN returned[t] + 1 ELSE returned[t]
      BY <1>7, <1>9, <1>19, <2>6
    <3>3. \A t \in 1..Sims : finished'[t] = IF t = s /\ returned'[t] = SplitsOf(s)
                                            THEN finished[t] + 1 ELSE finished[t]
      BY <1>7, <1>9, <1>19, <2>6
    <3> QED BY <3>1, <3>2, <3>3
  <2>8. /\ results' \in [1..Sims -> SUBSET Loops] /\ returned' \in [1..Sims -> Nat]
        /\ finished' \in [1..Sims -> Nat]
    <3>1. results' \in [1..Sims -> SUBSET Loops]
      BY <1>7, <1>9, <1>19, <2>6
    <3>2. returned' \in [1..Sims -> Nat]
      BY <1>7, <1>9, <1>19, <2>6
    <3>3. finished' \in [1..Sims -> Nat]
      BY <1>7, <1>9, <1>19, <2>6
    <3> QED BY <3>1, <3>2, <3>3
  <2>15. /\ results'[s] = results[s] \cup {i} /\ returned'[s] = returned[s] + 1
         /\ \A t \in 1..Sims : t # s => results'[t] = results[t] /\ returned'[t] = returned[t]
                                      /\ finished'[t] = finished[t]
    BY <1>9, <2>7
  <2>16. \A h : h \in results'[s] <=> h \in results[s] \/ h = i
    BY <2>15
  <2>9. i \notin results[s]
    BY <1>8, <1>9 DEF BackInv
  <2>10. /\ results'[s] \subseteq 1..SplitsOf(s)
         /\ returned'[s] = Cardinality(results'[s])
         /\ finished'[s] = IF results'[s] = 1..SplitsOf(s) THEN 1 ELSE 0
    <3> DEFINE N == 1..SplitsOf(s)
               X == results[s]
               Y == results'[s]
    <3>1. X \subseteq N /\ returned[s] = Cardinality(X) /\ finished[s] = 0
      BY <1>8, <1>9, <2>9 DEF BackInv
    <3>2. IsFiniteSet(N) /\ Cardinality(N) = SplitsOf(s)
      BY <2>6, FS_Interval
    <3>3. Y = X \cup {i} /\ Y \subseteq N
      BY <1>9, <2>15, <3>1
    <3>4. returned'[s] = returned[s] + 1
          /\ finished'[s] = IF returned'[s] = SplitsOf(s) THEN finished[s] + 1 ELSE finished[s]
      BY <1>9, <2>7
    <3> HIDE DEF N, X, Y
    <3>5. IsFiniteSet(X) /\ IsFiniteSet(Y)
      BY <3>1, <3>2, <3>3, FS_Subset
    <3>6. Cardinality(Y) = Cardinality(X) + 1
      BY <2>9, <3>3, <3>5, FS_AddElement DEF X
    <3>7. Cardinality(Y) = SplitsOf(s) <=> Y = N
      BY <3>2, <3>3, FS_Subset
    <3> QED BY <3>1, <3>3, <3>4, <3>6, <3>7 DEF X, Y, N
  <2>11. BackInv(F, results', returned', finished')
    <3>0. \A t, j2 : Gone(F, t, j2) <=> Gone(S, t, j2)
      BY <1>10 DEF Gone
    <3>1. ASSUME NEW t \in 1..Sims
          PROVE  /\ results'[t] \subseteq 1..SplitsOf(t) /\ returned'[t] = Cardinality(results'[t])
                 /\ \A h \in results'[t] : Gone(F, t, h)
                 /\ finished'[t] = IF results'[t] = 1..SplitsOf(t) THEN 1 ELSE 0
      <4>1. CASE t = s
        <5>1. \A h \in results'[s] : Gone(S, s, h)
          BY <1>8, <1>9, <1>21, <2>16 DEF BackInv
        <5> QED BY <2>10, <3>0, <4>1, <5>1
      <4>2. CASE t # s
        BY <1>8, <2>7, <3>0, <4>2 DEF BackInv
      <4> QED BY <4>1, <4>2
    <3>2. ASSUME NEW v \in Loops, Has(F, v) PROVE F.loop[v].split \notin results'[F.loop[v].sim]
      <4>1. v # w /\ Has(S, v) /\ F.loop[v] = S.loop[v]
        BY <1>10, <1>12, <1>13, <3>2
      <4>2. S.loop[v].split \notin results[S.loop[v].sim] /\ S.loop[v].sim \in 1..Sims
        BY <1>8, <1>9, <4>1 DEF BackInv, LoopInv
      <4>3. Of(S, v) # <<s, i>>
        BY <1>9, <4>1 DEF LoopInv
      <4>4. ~(S.loop[v].sim = s /\ S.loop[v].split = i)
        BY <4>3 DEF Of
      <4>5. CASE S.loop[v].sim = s
        BY <2>16, <4>1, <4>2, <4>4, <4>5
      <4>6. CASE S.loop[v].sim # s
        BY <2>15, <4>1, <4>2, <4>6
      <4> QED BY <4>5, <4>6
    <3>3. ASSUME F.errors = {}, NEW t \in 1..Sims, NEW h \in 1..SplitsOf(t), Gone(F, t, h)
          PROVE  h \in results'[t] \/ \E v \in Loops : Has(F, v) /\ Of(F, v) = <<t, h>>
      <4>1. h \in results[t] \/ \E v \in Loops : Has(S, v) /\ Of(S, v) = <<t, h>>
        BY <1>8, <1>10, <3>0, <3>3 DEF BackInv
      <4>2. CASE h \in results[t]
        BY <2>7, <4>2
      <4>3. CASE \E v \in Loops : Has(S, v) /\ Of(S, v) = <<t, h>>
        <5>1. PICK v \in Loops : Has(S, v) /\ Of(S, v) = <<t, h>>
          BY <4>3
        <5>2. CASE v = w
          <6>1. t = s /\ h = i
            BY <1>9, <5>1, <5>2
          <6> QED BY <2>16, <6>1
        <5>3. CASE v # w
          BY <1>13, <5>1, <5>3
        <5> QED BY <5>2, <5>3
      <4> QED BY <4>1, <4>2, <4>3
    <3> QED BY <3>1, <3>2, <3>3 DEF BackInv
  <2>12. OtherTypes'
    BY <1>1, <1>2, <1>7, <1>14, <1>18, <1>19, <2>8 DEF OtherTypes
  <2>13. failures' = failures /\ aborted' = aborted /\ resizes' = resizes /\ pool' = pool
    BY <1>2, <1>7, <1>19
  <2>14. PageInv(R) /\ StopInv(R) /\ CauseInv(R, failures, aborted) /\ AbortInv(R, hit')
         /\ OnWorkerInv(R, running') /\ BackInv(R, results', returned', finished')
         /\ (resizes = 0 => OwnInv(R))
    BY <1>12, <1>15, <1>16, <2>3, <2>11 DEF Keeps
  <2> QED BY <1>1, <1>17, <2>5, <2>12, <2>13, <2>14 DEF QueueInv
<1>20. CASE result # "ok"
  <2> DEFINE R == Fail(S, w, result)
  <2>1. result \in {"failed", "aborted"}
    BY <1>20
  <2>2. R = Fail(F, w, result)
    BY <1>5, <1>8, <1>9, RoundForgets DEF F
  <2>3. FailedTo(S, R, w, result) /\ FailedTo(F, R, w, result)
    BY <1>1, <1>8, <1>11, <2>1, <2>2, FailKeeps
  <2>4. Becomes(R)
    BY <1>7, <1>20
  <2> HIDE DEF R
  <2>5. State' = R
    BY <2>3, <2>4, BecomesFacts DEF FailedTo, PageInv
  <2>6. UNCHANGED <<results, returned, finished>>
    BY <1>7, <1>20 DEF NoResult
  <2>7. /\ failures \in Nat /\ failures' \in Nat /\ failures' >= failures /\ failures' \in 0..MaxFailures
        /\ (result = "failed" => failures' > 0) /\ (result # "failed" => failures' = failures)
    BY <1>1, <1>7, <1>20, SimQueueAssumption DEF OtherTypes
  <2>8. OtherTypes'
    BY <1>1, <1>2, <1>14, <1>18, <2>6, <2>7 DEF OtherTypes
  <2>9. CauseInv(R, failures', aborted)
    <3>1. R.errors = F.errors \cup {result} /\ R.promise = F.promise
      BY <2>3 DEF FailedTo
    <3>2. CASE result = "failed"
      <4>1. "failed" \in R.errors /\ failures' > 0
        BY <2>7, <3>1, <3>2
      <4> QED BY <4>1 DEF CauseInv
    <3>3. CASE result = "aborted"
      <4>1. F.triggered
        BY <1>2, <1>12, <3>3 DEF AbortInv
      <4>2. failures' = failures /\ (aborted \/ "failed" \in F.errors)
        BY <1>12, <2>7, <3>3, <4>1 DEF CauseInv
      <4> QED BY <1>12, <3>1, <3>3, <4>2 DEF CauseInv
    <3> QED BY <2>1, <3>2, <3>3
  <2>10. /\ PageInv(R) /\ StopInv(R) /\ AbortInv(R, hit')
         /\ OnWorkerInv(R, running') /\ BackInv(R, results, returned, finished)
    BY <1>8, <1>12, <1>15, <2>3 DEF FailedTo
  <2>11. resizes = 0 => OwnInv(R)
    BY <1>12, <2>3 DEF FailedTo, OwnInv, Finished, At
  <2> QED BY <1>1, <1>2, <1>17, <2>5, <2>6, <2>8, <2>9, <2>10, <2>11 DEF QueueInv
<1> QED BY <1>19, <1>20

\* The user cancels.
LEMMA AbortStep == ASSUME QueueInv, Abort PROVE QueueInv'
<1> DEFINE R == Trigger(State)
<1>1. /\ PageInv(State) /\ StopInv(State) /\ pool \in 1..Workers /\ OtherTypes
      /\ CauseInv(State, failures, aborted)
      /\ OnWorkerInv(State, running) /\ BackInv(State, results, returned, finished)
      /\ (resizes = 0 => pool = Workers /\ OwnInv(State))
  BY DEF QueueInv, OtherTypes
<1>2. /\ outcome = Nil /\ aborted' = TRUE /\ Becomes(R) /\ NoResult
      /\ UNCHANGED <<pool, running, hit, outcome, resizes, failures>>
  BY DEF Abort
<1>3. State \in States /\ LoopInv(State)
  BY <1>1 DEF PageInv
<1>4. /\ PageInv(R) /\ StopInv(R) /\ \A cut : AbortInv(R, cut)
      /\ \A run : OnWorkerInv(State, run) => OnWorkerInv(R, run)
      /\ \A back, count, told : BackInv(State, back, count, told) => BackInv(R, back, count, told)
  BY <1>1, TriggerKeeps
<1>5. /\ R \in States /\ R.loop = State.loop /\ R.errors = State.errors /\ R.promise = State.promise
  BY <1>1, <1>3, TriggerFacts
<1> HIDE DEF R
<1>6. State' = R
  BY <1>2, <1>5, BecomesFacts
<1>7. OtherTypes'
  BY <1>1, <1>2 DEF OtherTypes, NoResult
<1>8. CauseInv(R, failures, TRUE) /\ OwnInv(State) => OwnInv(R)
  BY <1>5 DEF OwnInv
<1>9. CauseInv(R, failures, TRUE)
  BY <1>1, <1>5 DEF CauseInv
<1>10. EndInv(State, outcome)'
  BY <1>2 DEF EndInv
<1>11. /\ OnWorkerInv(R, running) /\ BackInv(R, results, returned, finished) /\ AbortInv(R, hit)
       /\ (resizes = 0 => OwnInv(R))
  BY <1>1, <1>4, <1>8, <1>9
<1> QED BY <1>1, <1>2, <1>4, <1>6, <1>7, <1>9, <1>10, <1>11 DEF QueueInv, NoResult

\* The pool changes its size.
LEMMA ResizeStep == ASSUME QueueInv, NEW n \in 1..Workers, Resize(n) PROVE QueueInv'
<1>1. State' = State
  BY DEF Resize, web, State
<1>2. /\ pool' = n /\ resizes' = resizes + 1 /\ resizes < MaxResizes /\ resizes \in Nat
      /\ UNCHANGED <<running, hit, aborted, outcome, failures>> /\ NoResult
  BY SimQueueAssumption DEF Resize, web, QueueInv, OtherTypes
<1>3. OtherTypes'
  <2>1. resizes' \in 0..MaxResizes
    BY <1>2, SimQueueAssumption
  <2> QED BY <1>2, <2>1 DEF QueueInv, OtherTypes, NoResult
<1>4. PageInv(State)' /\ StopInv(State)' /\ CauseInv(State, failures, aborted)' /\ AbortInv(State, hit)'
  BY <1>1, <1>2 DEF QueueInv
<1>5. OnWorkerInv(State, running)' /\ BackInv(State, results, returned, finished)'
      /\ EndInv(State, outcome)'
  BY <1>1, <1>2 DEF QueueInv, NoResult
<1>6. resizes' # 0
  BY <1>2
<1> QED BY <1>3, <1>4, <1>5, <1>6 DEF QueueInv

\* The queue returns.
LEMMA ReturnStep == ASSUME QueueInv, Return PROVE QueueInv'
<1>1. State' = State
  BY DEF Return, web, State
<1>2. /\ \A w \in Loops : loop[w].at = "done"
      /\ outcome' = IF errors = {} THEN "ok" ELSE IF "failed" \in errors THEN "failed" ELSE "aborted"
      /\ UNCHANGED <<pool, running, hit, aborted, resizes, failures>> /\ NoResult
  BY DEF Return, web, Settled
<1>3. OtherTypes'
  <2>1. outcome' \in {"ok", "failed", "aborted", Nil}
    BY <1>2
  <2> QED BY <1>2, <2>1 DEF QueueInv, OtherTypes, NoResult
<1>4. PageInv(State)' /\ StopInv(State)' /\ CauseInv(State, failures, aborted)' /\ AbortInv(State, hit)'
  BY <1>1, <1>2 DEF QueueInv
<1>5. OnWorkerInv(State, running)' /\ BackInv(State, results, returned, finished)'
  BY <1>1, <1>2 DEF QueueInv, NoResult
<1>6. (resizes = 0 => pool = Workers /\ OwnInv(State))'
  BY <1>1, <1>2 DEF QueueInv
<1>7. EndInv(State, outcome')
  BY <1>2 DEF EndInv, State
<1> QED BY <1>1, <1>3, <1>4, <1>5, <1>6, <1>7 DEF QueueInv

\* A web worker takes a message.
LEMMA TakeStep == ASSUME QueueInv, NEW k \in Loops, TakeMessage(k) PROVE QueueInv'
<1> DEFINE m == Head(box[k])
           n == Len(box[k])
<1>1. /\ State \in States /\ TurnInv(State) /\ LoopInv(State) /\ PromiseInv(State)
      /\ StopInv(State) /\ OtherTypes
      /\ CauseInv(State, failures, aborted) /\ AbortInv(State, hit)
      /\ OnWorkerInv(State, running) /\ BackInv(State, results, returned, finished)
      /\ (resizes = 0 => pool = Workers /\ OwnInv(State)) /\ EndInv(State, outcome)
  BY DEF QueueInv, PageInv
<1>2. /\ box[k] # <<>> /\ box' = [box EXCEPT ![k] = Tail(@)]
      /\ running' = (IF m.call = "sim" THEN [running EXCEPT ![k] = @ \cup {m.of}] ELSE running)
      /\ hit' = (IF m.call = "abort" THEN hit \cup ({m.of} \cap running[k]) ELSE hit)
      /\ UNCHANGED <<pool, refused, triggered, aborted, errors, memo, nextSim, nextSplit, loop,
                     outcome, resizes>>
      /\ NoResult
  BY DEF TakeMessage
<1>3. /\ m.call # "split" => UNCHANGED <<promise, failures>>
      /\ m.call = "split" =>
            \/ promise' = [promise EXCEPT ![m.of[1]] = "ok"] /\ UNCHANGED failures
            \/ /\ failures < MaxFailures /\ failures' = failures + 1
               /\ promise' = [promise EXCEPT ![m.of[1]] = "failed"]
  BY DEF TakeMessage
<1>4. box \in [Loops -> Seq(Calls)] /\ promise \in [1..Sims -> {"none", "asked", "ok", "failed"}]
  BY <1>1 DEF State, States
<1>5. /\ n \in Nat /\ n > 0 /\ m \in Calls /\ m = box[k][1]
      /\ Tail(box[k]) \in Seq(Calls) /\ Len(Tail(box[k])) = n - 1
      /\ \A i \in 1..(n - 1) : Tail(box[k])[i] = box[k][i + 1]
  BY <1>2, <1>4
<1>6. /\ box' \in [Loops -> Seq(Calls)] /\ \A l \in Loops : l # k => box'[l] = box[l]
      /\ Len(box'[k]) = n - 1 /\ \A i \in 1..(n - 1) : box'[k][i] = box[k][i + 1]
  BY <1>2, <1>4, <1>5
<1> HIDE DEF m, n
<1>7. ASSUME NEW l \in Loops, NEW i \in 1..Len(box'[l])
      PROVE  \E j \in 1..Len(box[l]) : /\ j = (IF l = k THEN i + 1 ELSE i)
                                       /\ box'[l][i] = box[l][j]
  <2>1. CASE l = k
    <3>1. i \in 1..(n - 1) /\ i + 1 \in 1..Len(box[l])
      BY <1>5, <1>6, <2>1 DEF n
    <3> QED BY <1>6, <2>1, <3>1
  <2>2. CASE l # k
    BY <1>6, <2>2
  <2> QED BY <2>1, <2>2
<1>8. 1 \in 1..Len(box[k]) /\ box[k][1] = m
  BY <1>5 DEF n
<1>9. /\ (State').box = box' /\ (State').promise = promise'
      /\ (State').refused = State.refused /\ (State').triggered = State.triggered
      /\ (State').errors = State.errors /\ (State').memo = State.memo
      /\ (State').nextSim = State.nextSim /\ (State').nextSplit = State.nextSplit
      /\ (State').loop = State.loop /\ State.box = box /\ State.promise = promise
  BY <1>2 DEF State
<1>10. PICK R : R = State'
  OBVIOUS
<1>11. /\ R.box = box' /\ R.promise = promise' /\ R.triggered = State.triggered
       /\ R.errors = State.errors /\ R.memo = State.memo
       /\ R.nextSim = State.nextSim /\ R.nextSplit = State.nextSplit /\ R.loop = State.loop
  BY <1>9, <1>10
<1>12. m.call = "split" =>
         \E s \in 1..Sims : /\ m = Call("split", <<s, 0>>) /\ m.of[1] = s
                            /\ AskedAt(State, k, 1, s) /\ promise[s] = "asked"
  <2> SUFFICES ASSUME m.call = "split"
               PROVE  \E s \in 1..Sims : /\ m = Call("split", <<s, 0>>) /\ m.of[1] = s
                                         /\ AskedAt(State, k, 1, s) /\ promise[s] = "asked"
    OBVIOUS
  <2>1. PICK s \in 1..Sims : m = Call("split", <<s, 0>>) /\ m.of[1] = s
    <3>1. m \in [call : {"split"}, of : (1..Sims) \X {0}]
      BY <1>5 DEF Calls
    <3>2. PICK s \in 1..Sims : m.of = <<s, 0>>
      BY <3>1
    <3>3. m = Call("split", <<s, 0>>) /\ m.of[1] = s
      BY <3>1, <3>2 DEF Call
    <3> QED BY <3>3
  <2>2. AskedAt(State, k, 1, s)
    BY <1>8, <1>9, <2>1 DEF AskedAt
  <2>3. promise[s] = "asked"
    BY <1>1, <1>8, <1>9, <2>2 DEF PromiseInv
  <2> QED BY <2>1, <2>2, <2>3
<1>13. m.call = "sim" =>
         /\ m.of \in Splits /\ AwaitedFrom(State, k, m.of) /\ m.of \notin running[k]
         /\ \A j \in 1..Len(box[k]) : SentAt(State, k, j, m.of) => j = 1
  <2> SUFFICES ASSUME m.call = "sim"
               PROVE  /\ m.of \in Splits /\ AwaitedFrom(State, k, m.of) /\ m.of \notin running[k]
                      /\ \A j \in 1..Len(box[k]) : SentAt(State, k, j, m.of) => j = 1
    OBVIOUS
  <2>1. m.of \in Splits /\ m = Call("sim", m.of)
    BY <1>5 DEF Calls, Call
  <2>2. SentAt(State, k, 1, m.of)
    BY <1>8, <1>9, <2>1 DEF SentAt
  <2> QED BY <1>1, <1>8, <1>9, <2>1, <2>2 DEF OnWorkerInv
<1>14. /\ promise' \in [1..Sims -> {"none", "asked", "ok", "failed"}]
       /\ \A t \in 1..Sims : promise'[t] # promise[t] =>
             /\ m = Call("split", <<t, 0>>) /\ AskedAt(State, k, 1, t)
             /\ promise[t] = "asked" /\ promise'[t] \in {"ok", "failed"}
  <2>1. CASE m.call # "split"
    BY <1>3, <1>4, <2>1
  <2>2. CASE m.call = "split"
    <3>1. PICK s \in 1..Sims : /\ m = Call("split", <<s, 0>>) /\ m.of[1] = s
                               /\ AskedAt(State, k, 1, s) /\ promise[s] = "asked"
      BY <1>12, <2>2
    <3>2. PICK x \in {"ok", "failed"} : promise' = [promise EXCEPT ![s] = x]
      BY <1>3, <2>2, <3>1
    <3> QED BY <1>4, <3>1, <3>2
  <2> QED BY <2>1, <2>2
<1>15. R \in States
  BY <1>1, <1>2, <1>6, <1>10, <1>14 DEF State, States
<1>16. TurnInv(R) /\ LoopInv(R) /\ StopInv(R) /\ (OwnInv(State) => OwnInv(R))
  BY <1>1, <1>11 DEF TurnInv, LoopInv, StopInv, OwnInv, Has, Of, Gone
<1>17. BackInv(R, results, returned, finished) /\ EndInv(R, outcome)
  BY <1>1, <1>11 DEF BackInv, EndInv, Has, Of, Gone
<1>18. PromiseInv(R)
  <2>7. \A t \in 1..Sims : /\ State.promise[t] # "asked" => R.promise[t] = State.promise[t]
                           /\ State.promise[t] = "asked" => R.promise[t] # "none"
    BY <1>9, <1>11, <1>14
  <2>0. R.memo = State.memo /\ R.nextSim = State.nextSim
    BY <1>11
  <2>21. PromiseInv(State)
    BY <1>1
  <2>22. \A t \in 1..Sims : t \in State.memo => State.promise[t] # "none"
    BY <2>21 DEF PromiseInv
  <2>23. \A t \in 1..Sims : t >= State.nextSim /\ State.promise[t] # "none" => t \in State.memo
    BY <2>21 DEF PromiseInv
  <2>24. \A t \in 1..Sims : Gone(State, t, 1) => State.promise[t] = "ok"
    BY <2>21 DEF PromiseInv
  <2>1. \A t \in 1..Sims : t \in R.memo => R.promise[t] # "none"
    BY <2>0, <2>22, <2>7
  <2>2. \A t \in 1..Sims : t >= R.nextSim /\ R.promise[t] # "none" => t \in R.memo
    <3> SUFFICES ASSUME NEW t \in 1..Sims, t >= R.nextSim, R.promise[t] # "none"
                 PROVE  t \in R.memo
      OBVIOUS
    <3>1. State.promise[t] # "none"
      BY <2>7
    <3> QED BY <2>0, <2>23, <3>1
  <2>3. \A t \in 1..Sims : Gone(R, t, 1) => R.promise[t] = "ok"
    <3>1. \A t : Gone(R, t, 1) <=> Gone(State, t, 1)
      BY <1>11 DEF Gone
    <3> SUFFICES ASSUME NEW t \in 1..Sims, Gone(R, t, 1) PROVE R.promise[t] = "ok"
      OBVIOUS
    <3>2. State.promise[t] = "ok"
      BY <2>24, <3>1
    <3> QED BY <2>7, <3>2
  <2>4. ASSUME NEW t \in 1..Sims, NEW l \in Loops, NEW i \in 1..Len(R.box[l]), AskedAt(R, l, i, t)
        PROVE  /\ (IF l = k THEN i + 1 ELSE i) \in 1..Len(State.box[l])
               /\ AskedAt(State, l, IF l = k THEN i + 1 ELSE i, t)
    BY <1>7, <1>9, <1>11, <2>4 DEF AskedAt
  <2>5. ASSUME NEW t \in 1..Sims, NEW l \in Loops, NEW i \in 1..Len(R.box[l]), AskedAt(R, l, i, t)
        PROVE  R.promise[t] = "asked"
    <3> DEFINE j == IF l = k THEN i + 1 ELSE i
    <3>1. j \in 1..Len(State.box[l]) /\ AskedAt(State, l, j, t)
      BY <2>4, <2>5
    <3>2. l = k => j # 1
      BY <1>6, <1>11
    <3> HIDE DEF j
    <3>3. ~AskedAt(State, k, 1, t)
      BY <1>1, <1>8, <1>9, <3>1, <3>2 DEF PromiseInv
    <3>4. State.promise[t] = "asked"
      BY <1>1, <3>1 DEF PromiseInv
    <3> QED BY <1>9, <1>11, <1>14, <3>3, <3>4
  <2>6. ASSUME NEW t \in 1..Sims, NEW l \in Loops, NEW i \in 1..Len(R.box[l]), AskedAt(R, l, i, t),
               NEW h \in Loops, NEW j \in 1..Len(R.box[h]), AskedAt(R, h, j, t)
        PROVE  h = l /\ j = i
    <3> DEFINE x == IF l = k THEN i + 1 ELSE i
               y == IF h = k THEN j + 1 ELSE j
    <3>1. x \in 1..Len(State.box[l]) /\ AskedAt(State, l, x, t)
      BY <2>4, <2>6
    <3>2. y \in 1..Len(State.box[h]) /\ AskedAt(State, h, y, t)
      BY <2>4, <2>6
    <3>3. h = l /\ y = x
      <4> HIDE DEF x, y
      <4> QED BY <1>1, <3>1, <3>2 DEF PromiseInv
    <3>4. i \in Int /\ j \in Int
      OBVIOUS
    <3> QED BY <3>3, <3>4
  <2> QED BY <2>1, <2>2, <2>3, <2>5, <2>6 DEF PromiseInv
<1>19. CauseInv(R, failures', aborted) /\ failures' \in 0..MaxFailures
  <2>1. failures \in 0..MaxFailures /\ MaxFailures \in Nat
    BY <1>1, SimQueueAssumption DEF OtherTypes
  <2>2. /\ R.triggered \/ R.errors # {} => aborted \/ "failed" \in R.errors
        /\ "failed" \in R.errors => failures > 0
    BY <1>1, <1>11 DEF CauseInv
  <2>3. /\ \A t \in 1..Sims : promise[t] = "failed" => failures > 0 /\ promise'[t] = "failed"
        /\ failures > 0 => "failed" \in R.errors \/ \E t \in 1..Sims : promise[t] = "failed"
    BY <1>1, <1>9, <1>11, <1>14 DEF CauseInv
  <2>4. CASE failures' = failures /\ \A t \in 1..Sims : promise'[t] = "failed" => promise[t] = "failed"
    BY <1>11, <2>1, <2>2, <2>3, <2>4 DEF CauseInv
  <2>5. CASE failures' = failures + 1 /\ failures < MaxFailures
             /\ \E t \in 1..Sims : promise'[t] = "failed"
    <3>1. failures' > 0 /\ failures' \in 0..MaxFailures
      BY <2>1, <2>5
    <3> QED BY <1>11, <2>2, <2>5, <3>1 DEF CauseInv
  <2>6. CASE m.call # "split"
    BY <1>3, <2>4, <2>6
  <2>7. CASE m.call = "split"
    <3>1. PICK s \in 1..Sims : m.of[1] = s
      BY <1>12, <2>7
    <3>2. CASE promise' = [promise EXCEPT ![s] = "ok"] /\ failures' = failures
      BY <1>4, <2>4, <3>2
    <3>3. CASE failures < MaxFailures /\ failures' = failures + 1
               /\ promise' = [promise EXCEPT ![s] = "failed"]
      BY <1>4, <2>5, <3>3
    <3> QED BY <1>3, <2>7, <3>1, <3>2, <3>3
  <2> QED BY <2>6, <2>7
<1>20. AbortInv(R, hit')
  <2>1. m.call = "abort" => State.triggered
    BY <1>1, <1>8, <1>9 DEF AbortInv
  <2>2. hit' # {} => R.triggered
    BY <1>1, <1>2, <1>11, <2>1 DEF AbortInv
  <2>3. ASSUME NEW l \in Loops, NEW i \in 1..Len(R.box[l]), R.box[l][i].call = "abort"
        PROVE  R.triggered
    <3>1. \E j \in 1..Len(State.box[l]) : State.box[l][j].call = "abort"
      BY <1>7, <1>9, <1>11, <2>3
    <3> QED BY <1>1, <1>11, <3>1 DEF AbortInv
  <2> QED BY <2>2, <2>3 DEF AbortInv
<1>21. /\ running' \in [Loops -> SUBSET Splits]
       /\ \A l \in Loops : \A of : of \in running'[l] <=>
             of \in running[l] \/ (l = k /\ m.call = "sim" /\ of = m.of)
  <2>1. running \in [Loops -> SUBSET Splits]
    BY <1>1 DEF OtherTypes
  <2>2. CASE m.call = "sim"
    <3>1. m.of \in Splits
      BY <1>13, <2>2
    <3> QED BY <1>2, <2>1, <2>2, <3>1
  <2>3. CASE m.call # "sim"
    BY <1>2, <2>1, <2>3
  <2> QED BY <2>2, <2>3
<1>22. OnWorkerInv(R, running')
  <2>1. \A l \in Loops : \A of : AwaitedFrom(R, l, of) <=> AwaitedFrom(State, l, of)
    BY <1>11 DEF AwaitedFrom, Of
  <2>2. ASSUME NEW l \in Loops, NEW of \in running'[l] PROVE AwaitedFrom(R, l, of)
    BY <1>1, <1>13, <1>21, <2>1 DEF OnWorkerInv
  <2>3. ASSUME NEW l \in Loops, NEW of \in Splits, NEW i \in 1..Len(R.box[l]), SentAt(R, l, i, of)
        PROVE  /\ (IF l = k THEN i + 1 ELSE i) \in 1..Len(State.box[l])
               /\ SentAt(State, l, IF l = k THEN i + 1 ELSE i, of)
    BY <1>7, <1>9, <1>11, <2>3 DEF SentAt
  <2>4. ASSUME NEW l \in Loops, NEW of \in Splits, NEW i \in 1..Len(R.box[l]), SentAt(R, l, i, of)
        PROVE  /\ AwaitedFrom(R, l, of) /\ of \notin running'[l]
               /\ \A h \in 1..Len(R.box[l]) : SentAt(R, l, h, of) => h = i
    <3> DEFINE j == IF l = k THEN i + 1 ELSE i
    <3>1. j \in 1..Len(State.box[l]) /\ SentAt(State, l, j, of) /\ i \in Int
      BY <2>3, <2>4
    <3>2. l = k => j # 1
      BY <1>6, <1>11
    <3>3. \A h \in 1..Len(R.box[l]) : SentAt(R, l, h, of) =>
             /\ (IF l = k THEN h + 1 ELSE h) \in 1..Len(State.box[l])
             /\ SentAt(State, l, IF l = k THEN h + 1 ELSE h, of)
      BY <2>3
    <3>4. \A h \in 1..Len(State.box[l]) : SentAt(State, l, h, of) => h = j
      <4> HIDE DEF j
      <4> QED BY <1>1, <3>1 DEF OnWorkerInv
    <3>5. \A h \in 1..Len(R.box[l]) : SentAt(R, l, h, of) => h = i
      BY <3>1, <3>3, <3>4
    <3> HIDE DEF j
    <3>6. AwaitedFrom(State, l, of) /\ of \notin running[l]
      BY <1>1, <3>1 DEF OnWorkerInv
    <3>7. ~(l = k /\ m.call = "sim" /\ of = m.of)
      BY <1>9, <1>13, <3>1, <3>2
    <3> QED BY <1>21, <2>1, <3>5, <3>6, <3>7
  <2> QED BY <2>2, <2>4 DEF OnWorkerInv
<1>23. OtherTypes'
  <2>1. hit' \subseteq Splits
    BY <1>1, <1>2 DEF OtherTypes
  <2> QED BY <1>1, <1>2, <1>19, <1>21, <2>1 DEF OtherTypes, NoResult
<1> QED BY <1>1, <1>2, <1>10, <1>15, <1>16, <1>17, <1>18, <1>19, <1>20, <1>22, <1>23
        DEF QueueInv, PageInv, NoResult

-----------------------------------------------------------------------------
(* The theorems *)

\* Every step keeps the invariant.
LEMMA QueueStep == QueueInv /\ [Next]_vars => QueueInv'
<1> SUFFICES ASSUME QueueInv, [Next]_vars PROVE QueueInv'
  OBVIOUS
<1>1. CASE UNCHANGED vars
  <2>1. State' = State
    BY <1>1 DEF vars, State
  <2>2. UNCHANGED <<pool, running, hit, aborted, results, returned, finished, outcome, resizes, failures>>
    BY <1>1 DEF vars
  <2> QED BY <2>1, <2>2 DEF QueueInv, OtherTypes
<1>2. CASE Start
  BY <1>2, StartStep
<1>3. CASE \E w \in Loops : Claim(w) \/ Send(w)
  BY <1>3, ClaimStep, SendStep
<1>4. CASE \E w \in Loops, result \in {"ok", "failed", "aborted"} : SimEnds(w, result)
  BY <1>4, SimEndsStep
<1>5. CASE Abort
  BY <1>5, AbortStep
<1>6. CASE \E n \in 1..Workers : Resize(n)
  BY <1>6, ResizeStep
<1>7. CASE Return
  BY <1>7, ReturnStep
<1>8. CASE \E k \in Loops : TakeMessage(k)
  BY <1>8, TakeStep
<1>9. CASE Over
  BY <1>1, <1>9 DEF Over
<1> QED BY <1>1, <1>2, <1>3, <1>4, <1>5, <1>6, <1>7, <1>8, <1>9 DEF Next

\* What is on a worker, or on its way there, is awaited from it.
LEMMA HeldIsAwaited ==
  ASSUME QueueInv, NEW k \in Loops, NEW of \in Holds(k)
  PROVE  AwaitedFrom(State, k, of)
<1>1. OnWorkerInv(State, running) /\ box[k] \in Seq(Calls) /\ State.box = box
  BY DEF QueueInv, PageInv, State, States
<1>2. CASE of \in running[k]
  BY <1>1, <1>2 DEF OnWorkerInv
<1>3. CASE of \in {box[k][i].of : i \in {j \in DOMAIN box[k] : box[k][j].call = "sim"}}
  <2>1. PICK i \in 1..Len(box[k]) : box[k][i].call = "sim" /\ of = box[k][i].of
    BY <1>1, <1>3
  <2>2. box[k][i] \in Calls
    BY <1>1
  <2>3. of \in Splits /\ box[k][i] = Call("sim", of)
    BY <2>1, <2>2 DEF Calls, Call
  <2> QED BY <1>1, <2>3 DEF OnWorkerInv, SentAt
<1> QED BY <1>2, <1>3 DEF Holds

\* Once every sim is claimed and nothing stopped the queue, what no loop holds is back.
LEMMA AllBack ==
  ASSUME QueueInv, outcome # Nil, errors = {}
  PROVE  \A s \in 1..Sims : finished[s] = 1 /\ promise[s] = "ok"
<1>1. /\ State \in States /\ TurnInv(State) /\ LoopInv(State) /\ PromiseInv(State)
      /\ BackInv(State, results, returned, finished) /\ EndInv(State, outcome)
      /\ State.errors = {} /\ State.promise = promise
  BY DEF QueueInv, PageInv, State
<1>2. \A w \in Loops : State.loop[w].at = "done"
  BY <1>1 DEF EndInv
<1>3. State.nextSim > Sims
  <2>1. 1 \in Loops
    BY SimQueueAssumption DEF Loops
  <2> QED BY <1>1, <1>2, <2>1 DEF LoopInv
<1>4. \A s \in 1..Sims : \A i : Gone(State, s, i)
  BY <1>1, <1>3, SimQueueAssumption DEF Gone, States
<1>5. \A w \in Loops : ~Has(State, w)
  BY <1>2 DEF Has
<1>6. \A s \in 1..Sims : results[s] = 1..SplitsOf(s)
  <2>1. \A s \in 1..Sims : results[s] \subseteq 1..SplitsOf(s)
    BY <1>1 DEF BackInv
  <2>2. \A s \in 1..Sims : \A i \in 1..SplitsOf(s) : i \in results[s]
    BY <1>1, <1>4, <1>5 DEF BackInv
  <2> QED BY <2>1, <2>2
<1>7. \A s \in 1..Sims : finished[s] = 1
  BY <1>1, <1>6 DEF BackInv
<1>8. \A s \in 1..Sims : promise[s] = "ok"
  BY <1>1, <1>4 DEF PromiseInv
<1> QED BY <1>7, <1>8

\* The invariant says that what the queue returns is true.
LEMMA OutcomeFollows == QueueInv => OutcomeIsTrue
<1> SUFFICES ASSUME QueueInv PROVE OutcomeIsTrue
  OBVIOUS
<1>1. /\ State \in States /\ LoopInv(State) /\ StopInv(State) /\ OtherTypes
      /\ CauseInv(State, failures, aborted)
      /\ BackInv(State, results, returned, finished) /\ EndInv(State, outcome)
      /\ State.errors = errors /\ State.triggered = triggered /\ State.promise = promise
      /\ State.loop = loop /\ State.box = box
  BY DEF QueueInv, PageInv, State
<1>2. TypeOK
  <2>1. /\ box \in [Loops -> Seq(Calls)] /\ refused \subseteq Splits /\ triggered \in BOOLEAN
        /\ errors \subseteq {"failed", "aborted"} /\ memo \subseteq 1..Sims
        /\ promise \in [1..Sims -> {"none", "asked", "ok", "failed"}]
        /\ nextSim \in 1..(Sims + 1) /\ nextSplit \in 1..Workers /\ loop \in [Loops -> Places]
    BY <1>1 DEF State, States
  <2>2. \A k \in Loops : \A i \in DOMAIN box[k] : box[k][i] \in Calls
    BY <2>1
  <2>3. \A w \in Loops : loop[w].at \in {"begin", "split", "claimed", "sim", "done"}
    BY <2>1 DEF Places
  <2> QED BY <1>1, <2>1, <2>2, <2>3 DEF TypeOK, OtherTypes, Calls
<1>3. \A s \in 1..Sims : finished[s] = IF results[s] = 1..SplitsOf(s) THEN 1 ELSE 0
  BY <1>1 DEF BackInv
<1>4. outcome = "ok" => \A s \in 1..Sims : finished[s] = 1
  <2>1. outcome = "ok" => outcome # Nil /\ errors = {}
    BY <1>1, SimQueueAssumption DEF EndInv
  <2> QED BY <2>1, AllBack
<1>5. outcome = "failed" => failures > 0
  <2>1. outcome = "failed" => "failed" \in errors
    BY <1>1, SimQueueAssumption DEF EndInv
  <2> QED BY <1>1, <2>1 DEF CauseInv
<1>6. outcome = "aborted" => aborted
  <2>1. outcome = "aborted" => errors # {} /\ "failed" \notin errors
    BY <1>1, SimQueueAssumption DEF EndInv
  <2> QED BY <1>1, <2>1 DEF CauseInv
<1>7. outcome # Nil /\ failures > 0 /\ ~aborted => outcome = "failed"
  <2> SUFFICES ASSUME outcome # Nil, failures > 0, ~aborted PROVE outcome = "failed"
    OBVIOUS
  <2>1. errors # {}
    <3> SUFFICES ASSUME errors = {} PROVE FALSE
      OBVIOUS
    <3>1. PICK s \in 1..Sims : promise[s] = "failed"
      BY <1>1 DEF CauseInv
    <3> QED BY <3>1, AllBack
  <2>2. "failed" \in errors
    BY <1>1, <2>1 DEF CauseInv
  <2> QED BY <1>1, <2>1, <2>2 DEF EndInv
<1>8. outcome # Nil => \A k \in Loops : Holds(k) = {}
  <2> SUFFICES ASSUME outcome # Nil, NEW k \in Loops, NEW of \in Holds(k) PROVE FALSE
    OBVIOUS
  <2>1. PICK w \in Loops : State.loop[w].at = "sim"
    BY HeldIsAwaited DEF AwaitedFrom
  <2> QED BY <1>1, <2>1 DEF EndInv
<1> QED BY <1>2, <1>3, <1>4, <1>5, <1>6, <1>7, <1>8 DEF OutcomeIsTrue

\* The invariant says that while the pool keeps its size a worker has at most one split.
LEMMA OneFollows == QueueInv => OneSplitEach
<1> SUFFICES ASSUME QueueInv, resizes = 0, NEW k \in Loops PROVE Cardinality(Holds(k)) <= 1
  BY DEF OneSplitEach
<1>1. \A of \in Holds(k) : of = Of(State, k)
  <2> SUFFICES ASSUME NEW of \in Holds(k) PROVE of = Of(State, k)
    OBVIOUS
  <2>1. PICK w \in Loops : /\ State.loop[w].at = "sim" /\ State.loop[w].worker = k
                           /\ Of(State, w) = of
    BY HeldIsAwaited DEF AwaitedFrom
  <2>2. w = k
    BY <2>1 DEF QueueInv, OwnInv
  <2> QED BY <2>1, <2>2
<1>2. Holds(k) \in SUBSET {Of(State, k)}
  BY <1>1
<1>3. IsFiniteSet({Of(State, k)}) /\ Cardinality({Of(State, k)}) = 1
  BY FS_Singleton
<1> QED BY <1>2, <1>3, FS_Subset

\* The invariant holds in every state.
LEMMA QueueAlways == Spec => []QueueInv
<1>1. QueueInv /\ [Next]_vars => QueueInv'
  BY QueueStep
<1> QED BY QueueInit, <1>1, PTL DEF Spec

\* What runConcurrentSimQueue returns is true, whatever the order in which the loops go on,
\* sims and splits fail, the user aborts and the pool changes: every sim is handed over once
\* and whole if no error is told, an error told has happened, and nothing is left on a worker.
THEOREM OutcomeCorrect == Spec => []OutcomeIsTrue
<1>1. Spec => []QueueInv
  BY QueueAlways
<1> QED BY <1>1, OutcomeFollows, PTL

\* While the pool keeps its size each of its workers has at most one split, on its way or
\* running, so that it hears an abort.
THEOREM OneSplitCorrect == Spec => []OneSplitEach
<1>1. Spec => []QueueInv
  BY QueueAlways
<1> QED BY <1>1, OneFollows, PTL


-----------------------------------------------------------------------------
(* The rotation: the invariant, of the parts of a state *)

CastType == [spell : Spells, ends : Nat]
QueuedType == [spell : Spells, at : Nat, after : BOOLEAN]
FrameType == [do : Frames, spell : Spells \cup {None}]
Kinds == {"look", "land", "queued"}
TimerType == [what : Kinds, at : Nat]

\* The queue holds each of the unit's actions once at most.
Timed(q) == q \in Seq(TimerType) /\ \A i, j \in 1..Len(q) : q[i].what = q[j].what => i = j
Stands(q, w, t) == \E i \in 1..Len(q) : q[i] = [what |-> w, at |-> t]
Pending(q, w) == \E i \in 1..Len(q) : q[i].what = w

Called(st, kinds) == \E i \in 1..Len(st) : st[i].do \in kinds

\* A hardcast completes under its picks or on top, once; a press is carried out at once.
Stacked(st) ==
    /\ st \in Seq(FrameType)
    /\ \A i \in 1..Len(st) : st[i].do = "picking" => i > 1 /\ st[i - 1].do = "complete"
    /\ \A i \in 1..Len(st) : st[i].do = "complete" => i = Len(st) \/ st[i + 1].do = "picking"
    /\ \A i, j \in 1..Len(st) : st[i].do = "complete" /\ st[j].do = "complete" => i = j
    /\ \A i \in 1..Len(st) : st[i].do = "press" => i = Len(st) /\ st[i].spell \in Spells

\* The rotation's action is on the queue, or a look is under way that will put it there.
LookComes(q, l, n, st) == Stands(q, "look", l) \/ (l <= n /\ Called(st, {"next", "looking"}))
\* The next look is not too late.
InTime(l, n, g, h, w) ==
    l <= n + Reaction \/ l <= g \/ (h # None /\ l <= h.ends) \/ (w \in Nat /\ l <= w)

Values(n, g, l, c, h, q, p, w, o) ==
    /\ n \in Nat /\ g \in Nat /\ l \in Nat /\ o \in Nat /\ c \in [Spells -> Nat]
    /\ h \in CastType \cup {None} /\ q \in QueuedType \cup {None}
    /\ p \in BOOLEAN /\ w \in Nat \cup {None, Parked}

Apt(n, g, l, h, q, w, t, st) ==
    /\ Stacked(st) /\ Timed(t)
    /\ Called(st, {"complete"}) => h # None /\ h.ends <= n
    /\ Pending(t, "queued") => q # None
    /\ Called(st, {"press"}) => q = None
    /\ LookComes(t, l, n, st)
    /\ InTime(l, n, g, h, w)

RotationInv ==
    /\ Values(now, gcdAt, lookAt, cdAt, hc, queued, pressed, wait, ops)
    /\ Apt(now, gcdAt, lookAt, hc, queued, wait, timers, stack)

-----------------------------------------------------------------------------
(* Slices that are edited, element by element *)

\* slices.Insert: what lies before k stays, the new element is at k, the rest moves up.
LEMMA InsertAtFacts ==
  ASSUME NEW S, NEW s \in Seq(S), NEW e \in S, NEW k \in 1..(Len(s) + 1)
  PROVE  /\ InsertAt(s, k, e) \in Seq(S)
         /\ Len(InsertAt(s, k, e)) = Len(s) + 1
         /\ \A i \in 1..(Len(s) + 1) :
               InsertAt(s, k, e)[i] = IF i < k THEN s[i] ELSE IF i = k THEN e ELSE s[i - 1]
<1> DEFINE a == SubSeq(s, 1, k - 1)
           c == SubSeq(s, k, Len(s))
           ae == a \o <<e>>
<1>1. a \in Seq(S) /\ Len(a) = k - 1 /\ \A i \in 1..(k - 1) : a[i] = s[i]
  OBVIOUS
<1>2. c \in Seq(S) /\ Len(c) = Len(s) - k + 1 /\ \A i \in 1..Len(c) : c[i] = s[k + i - 1]
  OBVIOUS
<1>3. ae \in Seq(S) /\ Len(ae) = k /\ (\A i \in 1..(k - 1) : ae[i] = a[i]) /\ ae[k] = e
  <2> HIDE DEF a
  <2> QED BY <1>1
<1>4. InsertAt(s, k, e) = ae \o c
  BY DEF InsertAt
<1> HIDE DEF a, c, ae
<1>5. /\ ae \o c \in Seq(S) /\ Len(ae \o c) = Len(s) + 1
      /\ \A i \in 1..(Len(s) + 1) : (ae \o c)[i] = IF i <= k THEN ae[i] ELSE c[i - k]
  <2>1. Len(ae) = k /\ Len(c) = Len(s) - k + 1 /\ k \in Nat /\ Len(s) \in Nat
    BY <1>2, <1>3
  <2>2. ae \o c \in Seq(S) /\ Len(ae \o c) = Len(s) + 1
    BY <1>2, <1>3, <2>1
  <2>3. ASSUME NEW i \in 1..(Len(s) + 1) PROVE (ae \o c)[i] = IF i <= k THEN ae[i] ELSE c[i - k]
    BY <1>2, <1>3, <2>1
  <2> QED BY <2>2, <2>3
<1>6. ASSUME NEW i \in 1..(Len(s) + 1)
      PROVE  (ae \o c)[i] = IF i < k THEN s[i] ELSE IF i = k THEN e ELSE s[i - 1]
  <2>1. (ae \o c)[i] = IF i <= k THEN ae[i] ELSE c[i - k]
    BY <1>5
  <2>2. CASE i < k
    <3>1. i \in 1..(k - 1) /\ i <= k
      BY <2>2
    <3> QED BY <1>1, <1>3, <2>1, <2>2, <3>1
  <2>3. CASE i = k
    BY <1>3, <2>1, <2>3
  <2>4. CASE k < i
    <3>1. i - k \in 1..Len(c) /\ k + (i - k) - 1 = i - 1 /\ ~(i <= k) /\ ~(i < k) /\ i # k
      BY <1>2, <2>4
    <3>2. c[i - k] = s[k + (i - k) - 1]
      BY <1>2, <3>1
    <3> QED BY <2>1, <3>1, <3>2
  <2>5. i < k \/ i = k \/ k < i
    OBVIOUS
  <2> QED BY <2>2, <2>3, <2>4, <2>5
<1> QED BY <1>4, <1>5, <1>6

\* Removal by sliding: what lies behind k moves down by one.
LEMMA RemoveAtFacts ==
  ASSUME NEW S, NEW s \in Seq(S), NEW k \in 1..Len(s)
  PROVE  /\ RemoveAt(s, k) \in Seq(S)
         /\ Len(RemoveAt(s, k)) = Len(s) - 1
         /\ \A i \in 1..(Len(s) - 1) : RemoveAt(s, k)[i] = IF i < k THEN s[i] ELSE s[i + 1]
<1> DEFINE a == SubSeq(s, 1, k - 1)
           c == SubSeq(s, k + 1, Len(s))
<1>1. a \in Seq(S) /\ Len(a) = k - 1 /\ \A i \in 1..(k - 1) : a[i] = s[i]
  OBVIOUS
<1>2. c \in Seq(S) /\ Len(c) = Len(s) - k /\ \A i \in 1..Len(c) : c[i] = s[k + i]
  OBVIOUS
<1>3. RemoveAt(s, k) = a \o c
  BY DEF RemoveAt
<1> HIDE DEF a, c
<1>4. a \o c \in Seq(S) /\ Len(a \o c) = Len(s) - 1
  <2>1. a \in Seq(S) /\ c \in Seq(S)
    BY <1>1, <1>2
  <2>2. a \o c \in Seq(S) /\ Len(a \o c) = Len(a) + Len(c)
    BY <2>1
  <2>3. k \in Int /\ Len(s) \in Int
    OBVIOUS
  <2> QED BY <1>1, <1>2, <2>2, <2>3
<1>5. ASSUME NEW i \in 1..(Len(s) - 1)
      PROVE  (a \o c)[i] = IF i < k THEN s[i] ELSE s[i + 1]
  <2>1. (a \o c)[i] = IF i <= Len(a) THEN a[i] ELSE c[i - Len(a)]
    BY <1>1, <1>2
  <2>2. CASE i < k
    <3>1. i \in 1..(k - 1) /\ i <= k - 1
      BY <2>2
    <3> QED BY <1>1, <2>1, <2>2, <3>1
  <2>3. CASE ~(i < k)
    <3>1. i - (k - 1) \in 1..Len(c) /\ k + (i - (k - 1)) = i + 1 /\ ~(i <= k - 1)
      BY <1>2, <2>3
    <3>2. c[i - (k - 1)] = s[k + (i - (k - 1))]
      BY <1>2, <3>1
    <3> QED BY <1>1, <2>1, <2>3, <3>1, <3>2
  <2> QED BY <2>2, <2>3
<1> QED BY <1>3, <1>4, <1>5

-----------------------------------------------------------------------------
(* The unit's actions on the queue *)


\* The kinds of actions, and the stops of the rotation.
LEMMA SpellFacts ==
  /\ None \notin Spells /\ None \notin Nat /\ Parked \notin Nat /\ Parked # None
  /\ None \notin CastType /\ None \notin QueuedType /\ Major \subseteq Spells
  /\ Reaction \in Nat /\ Window \in Nat /\ Pushback \in Nat /\ Waits \subseteq Nat
  /\ \A s \in Spells : GcdOf(s) \in Nat /\ CastTimeOf(s) \in Nat /\ CooldownOf(s) \in Nat
BY SpellQueueAssumption DEF CastType, QueuedType

\* An action taken off the queue leaves the others.
LEMMA WithoutFacts ==
  ASSUME NEW q, Timed(q), NEW w
  PROVE  /\ Timed(Without(q, w)) /\ ~Pending(Without(q, w), w) /\ Len(Without(q, w)) <= Len(q)
         /\ \A v : v # w => \A t : Stands(q, v, t) => Stands(Without(q, w), v, t)
         /\ \A v : Pending(Without(q, w), v) => Pending(q, v)
<1> DEFINE at == {i \in DOMAIN q : q[i].what = w}
           k == CHOOSE i \in at : TRUE
           r == Without(q, w)
           n == Len(q)
<1>1. q \in Seq(TimerType) /\ DOMAIN q = 1..n /\ n \in Nat
  BY DEF Timed
<1>2. r = IF at = {} THEN q ELSE RemoveAt(q, k)
  BY DEF Without
<1>3. CASE at = {}
  <2>1. r = q /\ ~Pending(q, w)
    BY <1>1, <1>2, <1>3 DEF Pending
  <2> HIDE DEF r
  <2> QED BY <1>1, <2>1 DEF r
<1>4. CASE at # {}
  <2>1. k \in 1..n /\ q[k].what = w
    BY <1>1, <1>4
  <2> HIDE DEF k, r
  <2>2. /\ r \in Seq(TimerType) /\ Len(r) = n - 1
        /\ \A i \in 1..(n - 1) : r[i] = IF i < k THEN q[i] ELSE q[i + 1]
    <3> DEFINE S == TimerType
    <3>1. q \in Seq(S) /\ k \in 1..Len(q) /\ r = RemoveAt(q, k)
      BY <1>1, <1>2, <1>4, <2>1
    <3> HIDE DEF S
    <3>2. /\ r \in Seq(S) /\ Len(r) = Len(q) - 1
          /\ \A i \in 1..(Len(q) - 1) : r[i] = IF i < k THEN q[i] ELSE q[i + 1]
      <4> DEFINE x == RemoveAt(q, k)
      <4>1. /\ x \in Seq(S) /\ Len(x) = Len(q) - 1
            /\ \A i \in 1..(Len(q) - 1) : x[i] = IF i < k THEN q[i] ELSE q[i + 1]
        BY <3>1, RemoveAtFacts
      <4>2. r = x
        BY <3>1
      <4> HIDE DEF x
      <4> QED BY <4>1, <4>2
    <3> QED BY <3>2 DEF S
  <2>3. ASSUME NEW i \in 1..Len(r)
        PROVE  \E j \in 1..n : r[i] = q[j] /\ j = (IF i < k THEN i ELSE i + 1) /\ j # k
    <3>1. i < k \/ ~(i < k)
      OBVIOUS
    <3> QED BY <1>1, <2>1, <2>2, <3>1
  <2>4. ASSUME NEW j \in 1..n, j # k PROVE \E i \in 1..Len(r) : r[i] = q[j]
    <3>1. CASE j < k
      BY <1>1, <2>1, <2>2, <3>1
    <3>2. CASE k < j
      <4>1. j - 1 \in 1..(n - 1) /\ ~(j - 1 < k) /\ (j - 1) + 1 = j
        BY <1>1, <2>1, <3>2
      <4> QED BY <2>2, <4>1
    <3> QED BY <2>1, <2>4, <3>1, <3>2
  <2>5. \A i, j \in 1..n : q[i].what = q[j].what => i = j
    BY DEF Timed
  <2>6. Timed(r)
    <3>1. ASSUME NEW i \in 1..Len(r), NEW j \in 1..Len(r), r[i].what = r[j].what PROVE i = j
      <4>1. PICK a \in 1..n : r[i] = q[a] /\ a = (IF i < k THEN i ELSE i + 1) /\ a # k
        BY <2>3
      <4>2. PICK b \in 1..n : r[j] = q[b] /\ b = (IF j < k THEN j ELSE j + 1) /\ b # k
        BY <2>3
      <4>3. a = b
        BY <2>5, <3>1, <4>1, <4>2
      <4>4. i \in Int /\ j \in Int /\ k \in Int
        BY <2>1
      <4> QED BY <4>1, <4>2, <4>3, <4>4
    <3> QED BY <2>2, <3>1 DEF Timed
  <2>7. ~Pending(r, w)
    BY <2>1, <2>3, <2>5 DEF Pending
  <2>8. ASSUME NEW v, v # w, NEW t, Stands(q, v, t) PROVE Stands(r, v, t)
    <3>1. PICK j \in 1..n : q[j] = [what |-> v, at |-> t]
      BY <2>8 DEF Stands
    <3>2. j # k
      BY <2>1, <2>8, <3>1
    <3> QED BY <2>4, <3>1, <3>2 DEF Stands
  <2>9. \A v : Pending(r, v) => Pending(q, v)
    BY <2>3 DEF Pending
  <2> QED BY <1>1, <2>2, <2>6, <2>7, <2>8, <2>9 DEF r
<1> QED BY <1>3, <1>4

\* An action put on the queue is there, and the others stay.
LEMMA ArmFacts ==
  ASSUME NEW q, Timed(q), NEW w \in Kinds, NEW t \in Nat
  PROVE  /\ Timed(Arm(q, w, t)) /\ Stands(Arm(q, w, t), w, t)
         /\ \A v : v # w => \A u : Stands(q, v, u) => Stands(Arm(q, w, t), v, u)
         /\ \A v : Pending(Arm(q, w, t), v) => v = w \/ Pending(q, v)
<1> DEFINE p == Without(q, w)
           ahead == {i \in DOMAIN p : p[i].at <= t}
           k == Cardinality(ahead) + 1
           e == [what |-> w, at |-> t]
           r == Arm(q, w, t)
           n == Len(p)
<1>1. r = InsertAt(p, k, e)
  BY DEF Arm
<1>2. /\ Timed(p) /\ ~Pending(p, w)
      /\ \A v : v # w => \A u : Stands(q, v, u) => Stands(p, v, u)
      /\ \A v : Pending(p, v) => Pending(q, v)
  BY WithoutFacts
<1> HIDE DEF p
<1>3. p \in Seq(TimerType) /\ DOMAIN p = 1..n /\ n \in Nat
  BY <1>2 DEF Timed
<1>4. k \in 1..(n + 1)
  <2>1. IsFiniteSet(1..n) /\ Cardinality(1..n) = n
    <3> HIDE DEF n
    <3>1. n \in Int /\ 1 \in Int
      BY <1>3
    <3>2. IsFiniteSet(1..n) /\ Cardinality(1..n) = IF 1 > n THEN 0 ELSE n - 1 + 1
      BY <3>1, FS_Interval
    <3> QED BY <1>3, <3>2
  <2>2. ahead \in SUBSET (1..n)
    BY <1>3
  <2> HIDE DEF ahead
  <2>3. Cardinality(ahead) \in Nat /\ Cardinality(ahead) <= n
    BY <2>1, <2>2, FS_Subset, FS_CardinalityType
  <2> QED BY <1>3, <2>3
<1>5. e \in TimerType
  BY DEF TimerType
<1> HIDE DEF e, k, r
<1>6. /\ r \in Seq(TimerType) /\ Len(r) = n + 1
      /\ \A i \in 1..(n + 1) : r[i] = IF i < k THEN p[i] ELSE IF i = k THEN e ELSE p[i - 1]
  <2> DEFINE S == TimerType
  <2>1. p \in Seq(S) /\ k \in 1..(Len(p) + 1) /\ e \in S
    BY <1>3, <1>4, <1>5
  <2> HIDE DEF S
  <2>2. /\ r \in Seq(S) /\ Len(r) = Len(p) + 1
        /\ \A i \in 1..(Len(p) + 1) : r[i] = IF i < k THEN p[i] ELSE IF i = k THEN e ELSE p[i - 1]
    <3> DEFINE x == InsertAt(p, k, e)
    <3>1. /\ x \in Seq(S) /\ Len(x) = Len(p) + 1
          /\ \A i \in 1..(Len(p) + 1) : x[i] = IF i < k THEN p[i] ELSE IF i = k THEN e ELSE p[i - 1]
      BY <2>1, InsertAtFacts
    <3>2. r = x
      BY <1>1
    <3> HIDE DEF x
    <3> QED BY <3>1, <3>2
  <2> QED BY <2>2 DEF S
<1>7. e.what = w /\ r[k] = e /\ k \in 1..Len(r)
  BY <1>4, <1>6 DEF e
<1>8. ASSUME NEW i \in 1..Len(r), i # k
      PROVE  \E j \in 1..n : r[i] = p[j] /\ j = (IF i < k THEN i ELSE i - 1)
  <2>1. i < k \/ (~(i < k) /\ i # k /\ i - 1 \in 1..n)
    BY <1>3, <1>4, <1>6, <1>8
  <2>2. i < k => i \in 1..n
    BY <1>3, <1>4
  <2> QED BY <1>6, <2>1, <2>2
<1>9. ASSUME NEW j \in 1..n PROVE \E i \in 1..Len(r) : r[i] = p[j]
  <2>1. CASE j < k
    BY <1>3, <1>6, <2>1
  <2>2. CASE ~(j < k)
    <3>1. j + 1 \in 1..(n + 1) /\ ~(j + 1 < k) /\ j + 1 # k /\ (j + 1) - 1 = j
      BY <1>3, <1>4, <2>2
    <3> QED BY <1>6, <3>1
  <2> QED BY <2>1, <2>2
<1>10. \A j \in 1..n : p[j].what # w
  BY <1>2 DEF Pending
<1>11. Timed(r)
  <2>1. ASSUME NEW i \in 1..Len(r), NEW j \in 1..Len(r), r[i].what = r[j].what PROVE i = j
    <3>1. CASE i = k \/ j = k
      <4>1. i # k => r[i].what # w
        BY <1>8, <1>10
      <4>2. j # k => r[j].what # w
        BY <1>8, <1>10
      <4> QED BY <1>7, <2>1, <3>1, <4>1, <4>2
    <3>2. CASE i # k /\ j # k
      <4>1. PICK a \in 1..n : r[i] = p[a] /\ a = (IF i < k THEN i ELSE i - 1)
        BY <1>8, <3>2
      <4>2. PICK b \in 1..n : r[j] = p[b] /\ b = (IF j < k THEN j ELSE j - 1)
        BY <1>8, <3>2
      <4>3. a = b
        BY <1>2, <2>1, <4>1, <4>2 DEF Timed
      <4>4. i \in Int /\ j \in Int /\ k \in Int
        BY <1>4
      <4> QED BY <3>2, <4>1, <4>2, <4>3, <4>4
    <3> QED BY <3>1, <3>2
  <2> QED BY <1>6, <2>1 DEF Timed
<1>12. Stands(r, w, t)
  BY <1>7 DEF Stands, e
<1>13. ASSUME NEW v, v # w, NEW u, Stands(q, v, u) PROVE Stands(r, v, u)
  <2>1. PICK j \in 1..n : p[j] = [what |-> v, at |-> u]
    BY <1>2, <1>13 DEF Stands
  <2> QED BY <1>9, <2>1 DEF Stands
<1>14. ASSUME NEW v, Pending(r, v) PROVE v = w \/ Pending(q, v)
  <2>1. PICK i \in 1..Len(r) : r[i].what = v
    BY <1>14 DEF Pending
  <2>2. i # k => Pending(p, v)
    BY <1>8, <2>1 DEF Pending
  <2> QED BY <1>2, <1>7, <2>1, <2>2
<1> QED BY <1>11, <1>12, <1>13, <1>14 DEF r

\* The first action leaves the queue to the others.
LEMMA TailFacts ==
  ASSUME NEW q, Timed(q), q # <<>>
  PROVE  /\ Timed(Tail(q)) /\ ~Pending(Tail(q), Head(q).what) /\ Head(q) \in TimerType
         /\ \A v : v # Head(q).what => \A t : Stands(q, v, t) => Stands(Tail(q), v, t)
         /\ \A v : Pending(Tail(q), v) => Pending(q, v)
         /\ Pending(q, Head(q).what)
         /\ \A t : Stands(q, Head(q).what, t) => Head(q).at = t
<1> DEFINE n == Len(q)
           r == Tail(q)
<1>1. /\ q \in Seq(TimerType) /\ n \in Nat /\ n > 0 /\ Head(q) = q[1] /\ r \in Seq(TimerType)
      /\ Len(r) = n - 1 /\ \A i \in 1..(n - 1) : r[i] = q[i + 1]
  <2> DEFINE S == TimerType
  <2>1. q \in Seq(S)
    BY DEF Timed
  <2> HIDE DEF S
  <2>2. /\ q \in Seq(S) /\ n \in Nat /\ n > 0 /\ Head(q) = q[1] /\ r \in Seq(S)
        /\ Len(r) = n - 1 /\ \A i \in 1..(n - 1) : r[i] = q[i + 1]
    BY <2>1
  <2> QED BY <2>2 DEF S
<1>2. \A i, j \in 1..n : q[i].what = q[j].what => i = j
  BY DEF Timed
<1> HIDE DEF r, n
<1>3. \A i \in 1..Len(r) : i + 1 \in 1..n /\ r[i] = q[i + 1] /\ i + 1 # 1
  BY <1>1
<1>4. 1 \in 1..n /\ Head(q) \in TimerType
  BY <1>1
<1>5. Timed(r)
  <2>1. ASSUME NEW i \in 1..Len(r), NEW j \in 1..Len(r), r[i].what = r[j].what PROVE i = j
    <3>1. i + 1 = j + 1
      BY <1>2, <1>3, <2>1
    <3> QED BY <3>1
  <2> QED BY <1>1, <2>1 DEF Timed
<1>6. ~Pending(r, Head(q).what)
  BY <1>1, <1>2, <1>3, <1>4 DEF Pending
<1>7. ASSUME NEW v, v # Head(q).what, NEW t, Stands(q, v, t) PROVE Stands(r, v, t)
  <2>1. PICK j \in 1..n : q[j] = [what |-> v, at |-> t]
    BY <1>7 DEF Stands, n
  <2>2. j # 1
    BY <1>1, <1>7, <2>1
  <2>3. j - 1 \in 1..Len(r) /\ r[j - 1] = q[j]
    BY <1>1, <2>2
  <2> QED BY <2>1, <2>3 DEF Stands
<1>8. \A v : Pending(r, v) => Pending(q, v)
  BY <1>3 DEF Pending, n
<1>9. Pending(q, Head(q).what)
  BY <1>1, <1>4 DEF Pending, n
<1>10. ASSUME NEW t, Stands(q, Head(q).what, t) PROVE Head(q).at = t
  <2>1. PICK j \in 1..n : q[j] = [what |-> Head(q).what, at |-> t]
    BY <1>10 DEF Stands, n
  <2>2. j = 1
    BY <1>1, <1>2, <1>4, <2>1
  <2> QED BY <1>1, <2>1, <2>2
<1> QED BY <1>4, <1>5, <1>6, <1>7, <1>8, <1>9, <1>10 DEF r

-----------------------------------------------------------------------------
(* The calls under way *)

\* What lies on top, if there is a call at all.
LEMMA TopFacts ==
  ASSUME NEW st \in Seq(FrameType), st # <<>>
  PROVE  /\ Len(st) \in Nat /\ Len(st) > 0 /\ Last(st) = st[Len(st)] /\ Last(st) \in FrameType
         /\ Front(st) \in Seq(FrameType) /\ Len(Front(st)) = Len(st) - 1
         /\ \A i \in 1..(Len(st) - 1) : Front(st)[i] = st[i]
<1> DEFINE S == FrameType
           n == Len(st)
<1>1. st \in Seq(S) /\ n \in Nat /\ n > 0
  OBVIOUS
<1> HIDE DEF S
<1>2. Front(st) \in Seq(S) /\ Len(Front(st)) = n - 1 /\ \A i \in 1..(n - 1) : Front(st)[i] = st[i]
  <2>1. Front(st) = SubSeq(st, 1, n - 1)
    BY DEF Front
  <2>2. ASSUME NEW m \in 0..Len(st)
        PROVE  /\ SubSeq(st, 1, m) \in Seq(S) /\ Len(SubSeq(st, 1, m)) = m
               /\ \A i \in 1..m : SubSeq(st, 1, m)[i] = st[i]
    BY <1>1
  <2>3. n - 1 \in 0..Len(st)
    BY <1>1
  <2> QED BY <2>1, <2>2, <2>3
<1>3. Last(st) = st[n] /\ st[n] \in S
  BY <1>1 DEF Last
<1> QED BY <1>1, <1>2, <1>3 DEF S

\* A call that returns.
LEMMA PopFacts ==
  ASSUME NEW st, Stacked(st), st # <<>>
  PROVE  /\ Stacked(Front(st)) /\ ~Called(Front(st), {"press"})
         /\ \A K : Called(Front(st), K) => Called(st, K)
         /\ \A K : Called(st, K) /\ Last(st).do \notin K => Called(Front(st), K)
         /\ Last(st).do # "picking" => Front(st) = <<>> \/ Last(Front(st)).do # "complete"
         /\ Last(st).do = "picking" => Front(st) # <<>> /\ Last(Front(st)).do = "complete"
         /\ Last(st).do = "complete" => ~Called(Front(st), {"complete"})
         /\ Last(st).do = "press" => Last(st).spell \in Spells
         /\ Last(st) \in FrameType
<1> DEFINE n == Len(st)
           r == Front(st)
<1>1. /\ st \in Seq(FrameType)
      /\ \A i \in 1..n : st[i].do = "picking" => i > 1 /\ st[i - 1].do = "complete"
      /\ \A i \in 1..n : st[i].do = "complete" => i = n \/ st[i + 1].do = "picking"
      /\ \A i, j \in 1..n : st[i].do = "complete" /\ st[j].do = "complete" => i = j
      /\ \A i \in 1..n : st[i].do = "press" => i = n /\ st[i].spell \in Spells
  BY DEF Stacked
<1>2. /\ n \in Nat /\ n > 0 /\ Last(st) = st[n] /\ Last(st) \in FrameType
      /\ r \in Seq(FrameType) /\ Len(r) = n - 1 /\ \A i \in 1..(n - 1) : r[i] = st[i]
  BY <1>1, TopFacts
<1>3. r # <<>> => n > 1 /\ Last(r) = st[n - 1]
  <2>1. HAVE r # <<>>
  <2>2. Len(r) > 0 /\ Last(r) = r[Len(r)]
    BY <1>2, <2>1, TopFacts
  <2> QED BY <1>2, <2>2
<1>4. r = <<>> => n = 1
  BY <1>2
<1> HIDE DEF r
<1>5. Stacked(r)
  <2>1. \A i \in 1..(n - 1) : r[i].do = "picking" => i > 1 /\ r[i - 1].do = "complete"
    <3> SUFFICES ASSUME NEW i \in 1..(n - 1), r[i].do = "picking"
                 PROVE  i > 1 /\ r[i - 1].do = "complete"
      OBVIOUS
    <3>1. i > 1 /\ st[i - 1].do = "complete"
      BY <1>1, <1>2
    <3>2. i - 1 \in 1..(n - 1)
      BY <1>2, <3>1
    <3> QED BY <1>2, <3>1, <3>2
  <2>2. \A i \in 1..(n - 1) : r[i].do = "complete" => i = n - 1 \/ r[i + 1].do = "picking"
    <3> SUFFICES ASSUME NEW i \in 1..(n - 1), r[i].do = "complete", i # n - 1
                 PROVE  r[i + 1].do = "picking"
      OBVIOUS
    <3>1. st[i + 1].do = "picking"
      BY <1>1, <1>2
    <3>2. i + 1 \in 1..(n - 1)
      BY <1>2
    <3> QED BY <1>2, <3>1, <3>2
  <2>3. \A i, j \in 1..(n - 1) : r[i].do = "complete" /\ r[j].do = "complete" => i = j
    <3>1. \A i \in 1..(n - 1) : i \in 1..n /\ r[i] = st[i]
      BY <1>2
    <3>2. \A i, j \in 1..n : st[i].do = "complete" /\ st[j].do = "complete" => i = j
      BY <1>1
    <3> HIDE DEF n
    <3> QED BY <3>1, <3>2
  <2>4. \A i \in 1..(n - 1) : r[i].do = "press" => FALSE
    <3> SUFFICES ASSUME NEW i \in 1..(n - 1), r[i].do = "press" PROVE FALSE
      OBVIOUS
    <3>1. i = n
      BY <1>1, <1>2
    <3> QED BY <1>2, <3>1
  <2> QED BY <1>2, <2>1, <2>2, <2>3, <2>4 DEF Stacked
<1>6. ~Called(r, {"press"})
  BY <1>1, <1>2 DEF Called
<1>7. \A K : Called(r, K) => Called(st, K)
  BY <1>2 DEF Called
<1>8. ASSUME NEW K, Called(st, K), Last(st).do \notin K PROVE Called(r, K)
  <2>1. PICK i \in 1..n : st[i].do \in K
    BY <1>8 DEF Called
  <2>2. i # n
    BY <1>2, <1>8, <2>1
  <2> QED BY <1>2, <2>1, <2>2 DEF Called
<1>9. Last(st).do # "picking" => r = <<>> \/ Last(r).do # "complete"
  <2> SUFFICES ASSUME r # <<>>, Last(r).do = "complete" PROVE Last(st).do = "picking"
    OBVIOUS
  <2>1. n - 1 \in 1..n /\ n - 1 # n /\ (n - 1) + 1 = n
    BY <1>2, <1>3
  <2> QED BY <1>1, <1>2, <1>3, <2>1
<1>10. Last(st).do = "picking" => r # <<>> /\ Last(r).do = "complete"
  BY <1>1, <1>2, <1>3, <1>4
<1>11. Last(st).do = "complete" => ~Called(r, {"complete"})
  <2> SUFFICES ASSUME Last(st).do = "complete", NEW i \in 1..(n - 1), st[i].do = "complete" PROVE FALSE
    BY <1>2 DEF Called
  <2>1. i \in 1..n /\ n \in 1..n /\ i # n
    BY <1>2
  <2> QED BY <1>1, <1>2, <2>1
<1>12. Last(st).do = "press" => Last(st).spell \in Spells
  BY <1>1, <1>2
<1> QED BY <1>2, <1>5, <1>6, <1>7, <1>8, <1>9, <1>10, <1>11, <1>12 DEF r

\* What lies on top of calls of which none is a press, and none completes.
LEMMA LastFacts ==
  ASSUME NEW st, Stacked(st), st # <<>>
  PROVE  \A K : ~Called(st, K) => Last(st).do \notin K
<1>1. st \in Seq(FrameType)
  BY DEF Stacked
<1>2. Len(st) \in 1..Len(st) /\ Last(st) = st[Len(st)]
  BY <1>1, TopFacts
<1> QED BY <1>2 DEF Called

\* When a call may be made.
MayCall(st, what, s) ==
    /\ what \in Frames /\ s \in Spells \cup {None}
    /\ st # <<>> => Last(st).do # "press"
    /\ what = "picking" <=> st # <<>> /\ Last(st).do = "complete"
    /\ what = "complete" => ~Called(st, {"complete"})
    /\ what = "press" => s \in Spells

\* A call that is made.
LEMMA PushFacts ==
  ASSUME NEW st, Stacked(st), NEW what, NEW s, MayCall(st, what, s)
  PROVE  LET r == Append(st, Frame(what, s))
         IN  /\ Stacked(r) /\ r # <<>> /\ Last(r) = Frame(what, s) /\ Front(r) = st
             /\ \A K : Called(r, K) <=> Called(st, K) \/ what \in K
<1> DEFINE n == Len(st)
           f == Frame(what, s)
           r == Append(st, f)
<1>1. /\ st \in Seq(FrameType)
      /\ \A i \in 1..n : st[i].do = "picking" => i > 1 /\ st[i - 1].do = "complete"
      /\ \A i \in 1..n : st[i].do = "complete" => i = n \/ st[i + 1].do = "picking"
      /\ \A i, j \in 1..n : st[i].do = "complete" /\ st[j].do = "complete" => i = j
      /\ \A i \in 1..n : st[i].do = "press" => i = n /\ st[i].spell \in Spells
  BY DEF Stacked
<1>2. f \in FrameType /\ f.do = what /\ f.spell = s
  BY DEF MayCall, Frame, FrameType
<1>3. /\ n > 0 => st[n].do # "press"
      /\ what = "picking" <=> n > 0 /\ st[n].do = "complete"
      /\ what = "complete" => ~Called(st, {"complete"})
  <2>1. st # <<>> => Last(st) = st[n] /\ n > 0
    BY <1>1, TopFacts
  <2>2. st = <<>> => n = 0
    OBVIOUS
  <2>3. st # <<>> <=> n > 0
    BY <2>1, <2>2
  <2> QED BY <2>1, <2>3 DEF MayCall
<1>4. /\ r \in Seq(FrameType) /\ Len(r) = n + 1 /\ n \in Nat /\ r[n + 1] = f /\ r # <<>>
      /\ \A i \in 1..n : r[i] = st[i]
  <2> DEFINE S == FrameType
  <2>1. st \in Seq(S) /\ f \in S
    BY <1>1, <1>2
  <2> HIDE DEF S, f
  <2> QED BY <2>1 DEF S
<1>5. what = "press" => s \in Spells
  BY DEF MayCall
<1> HIDE DEF f, r
<1>6. \A i \in 1..(n + 1) : i \in 1..n \/ i = n + 1
  BY <1>4
<1>7. \A K : Called(r, K) <=> Called(st, K) \/ what \in K
  <2> TAKE K
  <2>1. n + 1 \in 1..(n + 1) /\ \A i \in 1..n : i \in 1..(n + 1)
    BY <1>4
  <2> QED BY <1>2, <1>4, <1>6, <2>1 DEF Called
<1>8. Stacked(r)
  <2>1. \A i \in 1..(n + 1) : r[i].do = "picking" => i > 1 /\ r[i - 1].do = "complete"
    <3> SUFFICES ASSUME NEW i \in 1..(n + 1), r[i].do = "picking" PROVE i > 1 /\ r[i - 1].do = "complete"
      OBVIOUS
    <3>1. CASE i \in 1..n
      <4>1. i > 1 /\ st[i - 1].do = "complete" /\ i - 1 \in 1..n
        BY <1>1, <1>4, <3>1
      <4> QED BY <1>4, <4>1
    <3>2. CASE i = n + 1
      <4>1. n > 0 /\ st[n].do = "complete"
        BY <1>2, <1>3, <1>4, <3>2
      <4> QED BY <1>4, <3>2, <4>1
    <3> QED BY <1>6, <3>1, <3>2
  <2>2. \A i \in 1..(n + 1) : r[i].do = "complete" => i = n + 1 \/ r[i + 1].do = "picking"
    <3> SUFFICES ASSUME NEW i \in 1..n, r[i].do = "complete" PROVE r[i + 1].do = "picking"
      BY <1>6
    <3>1. st[i].do = "complete" /\ (i = n \/ st[i + 1].do = "picking")
      BY <1>1, <1>4
    <3>2. CASE i = n
      <4>1. what = "picking"
        BY <1>3, <1>4, <3>1, <3>2
      <4> QED BY <1>2, <1>4, <3>2, <4>1
    <3>3. CASE i # n
      BY <1>4, <3>1, <3>3
    <3> QED BY <3>2, <3>3
  <2>3. \A i, j \in 1..(n + 1) : r[i].do = "complete" /\ r[j].do = "complete" => i = j
    <3>1. what = "complete" => \A i \in 1..n : r[i].do # "complete"
      BY <1>3, <1>4 DEF Called
    <3>2. r[n + 1].do = what
      BY <1>2, <1>4
    <3> QED BY <1>1, <1>4, <1>6, <3>1, <3>2
  <2>4. \A i \in 1..(n + 1) : r[i].do = "press" => i = n + 1 /\ r[i].spell \in Spells
    <3>1. \A i \in 1..n : r[i].do # "press"
      <4> SUFFICES ASSUME NEW i \in 1..n, st[i].do = "press" PROVE FALSE
        BY <1>4
      <4>1. i = n /\ n > 0
        BY <1>1, <1>4
      <4> QED BY <1>3, <4>1
    <3> QED BY <1>2, <1>4, <1>5, <1>6, <3>1
  <2> QED BY <1>4, <2>1, <2>2, <2>3, <2>4 DEF Stacked
<1>9. Last(r) = f /\ Front(r) = st
  <2>1. Last(r) = f
    BY <1>4, TopFacts
  <2>2. Front(r) \in Seq(FrameType) /\ Len(Front(r)) = n /\ \A i \in 1..n : Front(r)[i] = st[i]
    <3>1. Front(r) \in Seq(FrameType) /\ Len(Front(r)) = Len(r) - 1
          /\ \A i \in 1..(Len(r) - 1) : Front(r)[i] = r[i]
      BY <1>4, TopFacts
    <3>2. Len(r) - 1 = n
      BY <1>4
    <3> QED BY <1>4, <3>1, <3>2
  <2>3. Front(r) = st
    <3> DEFINE S == FrameType
    <3>1. Front(r) \in Seq(S) /\ st \in Seq(S)
      BY <1>1, <2>2
    <3> HIDE DEF S
    <3> QED BY <2>2, <3>1
  <2> QED BY <2>1, <2>3
<1> QED BY <1>4, <1>7, <1>8, <1>9 DEF f, r

\* The operators of the model, in terms of the calls.
LEMMA CallFacts ==
  ASSUME Stacked(stack)
  PROVE  /\ \A K : Within(K) <=> Called(stack, K)
         /\ Top # "none" => stack # <<>> /\ Top = Last(stack).do /\ Called(stack, {Top})
         /\ Called(stack, {"complete"}) => Top = "complete" \/ Within({"picking"})
         /\ Called(stack, {"press"}) => Top = "press"
         /\ Top = "picking" => Called(stack, {"complete"})
         /\ Called(<<>>, {"complete"}) = FALSE /\ Called(<<>>, {"press"}) = FALSE
         /\ Stacked(<<>>)
<1> DEFINE n == Len(stack)
<1>0. stack = <<>> => n = 0
  OBVIOUS
<1>1. /\ stack \in Seq(FrameType) /\ DOMAIN stack = 1..n /\ n \in Nat
      /\ \A i \in 1..n : stack[i].do = "picking" => i > 1 /\ stack[i - 1].do = "complete"
      /\ \A i \in 1..n : stack[i].do = "complete" => i = n \/ stack[i + 1].do = "picking"
      /\ \A i \in 1..n : stack[i].do = "press" => i = n /\ stack[i].spell \in Spells
  BY DEF Stacked
<1>2. \A K : Within(K) <=> Called(stack, K)
  BY <1>1 DEF Within, Called
<1>3. stack # <<>> => n > 0 /\ Last(stack) = stack[n] /\ Top = stack[n].do
  BY <1>1, TopFacts DEF Top
<1> HIDE DEF n
<1>4. Top # "none" => stack # <<>> /\ Top = Last(stack).do /\ Called(stack, {Top})
  <2>1. HAVE Top # "none"
  <2>2. stack # <<>>
    BY <2>1 DEF Top
  <2>3. n \in 1..n /\ Top = Last(stack).do /\ stack[n].do \in {Top}
    BY <1>1, <1>3, <2>2
  <2> QED BY <2>2, <2>3 DEF Called, n
<1>5. Called(stack, {"complete"}) => Top = "complete" \/ Within({"picking"})
  <2> SUFFICES ASSUME NEW i \in 1..n, stack[i].do = "complete"
               PROVE  Top = "complete" \/ Called(stack, {"picking"})
    BY <1>2 DEF Called, n
  <2>1. stack # <<>>
    BY <1>0, <1>1
  <2>2. CASE i = n
    BY <1>3, <2>1, <2>2
  <2>3. CASE i # n
    <3>1. stack[i + 1].do = "picking"
      BY <1>1, <2>3
    <3>2. i + 1 \in 1..n
      BY <1>1, <2>3
    <3> QED BY <3>1, <3>2 DEF Called, n
  <2> QED BY <2>2, <2>3
<1>6. Called(stack, {"press"}) => Top = "press"
  <2> SUFFICES ASSUME NEW i \in 1..n, stack[i].do = "press" PROVE Top = "press"
    BY DEF Called, n
  <2>1. i = n
    BY <1>1
  <2>2. stack # <<>> /\ stack[n].do = "press"
    BY <1>0, <1>1, <2>1
  <2> QED BY <1>3, <2>2
<1>7. Top = "picking" => Called(stack, {"complete"})
  <2>1. HAVE Top = "picking"
  <2>2. stack # <<>> /\ n > 0 /\ stack[n].do = "picking"
    BY <1>3, <1>4, <2>1
  <2>3. n \in 1..n
    BY <1>1, <2>2
  <2>4. n > 1 /\ stack[n - 1].do = "complete"
    BY <1>1, <2>2, <2>3
  <2>5. n - 1 \in 1..n
    BY <1>1, <2>4
  <2> QED BY <2>4, <2>5 DEF Called, n
<1>8. Len(<<>>) = 0 /\ <<>> \in Seq(FrameType)
  OBVIOUS
<1>9. Stacked(<<>>) /\ \A K : ~Called(<<>>, K)
  BY <1>8 DEF Stacked, Called
<1> QED BY <1>2, <1>4, <1>5, <1>6, <1>7, <1>9

-----------------------------------------------------------------------------
(* Times *)

\* The latest and the earliest of a few times.
LEMMA TimeFacts ==
  /\ \A a, b \in Int : Max({a, b}) \in {a, b} /\ Max({a, b}) >= a /\ Max({a, b}) >= b
  /\ \A a, b \in Int : Min({a, b}) \in {a, b} /\ Min({a, b}) <= a /\ Min({a, b}) <= b
  /\ \A a, b, c, d \in Int :
        LET m == Max({a, b, c, d})
        IN  m \in {a, b, c, d} /\ m >= a /\ m >= b /\ m >= c /\ m >= d
<1>1. ASSUME NEW a \in Int, NEW b \in Int
      PROVE  /\ Max({a, b}) \in {a, b} /\ Max({a, b}) >= a /\ Max({a, b}) >= b
             /\ Min({a, b}) \in {a, b} /\ Min({a, b}) <= a /\ Min({a, b}) <= b
  <2>1. \E x \in {a, b} : \A y \in {a, b} : x >= y
    BY <1>1
  <2>2. \E x \in {a, b} : \A y \in {a, b} : x <= y
    BY <1>1
  <2> QED BY <2>1, <2>2 DEF Max, Min
<1>2. ASSUME NEW a \in Int, NEW b \in Int, NEW c \in Int, NEW d \in Int
      PROVE  LET m == Max({a, b, c, d})
             IN  m \in {a, b, c, d} /\ m >= a /\ m >= b /\ m >= c /\ m >= d
  <2> DEFINE T == {a, b, c, d}
  <2>1. \E x \in T : x >= a /\ x >= b /\ x >= c /\ x >= d
    <3>1. PICK x \in {a, b} : x >= a /\ x >= b
      BY <1>2
    <3>2. PICK y \in {c, d} : y >= c /\ y >= d
      BY <1>2
    <3>3. CASE x >= y
      BY <1>2, <3>1, <3>2, <3>3
    <3>4. CASE y >= x
      BY <1>2, <3>1, <3>2, <3>4
    <3> QED BY <1>2, <3>1, <3>2, <3>3, <3>4
  <2>2. \E x \in T : \A y \in T : x >= y
    BY <2>1
  <2>3. Max(T) \in T /\ \A y \in T : Max(T) >= y
    <3> HIDE DEF T
    <3> QED BY <2>2 DEF Max
  <2> QED BY <2>3
<1> QED BY <1>1, <1>2

\* A spell's GCD and cast time.
LEMMA EffectiveFacts ==
  ASSUME NEW s \in Spells
  PROVE  EffectiveTime(s) \in Nat /\ CastTimeOf(s) <= EffectiveTime(s) /\ CastTimeOf(s) \in Nat
<1>1. \A a, b \in Int : Max({a, b}) \in {a, b} /\ Max({a, b}) >= a /\ Max({a, b}) >= b
  BY TimeFacts
<1> DEFINE a == GcdOf(s)
           b == CastTimeOf(s)
<1>2. a \in Nat /\ b \in Nat /\ EffectiveTime(s) = Max({a, b})
  BY SpellFacts DEF EffectiveTime
<1> HIDE DEF a, b
<1>3. Max({a, b}) \in {a, b} /\ Max({a, b}) >= b
  BY <1>1, <1>2
<1>4. EffectiveTime(s) \in Nat /\ b <= EffectiveTime(s)
  BY <1>2, <1>3
<1> QED BY <1>2, <1>4 DEF b

\* What the invariant says, spelled out.
LEMMA InvFacts ==
  ASSUME RotationInv
  PROVE  /\ now \in Nat /\ gcdAt \in Nat /\ lookAt \in Nat /\ ops \in Nat /\ cdAt \in [Spells -> Nat]
         /\ hc \in CastType \cup {None} /\ queued \in QueuedType \cup {None}
         /\ pressed \in BOOLEAN /\ wait \in Nat \cup {None, Parked}
         /\ Stacked(stack) /\ Timed(timers)
         /\ Called(stack, {"complete"}) => hc # None /\ hc.ends <= now
         /\ Pending(timers, "queued") => queued # None
         /\ Called(stack, {"press"}) => queued = None
         /\ LookComes(timers, lookAt, now, stack)
         /\ InTime(lookAt, now, gcdAt, hc, wait)
         /\ hc # None => hc.spell \in Spells /\ hc.ends \in Nat
         /\ queued # None => queued.spell \in Spells /\ queued.at \in Nat
BY DEF RotationInv, Values, Apt, CastType, QueuedType

\* What the rotation keeps of the times when it waits.
WakeKept == wait # None /\ lookAt > now => lookAt' <= lookAt

-----------------------------------------------------------------------------
(* The next look *)

\* A look that is set is armed.
LEMMA SetLookFacts ==
  ASSUME NEW q, Timed(q), NEW t \in Nat, SetRotationTimer(q, t)
  PROVE  /\ lookAt' = t /\ Timed(timers') /\ Stands(timers', "look", lookAt')
         /\ Pending(timers', "queued") => Pending(q, "queued")
<1>1. lookAt' = t /\ timers' = Arm(q, "look", t) /\ "look" \in Kinds
  BY DEF SetRotationTimer, Kinds
<1> QED BY <1>1, ArmFacts

\* A GCD that is set has a look armed by its end, and keeps a Wait's.
LEMMA GcdFacts ==
  ASSUME RotationInv, NEW q, Timed(q), Stands(timers, "look", lookAt) => Stands(q, "look", lookAt),
         NEW t \in Nat, HoldsGCD(t)
  PROVE  /\ gcdAt' = t /\ lookAt' \in Nat /\ lookAt' <= gcdAt' /\ WakeKept
         /\ Timed(LookBy(q, t)) /\ Stands(LookBy(q, t), "look", lookAt')
         /\ Pending(LookBy(q, t), "queued") => Pending(q, "queued")
<1>1. lookAt \in Nat /\ now \in Nat /\ LookComes(timers, lookAt, now, stack)
  BY InvFacts
<1>2. CASE KeepsWake(t)
  <2>1. lookAt > now /\ lookAt < t /\ gcdAt' = t /\ lookAt' = lookAt /\ LookBy(q, t) = q
    BY <1>2 DEF KeepsWake, HoldsGCD, LookBy
  <2>2. Stands(q, "look", lookAt)
    BY <1>1, <2>1 DEF LookComes
  <2> QED BY <1>1, <2>1, <2>2 DEF WakeKept
<1>3. CASE ~KeepsWake(t)
  <2>1. gcdAt' = t /\ lookAt' = t /\ LookBy(q, t) = Arm(q, "look", t) /\ "look" \in Kinds
    BY <1>3 DEF HoldsGCD, LookBy, Kinds
  <2>2. wait # None /\ lookAt > now => t <= lookAt
    BY <1>1, <1>3 DEF KeepsWake
  <2> QED BY <1>1, <2>1, <2>2, ArmFacts DEF WakeKept
<1> QED BY <1>2, <1>3

\* What is left of the queue when the queued spell is dropped.
LEMMA KeptFacts ==
  ASSUME RotationInv, NEW s, Unqueues(s)
  PROVE  /\ Timed(Kept(s, timers))
         /\ Stands(timers, "look", lookAt) => Stands(Kept(s, timers), "look", lookAt)
         /\ Pending(Kept(s, timers), "queued") => queued' # None
         /\ queued' \in QueuedType \cup {None} /\ pressed' \in BOOLEAN
         /\ queued = None => queued' = None
<1>1. CASE Drops(s)
  <2>1. Kept(s, timers) = Without(timers, "queued") /\ queued' = None /\ pressed' = FALSE
    BY <1>1 DEF Kept, Unqueues, NoneQueued
  <2> QED BY <2>1, WithoutFacts, InvFacts
<1>2. CASE ~Drops(s)
  BY <1>2, InvFacts DEF Kept, Unqueues
<1> QED BY <1>1, <1>2

-----------------------------------------------------------------------------
(* The invariant is kept *)

\* Where calls lead, as far as the look and the hardcast go.
Follows(calls) ==
    /\ Stacked(calls) /\ ~Called(calls, {"press"})
    /\ Called(calls, {"complete"}) => Called(stack, {"complete"})
    /\ Called(stack, {"next", "looking"}) => Called(calls, {"next", "looking"})

\* A cast keeps the invariant, and a Wait's wake.
LEMMA CastKeeps ==
  ASSUME RotationInv, NEW s \in Spells, NEW calls, Follows(calls), MayCall(calls, "applying", s),
         CastTimeOf(s) > 0 => ~Called(calls, {"complete"}),
         Cast(s, calls), UNCHANGED <<now, wait, ops>>
  PROVE  RotationInv' /\ WakeKept
<1> DEFINE e == EffectiveTime(s)
           gcdEnd == Max({now + e, gcdAt})
           castEnd == now + CastTimeOf(s)
           q == Kept(s, timers)
<1>1. /\ Stacked(calls) /\ ~Called(calls, {"press"})
      /\ Called(calls, {"complete"}) => Called(stack, {"complete"})
      /\ Called(stack, {"next", "looking"}) => Called(calls, {"next", "looking"})
  BY DEF Follows
<1>2. /\ e \in Nat /\ CastTimeOf(s) <= e /\ CastTimeOf(s) \in Nat /\ gcdEnd \in Nat /\ castEnd \in Nat
      /\ CooldownOf(s) \in Nat
  <2>1. GcdOf(s) \in Nat /\ CastTimeOf(s) \in Nat /\ CooldownOf(s) \in Nat
    BY SpellFacts
  <2>2. e \in Nat /\ CastTimeOf(s) <= e
    BY EffectiveFacts
  <2> HIDE DEF e
  <2>3. now + e \in Nat /\ gcdAt \in Nat /\ castEnd \in Nat
    BY <2>1, <2>2, InvFacts
  <2>4. gcdEnd \in Nat
    <3>1. \A a, b \in Int : Max({a, b}) \in {a, b}
      BY TimeFacts
    <3>2. gcdEnd \in {now + e, gcdAt}
      BY <2>3, <3>1
    <3> QED BY <2>3, <3>2
  <2> QED BY <2>1, <2>2, <2>3, <2>4
<1>3. Drops(s) <=> e > 0
  BY DEF Drops
<1>4. /\ Timed(q) /\ (Stands(timers, "look", lookAt) => Stands(q, "look", lookAt))
      /\ Pending(q, "queued") => queued' # None
      /\ queued' \in QueuedType \cup {None} /\ pressed' \in BOOLEAN
  <2>1. Unqueues(s)
    BY DEF Cast
  <2> QED BY <2>1, KeptFacts
<1>5. /\ now' = now /\ wait' = wait /\ ops' = ops
      /\ now \in Nat /\ wait \in Nat \cup {None, Parked} /\ ops \in Nat
      /\ gcdAt \in Nat /\ lookAt \in Nat /\ cdAt \in [Spells -> Nat] /\ hc \in CastType \cup {None}
      /\ LookComes(timers, lookAt, now, stack) /\ InTime(lookAt, now, gcdAt, hc, wait)
      /\ Called(stack, {"complete"}) => hc # None /\ hc.ends <= now
  BY InvFacts
<1>6. CASE CastTimeOf(s) > 0
  <2>1. /\ hc' = [spell |-> s, ends |-> castEnd] /\ HoldsGCD(gcdEnd)
        /\ timers' = Arm(LookBy(q, gcdEnd), "land", castEnd)
        /\ stack' = calls /\ cdAt' = cdAt
    BY <1>6 DEF Cast
  <2> HIDE DEF q, gcdEnd, castEnd
  <2>2. /\ gcdAt' = gcdEnd /\ lookAt' \in Nat /\ lookAt' <= gcdAt' /\ WakeKept
        /\ Timed(LookBy(q, gcdEnd)) /\ Stands(LookBy(q, gcdEnd), "look", lookAt')
        /\ Pending(LookBy(q, gcdEnd), "queued") => Pending(q, "queued")
    BY <1>2, <1>4, <2>1, GcdFacts
  <2>3. /\ Timed(timers') /\ Stands(timers', "look", lookAt')
        /\ Pending(timers', "queued") => Pending(q, "queued")
    <3>1. "land" \in Kinds /\ "look" # "land" /\ "queued" # "land"
      BY DEF Kinds
    <3> QED BY <1>2, <2>1, <2>2, <3>1, ArmFacts
  <2>4. hc' \in CastType
    BY <1>2, <2>1 DEF CastType
  <2>5. Values(now', gcdAt', lookAt', cdAt', hc', queued', pressed', wait', ops')
    BY <1>2, <1>4, <1>5, <2>1, <2>2, <2>4 DEF Values
  <2>6. Apt(now', gcdAt', lookAt', hc', queued', wait', timers', stack')
    BY <1>1, <1>4, <1>6, <2>1, <2>2, <2>3 DEF Apt, LookComes, InTime
  <2> QED BY <2>2, <2>5, <2>6 DEF RotationInv
<1>7. CASE ~(CastTimeOf(s) > 0)
  <2>1. /\ IF Drops(s) THEN SetGCDTimer(q, gcdEnd) ELSE UNCHANGED <<gcdAt, lookAt, timers>>
        /\ StartsCooldown(s) /\ stack' = Append(calls, Frame("applying", s)) /\ hc' = hc
    BY <1>7 DEF Cast
  <2>2. cdAt' \in [Spells -> Nat]
    <3>1. now + CooldownOf(s) \in Nat
      BY <1>2, <1>5
    <3> QED BY <1>5, <2>1, <3>1 DEF StartsCooldown
  <2>3. /\ Stacked(stack') /\ ~Called(stack', {"press"})
        /\ Called(stack', {"complete"}) => Called(stack, {"complete"})
        /\ Called(stack, {"next", "looking"}) => Called(stack', {"next", "looking"})
    <3>1. \A K : Called(stack', K) <=> Called(calls, K) \/ "applying" \in K
      BY <1>1, <2>1, PushFacts
    <3> QED BY <1>1, <2>1, <3>1, PushFacts
  <2> HIDE DEF q, gcdEnd
  <2>4. /\ gcdAt' \in Nat /\ lookAt' \in Nat /\ WakeKept /\ Timed(timers')
        /\ LookComes(timers', lookAt', now, stack') /\ InTime(lookAt', now, gcdAt', hc, wait)
        /\ Pending(timers', "queued") => queued' # None
    <3>1. CASE Drops(s)
      <4>1. HoldsGCD(gcdEnd) /\ timers' = LookBy(q, gcdEnd)
        BY <2>1, <3>1 DEF SetGCDTimer
      <4>2. /\ gcdAt' = gcdEnd /\ lookAt' \in Nat /\ lookAt' <= gcdAt' /\ WakeKept
            /\ Timed(timers') /\ Stands(timers', "look", lookAt')
            /\ Pending(timers', "queued") => Pending(q, "queued")
        BY <1>2, <1>4, <4>1, GcdFacts
      <4> QED BY <1>2, <1>4, <4>2 DEF LookComes, InTime
    <3>2. CASE ~Drops(s)
      <4>1. gcdAt' = gcdAt /\ lookAt' = lookAt /\ timers' = timers /\ q = timers
        BY <2>1, <3>2 DEF Kept, q
      <4>2. WakeKept
        BY <1>5, <4>1 DEF WakeKept
      <4> QED BY <1>4, <1>5, <2>3, <4>1, <4>2 DEF LookComes
    <3> QED BY <3>1, <3>2
  <2>5. Values(now', gcdAt', lookAt', cdAt', hc', queued', pressed', wait', ops')
    BY <1>4, <1>5, <2>1, <2>2, <2>4 DEF Values
  <2>6. Apt(now', gcdAt', lookAt', hc', queued', wait', timers', stack')
    BY <1>5, <2>1, <2>3, <2>4 DEF Apt
  <2> QED BY <2>4, <2>5, <2>6 DEF RotationInv
<1> QED BY <1>6, <1>7

\* The end of a hardcast keeps the invariant.
LEMMA CompletesKeeps ==
  ASSUME RotationInv, NEW calls, Follows(calls), ~Called(calls, {"complete"}),
         calls # <<>> => Last(calls).do \notin {"press", "complete"},
         hc # None, hc.ends <= now, Completes(calls)
  PROVE  RotationInv' /\ WakeKept
<1>1. /\ hc' = None /\ hc.spell \in Spells /\ hc.ends \in Nat
      /\ UNCHANGED <<now, gcdAt, lookAt, queued, pressed, wait, timers, ops>>
  BY InvFacts DEF Completes
<1>2. /\ Stacked(calls) /\ ~Called(calls, {"press"})
      /\ Called(stack, {"next", "looking"}) => Called(calls, {"next", "looking"})
  BY DEF Follows
<1>3. \/ stack' = Append(calls, Frame("landing", hc.spell)) /\ StartsCooldown(hc.spell)
      \/ stack' = calls /\ cdAt' = cdAt
  BY DEF Completes
<1>4. /\ Stacked(stack') /\ ~Called(stack', {"press"}) /\ ~Called(stack', {"complete"})
      /\ Called(stack, {"next", "looking"}) => Called(stack', {"next", "looking"})
  <2>1. MayCall(calls, "landing", hc.spell)
    BY <1>1 DEF MayCall, Frames
  <2>2. CASE stack' = Append(calls, Frame("landing", hc.spell))
    <3>1. Stacked(stack') /\ \A K : Called(stack', K) <=> Called(calls, K) \/ "landing" \in K
      BY <1>2, <2>1, <2>2, PushFacts
    <3> QED BY <1>2, <3>1
  <2> QED BY <1>2, <1>3, <2>2
<1>5. cdAt' \in [Spells -> Nat]
  <2>1. now + CooldownOf(hc.spell) \in Nat /\ cdAt \in [Spells -> Nat]
    BY <1>1, SpellFacts, InvFacts
  <2> QED BY <1>1, <1>3, <2>1 DEF StartsCooldown
<1>6. InTime(lookAt, now, gcdAt, None, wait)
  <2>1. now \in Nat /\ lookAt \in Nat /\ Reaction \in Nat /\ InTime(lookAt, now, gcdAt, hc, wait)
    BY InvFacts, SpellFacts
  <2> QED BY <1>1, <2>1 DEF InTime
<1>7. Values(now', gcdAt', lookAt', cdAt', hc', queued', pressed', wait', ops')
  BY <1>1, <1>5, InvFacts DEF Values
<1>8. Apt(now', gcdAt', lookAt', hc', queued', wait', timers', stack')
  BY <1>1, <1>4, <1>6, InvFacts DEF Apt, LookComes
<1>9. WakeKept
  BY <1>1, InvFacts DEF WakeKept
<1> QED BY <1>7, <1>8, <1>9 DEF RotationInv

\* Where the calls change and nothing else does.
LEMMA CallsKeep ==
  ASSUME RotationInv, Follows(stack'), ops' \in Nat,
         UNCHANGED <<now, gcdAt, lookAt, cdAt, hc, queued, pressed, wait, timers>>
  PROVE  RotationInv' /\ WakeKept
<1>1. Values(now', gcdAt', lookAt', cdAt', hc', queued', pressed', wait', ops')
  BY InvFacts DEF Values
<1>2. Apt(now', gcdAt', lookAt', hc', queued', wait', timers', stack')
  BY InvFacts DEF Apt, LookComes, Follows
<1>3. WakeKept
  BY InvFacts DEF WakeKept
<1> QED BY <1>1, <1>2, <1>3 DEF RotationInv


-----------------------------------------------------------------------------
(* The unit's actions come off the queue *)

\* What DoNextAction puts on top of the calls.
LEMMA NextFacts ==
  ASSUME Stacked(stack), NEW calls, Stacked(calls), NEW due \in BOOLEAN,
         calls # <<>> => Last(calls).do \notin {"press", "complete"},
         ~Called(calls, {"press"}),
         due /\ Called(calls, {"complete"}) => InLoop
  PROVE  LET r == DoNextAction(calls, due)
         IN  /\ Stacked(r) /\ ~Called(r, {"press"})
             /\ \A K : Called(calls, K) => Called(r, K)
             /\ InLoop => r = calls
             /\ ~InLoop => Called(r, {"next"})
             /\ Called(r, {"complete"}) => Called(calls, {"complete"}) \/ due
<1> DEFINE r == DoNextAction(calls, due)
           b == Append(calls, Frame("next", None))
<1>1. CASE InLoop
  BY <1>1 DEF DoNextAction
<1>2. CASE ~InLoop
  <2>1. calls \in Seq(FrameType) /\ Frame("next", None) \in FrameType
    BY DEF Stacked, Frame, FrameType, Frames
  <2>2. r = calls \o <<Frame("next", None)>> \o IF due THEN <<Frame("complete", None)>> ELSE <<>>
    BY <1>2 DEF DoNextAction
  <2>3. MayCall(calls, "next", None)
    BY DEF MayCall, Frames
  <2>4. Stacked(b) /\ b # <<>> /\ Last(b) = Frame("next", None)
        /\ \A K : Called(b, K) <=> Called(calls, K) \/ "next" \in K
    BY <2>3, PushFacts
  <2>5. CASE ~due
    <3>1. r = b
      <4> DEFINE S == FrameType
                 f == Frame("next", None)
      <4>1. calls \in Seq(S) /\ f \in S
        BY <2>1
      <4>2. r = calls \o <<f>> \o <<>>
        BY <2>2, <2>5
      <4> HIDE DEF S, f, r
      <4> QED BY <4>1, <4>2 DEF f
    <3> QED BY <1>2, <2>4, <3>1
  <2>6. CASE due
    <3> DEFINE c == Append(b, Frame("complete", None))
    <3>1. r = c
      <4> DEFINE S == FrameType
                 f == Frame("next", None)
                 g == Frame("complete", None)
      <4>1. calls \in Seq(S) /\ f \in S /\ g \in S
        BY <2>1 DEF Frame, FrameType, Frames
      <4>2. r = calls \o <<f>> \o <<g>>
        BY <2>2, <2>6
      <4> HIDE DEF S, f, g, r
      <4> QED BY <4>1, <4>2 DEF f, g
    <3>2. ~Called(b, {"complete"})
      BY <1>2, <2>4, <2>6
    <3>3. MayCall(b, "complete", None)
      BY <2>4, <3>2 DEF MayCall, Frames, Frame
    <3>4. Stacked(c) /\ \A K : Called(c, K) <=> Called(b, K) \/ "complete" \in K
      BY <2>4, <3>3, PushFacts
    <3> QED BY <1>2, <2>4, <2>6, <3>1, <3>4
  <2> QED BY <2>5, <2>6
<1> QED BY <1>1, <1>2

\* The time an action fires at.
LEMMA PopsFacts ==
  ASSUME RotationInv, NEW w, Pops(w)
  PROVE  /\ stack = <<>> /\ ~InLoop /\ Stands(timers, "look", lookAt)
         /\ now' \in Nat /\ now <= now' /\ pressed' \in BOOLEAN
         /\ Timed(timers') /\ w \in Kinds
         /\ w = "look" => lookAt <= now'
         /\ w # "look" => Stands(timers', "look", lookAt)
         /\ Pending(timers', "queued") => queued # None /\ w # "queued"
         /\ w = "queued" => queued # None
         /\ InTime(lookAt, now', gcdAt, hc, wait)
         /\ UNCHANGED <<gcdAt, lookAt, cdAt, hc, wait, ops>>
<1>1. /\ stack = <<>> /\ timers # <<>> /\ Head(timers).what = w
      /\ now' = Max({now, Head(timers).at}) /\ pressed' = (pressed /\ now' = now)
      /\ timers' = Tail(timers) /\ UNCHANGED <<gcdAt, lookAt, cdAt, hc, wait, ops>>
  BY DEF Pops
<1>2. /\ now \in Nat /\ gcdAt \in Nat /\ lookAt \in Nat /\ Timed(timers) /\ pressed \in BOOLEAN
      /\ LookComes(timers, lookAt, now, stack) /\ InTime(lookAt, now, gcdAt, hc, wait)
      /\ Pending(timers, "queued") => queued # None
      /\ Reaction \in Nat
  BY InvFacts, SpellFacts
<1>3. \A K : ~Called(<<>>, K)
  BY DEF Called
<1>4. Stands(timers, "look", lookAt)
  BY <1>1, <1>2, <1>3 DEF LookComes
<1>5. /\ Timed(timers') /\ ~Pending(timers', w) /\ Head(timers).what \in Kinds /\ Head(timers).at \in Nat
      /\ \A v : v # w => \A t : Stands(timers, v, t) => Stands(timers', v, t)
      /\ \A v : Pending(timers', v) => Pending(timers, v)
      /\ Pending(timers, w)
      /\ \A t : Stands(timers, w, t) => Head(timers).at = t
  BY <1>1, <1>2, TailFacts DEF TimerType
<1>6. now' \in Nat /\ now <= now' /\ Head(timers).at <= now'
  <2>1. \A a, b \in Int : Max({a, b}) \in {a, b} /\ Max({a, b}) >= a /\ Max({a, b}) >= b
    BY TimeFacts
  <2> DEFINE a == Head(timers).at
  <2>2. a \in Nat /\ now' = Max({now, a})
    BY <1>1, <1>5
  <2> HIDE DEF a
  <2>3. now \in Nat /\ a \in Nat
    BY <1>2, <2>2
  <2>4. Max({now, a}) \in {now, a} /\ Max({now, a}) >= now /\ Max({now, a}) >= a
    BY <2>1, <2>3
  <2>5. now' \in Nat /\ now <= now' /\ a <= now'
    BY <2>2, <2>3, <2>4
  <2> QED BY <2>5 DEF a
<1>7. InTime(lookAt, now', gcdAt, hc, wait)
  <2>0. now \in Nat /\ now' \in Nat /\ lookAt \in Nat /\ Reaction \in Nat /\ now <= now'
    BY <1>2, <1>6
  <2>1. lookAt <= now + Reaction => lookAt <= now' + Reaction
    <3>1. \A a, b, r, l \in Nat : a <= b /\ l <= a + r => l <= b + r
      OBVIOUS
    <3> QED BY <2>0, <3>1
  <2> QED BY <1>2, <2>1 DEF InTime
<1>8. ~InLoop
  BY <1>1 DEF InLoop, Within
<1> QED BY <1>1, <1>2, <1>4, <1>5, <1>6, <1>7, <1>8

\* Where the time moves and only the queued spell may go.
LEMMA PopsKeep ==
  ASSUME RotationInv, NEW w, Pops(w), Stacked(stack'),
         queued' \in {queued, None}, w # "queued" => queued' = queued,
         Called(stack', {"complete"}) => hc # None /\ hc.ends <= now',
         Called(stack', {"press"}) => queued' = None,
         w = "look" => Called(stack', {"next", "looking"})
  PROVE  RotationInv' /\ WakeKept
<1>1. /\ UNCHANGED <<gcdAt, lookAt, cdAt, hc, wait, ops>> /\ now' \in Nat /\ pressed' \in BOOLEAN
      /\ InTime(lookAt, now', gcdAt, hc, wait) /\ Timed(timers')
      /\ w = "look" => lookAt <= now'
      /\ w # "look" => Stands(timers', "look", lookAt)
      /\ Pending(timers', "queued") => queued # None /\ w # "queued"
  BY PopsFacts
<1>2. queued' \in QueuedType \cup {None}
  BY InvFacts
<1>3. Values(now', gcdAt', lookAt', cdAt', hc', queued', pressed', wait', ops')
  BY <1>1, <1>2, InvFacts DEF Values
<1>4. Apt(now', gcdAt', lookAt', hc', queued', wait', timers', stack')
  BY <1>1 DEF Apt, LookComes
<1>5. WakeKept
  BY <1>1, InvFacts DEF WakeKept
<1> QED BY <1>3, <1>4, <1>5 DEF RotationInv

\* The look comes off the queue: one is under way, which will put it back.
LEMMA RotationLooksKeeps ==
  ASSUME RotationInv, RotationLooks
  PROVE  RotationInv' /\ WakeKept
<1> DEFINE due == hc # None /\ hc.ends <= now'
<1>1. Pops("look") /\ stack' = DoNextAction(<<>>, due) /\ queued' = queued
  BY DEF RotationLooks
<1>2. ~InLoop /\ Stacked(stack)
  BY <1>1, PopsFacts, InvFacts
<1>3. Stacked(<<>>) /\ ~Called(<<>>, {"press"}) /\ ~Called(<<>>, {"complete"})
  BY <1>2, CallFacts
<1>4. due \in BOOLEAN
  OBVIOUS
<1> HIDE DEF due
<1>5. /\ Stacked(stack') /\ ~Called(stack', {"press"}) /\ Called(stack', {"next"})
      /\ Called(stack', {"complete"}) => due
  BY <1>1, <1>2, <1>3, <1>4, NextFacts
<1>6. Called(stack', {"next", "looking"})
  BY <1>5 DEF Called
<1> QED BY <1>1, <1>5, <1>6, PopsKeep DEF due

\* The landing comes off the queue: the hardcast completes if it is due.
LEMMA HardcastLandsKeeps ==
  ASSUME RotationInv, HardcastLands
  PROVE  RotationInv' /\ WakeKept
<1> DEFINE due == hc # None /\ hc.ends <= now'
           r == Append(<<>>, Frame("complete", None))
<1>1. Pops("land") /\ queued' = queued /\ stack' = IF due THEN <<Frame("complete", None)>> ELSE <<>>
  BY DEF HardcastLands
<1>2. Stacked(<<>>) /\ ~Called(<<>>, {"press"}) /\ ~Called(<<>>, {"complete"})
  BY InvFacts, CallFacts
<1>3. MayCall(<<>>, "complete", None)
  BY <1>2 DEF MayCall, Frames
<1>4. Stacked(r) /\ \A K : Called(r, K) <=> Called(<<>>, K) \/ "complete" \in K
  BY <1>2, <1>3, PushFacts
<1>5. r = <<Frame("complete", None)>>
  OBVIOUS
<1>6. Stacked(stack') /\ ~Called(stack', {"press"}) /\ (Called(stack', {"complete"}) => due)
  BY <1>1, <1>2, <1>4, <1>5
<1> QED BY <1>1, <1>6, PopsKeep

\* The queued spell comes off the queue and is pressed.
LEMMA QueuedFiresKeeps ==
  ASSUME RotationInv, QueuedFires
  PROVE  RotationInv' /\ WakeKept
<1> DEFINE r == Append(<<>>, Frame("press", queued.spell))
<1>1. Pops("queued") /\ queued' = None /\ stack' = <<Frame("press", queued.spell)>>
  BY DEF QueuedFires
<1>2. Stacked(<<>>) /\ ~Called(<<>>, {"complete"})
  BY InvFacts, CallFacts
<1>3. queued.spell \in Spells
  BY <1>1, PopsFacts, InvFacts
<1>4. MayCall(<<>>, "press", queued.spell)
  BY <1>3 DEF MayCall, Frames
<1>5. Stacked(r) /\ \A K : Called(r, K) <=> Called(<<>>, K) \/ "press" \in K
  BY <1>2, <1>4, PushFacts
<1>6. r = <<Frame("press", queued.spell)>>
  OBVIOUS
<1>7. Stacked(stack') /\ ~Called(stack', {"complete"})
  BY <1>1, <1>2, <1>5, <1>6
<1> QED BY <1>1, <1>7, PopsKeep

-----------------------------------------------------------------------------
(* A press, and what follows it *)

\* A press casts or is refused.
LEMMA PressKeeps ==
  ASSUME RotationInv, Press
  PROVE  RotationInv' /\ WakeKept
<1> DEFINE s == Last(stack).spell
           calls == Append(Front(stack), Frame("firing", s))
<1>1. /\ Top = "press" /\ UNCHANGED <<now, wait, ops>>
      /\ \/ (EffectiveTime(s) > 0 => ~HardcastRuns) /\ Cast(s, calls)
         \/ Refused(s, calls)
  BY DEF Press
<1>2. Stacked(stack)
  BY InvFacts
<1>3. /\ stack # <<>> /\ Last(stack).do = "press" /\ Called(stack, {"press"})
      /\ Called(stack, {"complete"}) => Within({"picking"})
  BY <1>1, <1>2, CallFacts
<1>4. /\ Stacked(Front(stack)) /\ ~Called(Front(stack), {"press"})
      /\ \A K : Called(Front(stack), K) => Called(stack, K)
      /\ \A K : Called(stack, K) /\ "press" \notin K => Called(Front(stack), K)
      /\ Front(stack) = <<>> \/ Last(Front(stack)).do # "complete"
      /\ s \in Spells
  BY <1>2, <1>3, PopFacts
<1>5. Front(stack) # <<>> => Last(Front(stack)).do # "press"
  <2>1. HAVE Front(stack) # <<>>
  <2>2. Front(stack) \in Seq(FrameType)
    BY <1>4 DEF Stacked
  <2>3. /\ Len(Front(stack)) \in 1..Len(Front(stack))
        /\ Last(Front(stack)) = Front(stack)[Len(Front(stack))]
    BY <2>1, <2>2, TopFacts
  <2> QED BY <1>4, <2>3 DEF Called
<1> HIDE DEF s
<1>6. MayCall(Front(stack), "firing", s)
  BY <1>4, <1>5 DEF MayCall, Frames
<1>7. /\ Stacked(calls) /\ Last(calls) = Frame("firing", s) /\ calls # <<>>
      /\ \A K : Called(calls, K) <=> Called(Front(stack), K) \/ "firing" \in K
  BY <1>4, <1>6, PushFacts
<1> HIDE DEF calls
<1>8. Follows(calls)
  BY <1>4, <1>7 DEF Follows
<1>9. MayCall(calls, "applying", s)
  BY <1>4, <1>7 DEF MayCall, Frames, Frame
<1>10. CASE (EffectiveTime(s) > 0 => ~HardcastRuns) /\ Cast(s, calls)
  <2>1. CastTimeOf(s) > 0 => ~Called(calls, {"complete"})
    <3>1. HAVE CastTimeOf(s) > 0
    <3>2. EffectiveTime(s) > 0
      <4>1. CastTimeOf(s) <= EffectiveTime(s) /\ CastTimeOf(s) \in Nat /\ EffectiveTime(s) \in Nat
        BY <1>4, EffectiveFacts
      <4> QED BY <3>1, <4>1
    <3>3. SUFFICES ASSUME Called(calls, {"complete"}) PROVE FALSE
      OBVIOUS
    <3>4. Called(stack, {"complete"})
      BY <1>4, <1>7, <3>3
    <3>5. hc # None /\ Within({"picking"})
      BY <1>3, <3>4, InvFacts
    <3> QED BY <1>10, <3>2, <3>5 DEF HardcastRuns
  <2> QED BY <1>1, <1>4, <1>8, <1>9, <1>10, <2>1, CastKeeps
<1>11. CASE Refused(s, calls)
  <2>1. /\ Unqueues(s) /\ stack' = calls /\ timers' = Kept(s, timers)
        /\ UNCHANGED <<gcdAt, lookAt, hc, cdAt>>
    BY <1>11 DEF Refused
  <2>2. /\ Timed(timers') /\ (Stands(timers, "look", lookAt) => Stands(timers', "look", lookAt))
        /\ Pending(timers', "queued") => queued' # None
        /\ queued' \in QueuedType \cup {None} /\ pressed' \in BOOLEAN
    BY <2>1, KeptFacts
  <2>3. Values(now', gcdAt', lookAt', cdAt', hc', queued', pressed', wait', ops')
    BY <1>1, <2>1, <2>2, InvFacts DEF Values
  <2>4. Apt(now', gcdAt', lookAt', hc', queued', wait', timers', stack')
    BY <1>1, <1>8, <2>1, <2>2, InvFacts DEF Apt, LookComes, Follows
  <2>5. WakeKept
    BY <2>1, InvFacts DEF WakeKept
  <2> QED BY <2>3, <2>4, <2>5 DEF RotationInv
<1> QED BY <1>1, <1>10, <1>11

\* A call that returns, or is followed by another.
LEMMA ReturnFollows ==
  ASSUME Stacked(stack), stack # <<>>, Last(stack).do \notin {"next", "looking"}
  PROVE  Follows(Front(stack))
<1>1. /\ Stacked(Front(stack)) /\ ~Called(Front(stack), {"press"})
      /\ \A K : Called(Front(stack), K) => Called(stack, K)
      /\ \A K : Called(stack, K) /\ Last(stack).do \notin K => Called(Front(stack), K)
  BY PopFacts
<1> QED BY <1>1 DEF Follows

\* Where the rotation's next look is set, or left as it is.
LEMMA LookSetKeeps ==
  ASSUME RotationInv, Stacked(stack'), ~Called(stack', {"press"}),
         Called(stack', {"complete"}) => Called(stack, {"complete"}),
         UNCHANGED <<now, gcdAt, cdAt, hc, queued, pressed, ops>>,
         NEW t \in Nat, SetRotationTimer(timers, t),
         wait' \in Nat \cup {None, Parked}, InTime(t, now, gcdAt, hc, wait'),
         wait # None /\ lookAt > now => t <= lookAt
  PROVE  RotationInv' /\ WakeKept
<1>1. /\ lookAt' = t /\ Timed(timers') /\ Stands(timers', "look", lookAt')
      /\ Pending(timers', "queued") => Pending(timers, "queued")
  BY InvFacts, SetLookFacts
<1>2. Values(now', gcdAt', lookAt', cdAt', hc', queued', pressed', wait', ops')
  BY <1>1, InvFacts DEF Values
<1>3. Apt(now', gcdAt', lookAt', hc', queued', wait', timers', stack')
  BY <1>1, InvFacts DEF Apt, LookComes
<1> QED BY <1>1, <1>2, <1>3 DEF RotationInv, WakeKept

\* After the queued spell the rotation looks at once, or when the hardcast ends.
LEMMA FiredKeeps ==
  ASSUME RotationInv, Fired
  PROVE  RotationInv' /\ WakeKept
<1>1. /\ Top = "firing" /\ stack' = Front(stack)
      /\ IF CastOver THEN SetRotationTimer(timers, now) ELSE UNCHANGED <<lookAt, timers>>
      /\ UNCHANGED <<now, gcdAt, cdAt, hc, queued, pressed, wait, ops>>
  BY DEF Fired
<1>2. stack # <<>> /\ Last(stack).do = "firing" /\ Stacked(stack)
  BY <1>1, InvFacts, CallFacts
<1>3. Follows(stack')
  BY <1>1, <1>2, ReturnFollows
<1>4. CASE CastOver
  <2>1. now \in Nat /\ lookAt \in Nat /\ Reaction \in Nat /\ wait' \in Nat \cup {None, Parked}
    BY <1>1, InvFacts, SpellFacts
  <2>2. InTime(now, now, gcdAt, hc, wait') /\ (wait # None /\ lookAt > now => now <= lookAt)
    BY <2>1 DEF InTime
  <2> QED BY <1>1, <1>3, <1>4, <2>1, <2>2, LookSetKeeps DEF Follows
<1>5. CASE ~CastOver
  BY <1>1, <1>3, <1>5, CallsKeep, InvFacts
<1> QED BY <1>4, <1>5


-----------------------------------------------------------------------------
(* The landing of a hardcast, and its picks *)

\* The picks of a cast end run under the completion.
LEMMA PickBeginsKeeps ==
  ASSUME RotationInv, PickBegins
  PROVE  RotationInv' /\ WakeKept
<1> DEFINE q == IF PickQueued THEN Without(timers, "queued") ELSE timers
<1>1. /\ Top = "complete" /\ stack' = Append(stack, Frame("picking", None)) /\ timers' = q
      /\ IF PickQueued THEN queued' = None /\ pressed' = FALSE ELSE queued' = queued /\ pressed' = pressed
      /\ UNCHANGED <<now, gcdAt, lookAt, cdAt, hc, wait, ops>>
  BY DEF PickBegins, NoneQueued
<1>2. Stacked(stack) /\ Timed(timers) /\ (Called(stack, {"press"}) => queued = None)
  BY InvFacts
<1>3. stack # <<>> /\ Last(stack).do = "complete" /\ (Called(stack, {"press"}) => Top = "press")
  BY <1>1, <1>2, CallFacts
<1>4. MayCall(stack, "picking", None)
  BY <1>3 DEF MayCall, Frames
<1>5. Stacked(stack') /\ \A K : Called(stack', K) <=> Called(stack, K) \/ "picking" \in K
  BY <1>1, <1>2, <1>4, PushFacts
<1>6. /\ Timed(timers') /\ (Stands(timers, "look", lookAt) => Stands(timers', "look", lookAt))
      /\ Pending(timers', "queued") => queued' # None
      /\ queued' \in QueuedType \cup {None} /\ pressed' \in BOOLEAN
  <2>1. CASE PickQueued
    BY <1>1, <1>2, <2>1, WithoutFacts
  <2>2. CASE ~PickQueued
    BY <1>1, <1>2, <2>2, InvFacts
  <2> QED BY <2>1, <2>2
<1>7. Values(now', gcdAt', lookAt', cdAt', hc', queued', pressed', wait', ops')
  BY <1>1, <1>6, InvFacts DEF Values
<1>8. Apt(now', gcdAt', lookAt', hc', queued', wait', timers', stack')
  BY <1>1, <1>3, <1>5, <1>6, InvFacts DEF Apt, LookComes
<1>9. WakeKept
  BY <1>1, InvFacts DEF WakeKept
<1> QED BY <1>7, <1>8, <1>9 DEF RotationInv

\* A hardcast completes without picks.
LEMMA LandsUnpickedKeeps ==
  ASSUME RotationInv, LandsUnpicked
  PROVE  RotationInv' /\ WakeKept
<1>1. Top = "complete" /\ Completes(Front(stack))
  BY DEF LandsUnpicked
<1>2. Stacked(stack) /\ (Called(stack, {"complete"}) => hc # None /\ hc.ends <= now)
  BY InvFacts
<1>3. stack # <<>> /\ Last(stack).do = "complete" /\ Called(stack, {"complete"})
  BY <1>1, <1>2, CallFacts
<1>4. /\ Follows(Front(stack)) /\ ~Called(Front(stack), {"press"}) /\ ~Called(Front(stack), {"complete"})
      /\ Stacked(Front(stack))
  BY <1>2, <1>3, PopFacts, ReturnFollows
<1>5. Front(stack) # <<>> => Last(Front(stack)).do \notin {"press", "complete"}
  BY <1>4, LastFacts
<1> QED BY <1>1, <1>2, <1>3, <1>4, <1>5, CompletesKeeps

\* A hardcast completes after its picks.
LEMMA PickEndsKeeps ==
  ASSUME RotationInv, PickEnds
  PROVE  RotationInv' /\ WakeKept
<1> DEFINE c == Front(stack)
<1>1. Top = "picking" /\ Completes(Front(c))
  BY DEF PickEnds
<1>2. Stacked(stack) /\ (Called(stack, {"complete"}) => hc # None /\ hc.ends <= now)
  BY InvFacts
<1>3. stack # <<>> /\ Last(stack).do = "picking" /\ Called(stack, {"complete"})
  BY <1>1, <1>2, CallFacts
<1>4. /\ Stacked(c) /\ c # <<>> /\ Last(c).do = "complete" /\ ~Called(c, {"press"})
      /\ \A K : Called(c, K) => Called(stack, K)
      /\ \A K : Called(stack, K) /\ Last(stack).do \notin K => Called(c, K)
  BY <1>2, <1>3, PopFacts
<1> HIDE DEF c
<1>5. /\ Stacked(Front(c)) /\ ~Called(Front(c), {"press"}) /\ ~Called(Front(c), {"complete"})
      /\ \A K : Called(Front(c), K) => Called(c, K)
      /\ \A K : Called(c, K) /\ Last(c).do \notin K => Called(Front(c), K)
  BY <1>4, PopFacts
<1>6. Called(stack, {"next", "looking"}) => Called(Front(c), {"next", "looking"})
  BY <1>3, <1>4, <1>5
<1>7. Follows(Front(c))
  BY <1>5, <1>6 DEF Follows
<1>8. Front(c) # <<>> => Last(Front(c)).do \notin {"press", "complete"}
  BY <1>5, LastFacts
<1> QED BY <1>1, <1>2, <1>3, <1>5, <1>7, <1>8, CompletesKeeps

-----------------------------------------------------------------------------
(* A pass of the rotation *)

\* A look that is no longer due is left to the queue.
LEMMA LookBeginsKeeps ==
  ASSUME RotationInv, LookBegins
  PROVE  RotationInv' /\ WakeKept
<1> DEFINE f == Front(stack)
           r == Append(f, Frame("looking", None))
<1>1. /\ Top = "next" /\ stack' = IF lookAt <= now THEN r ELSE f
      /\ UNCHANGED <<now, gcdAt, lookAt, cdAt, hc, queued, pressed, wait, timers, ops>>
  BY DEF LookBegins
<1>2. Stacked(stack)
  BY InvFacts
<1>3. stack # <<>> /\ Last(stack).do = "next"
  BY <1>1, <1>2, CallFacts
<1>4. f # <<>> => Last(f).do \notin {"press", "complete"}
  BY <1>2, <1>3, PopFacts, LastFacts
<1>5. /\ Stacked(f) /\ ~Called(f, {"press"})
  BY <1>2, <1>3, PopFacts
<1>6. MayCall(f, "looking", None)
  BY <1>4 DEF MayCall, Frames
<1>7. Stacked(r) /\ \A K : Called(r, K) <=> Called(f, K) \/ "looking" \in K
  BY <1>5, <1>6, PushFacts
<1> HIDE DEF r, f
<1>8. /\ Stacked(stack') /\ ~Called(stack', {"press"})
      /\ Called(stack', {"complete"}) => Called(stack, {"complete"})
      /\ lookAt <= now => Called(stack', {"next", "looking"})
  <2>1. \A K : Called(f, K) => Called(stack, K)
    BY <1>2, <1>3, PopFacts DEF f
  <2> QED BY <1>1, <1>5, <1>7, <2>1
<1>9. Values(now', gcdAt', lookAt', cdAt', hc', queued', pressed', wait', ops')
  BY <1>1, InvFacts DEF Values
<1>10. Apt(now', gcdAt', lookAt', hc', queued', wait', timers', stack')
  BY <1>1, <1>8, InvFacts DEF Apt, LookComes
<1>11. WakeKept
  BY <1>1, InvFacts DEF WakeKept
<1> QED BY <1>9, <1>10, <1>11 DEF RotationInv

\* A cast of the rotation.
LEMMA CastsNowKeeps ==
  ASSUME RotationInv, NEW s \in Spells, CastsNow(s)
  PROVE  RotationInv' /\ WakeKept
<1>1. /\ Top \in {"looking", "picking"} /\ CanCast(s) /\ Cast(s, stack) /\ UNCHANGED <<now, wait, ops>>
  BY DEF CastsNow, MayGo, Looking
<1>2. Stacked(stack)
  BY InvFacts
<1>3. /\ stack # <<>> /\ Last(stack).do \in {"looking", "picking"} /\ ~Called(stack, {"press"})
      /\ Called(stack, {"complete"}) => Within({"picking"})
  <2>1. Top # "none" /\ Top # "press" /\ Top # "complete"
    BY <1>1
  <2> QED BY <1>1, <1>2, <2>1, CallFacts
<1>4. Follows(stack)
  BY <1>2, <1>3 DEF Follows
<1>5. MayCall(stack, "applying", s)
  BY <1>3 DEF MayCall, Frames
<1>6. ~Called(stack, {"complete"})
  <2> SUFFICES ASSUME Called(stack, {"complete"}) PROVE FALSE
    OBVIOUS
  <2>1. hc # None /\ Within({"picking"})
    BY <1>3, InvFacts
  <2> QED BY <1>1, <2>1 DEF CanCast, HardcastRuns
<1> QED BY <1>1, <1>4, <1>5, <1>6, CastKeeps

\* What QueueSpell puts on the queue.
LEMMA QueueFacts ==
  ASSUME RotationInv, NEW s \in Spells, QueueSpell(s)
  PROVE  /\ queued' \in QueuedType /\ queued' # None /\ queued'.spell = s /\ pressed' \in BOOLEAN
         /\ Timed(timers') /\ \A u : Stands(timers, "look", u) => Stands(timers', "look", u)
<1> DEFINE onGCD == IF GcdOf(s) > 0 \/ s \in Major THEN {gcdAt} ELSE {}
           casting == IF hc = None THEN {} ELSE {hc.ends}
           T == {cdAt[s]} \cup onGCD \cup casting
           t == Max(T) + 1
<1>1. /\ queued' = [spell |-> s, at |-> t, after |-> HoldsRotation]
      /\ timers' = Arm(timers, "queued", t) /\ pressed' = TRUE
  BY DEF QueueSpell
<1>2. t \in Nat
  <2>1. cdAt[s] \in Nat /\ gcdAt \in Nat /\ (hc # None => hc.ends \in Nat)
    BY InvFacts
  <2> DEFINE a == cdAt[s]
             b == IF GcdOf(s) > 0 \/ s \in Major THEN gcdAt ELSE a
             c == IF hc = None THEN a ELSE hc.ends
  <2>2. T = {a, b, c, a} /\ a \in Nat /\ b \in Nat /\ c \in Nat
    BY <2>1
  <2> HIDE DEF T, a, b, c
  <2>3. Max({a, b, c, a}) \in {a, b, c, a}
    BY <2>2, TimeFacts
  <2> QED BY <2>2, <2>3
<1>3. HoldsRotation \in BOOLEAN
  BY DEF HoldsRotation, HardcastRuns
<1> HIDE DEF t
<1>4. queued' \in QueuedType /\ queued'.spell = s
  BY <1>1, <1>2, <1>3 DEF QueuedType
<1>5. Timed(timers') /\ \A u : Stands(timers, "look", u) => Stands(timers', "look", u)
  <2>1. "queued" \in Kinds /\ "look" # "queued" /\ Timed(timers)
    BY InvFacts DEF Kinds
  <2> QED BY <1>1, <1>2, <2>1, ArmFacts
<1>6. queued' # None /\ pressed' \in BOOLEAN
  BY <1>1, <1>4, SpellFacts
<1> QED BY <1>4, <1>5, <1>6

\* The rotation queues a spell.
LEMMA QueuesKeeps ==
  ASSUME RotationInv, NEW s \in Spells, Queues(s)
  PROVE  RotationInv' /\ WakeKept
<1>1. /\ Top \in {"looking", "picking"} /\ QueueSpell(s)
      /\ UNCHANGED <<now, gcdAt, lookAt, cdAt, hc, wait, stack, ops>>
  BY DEF Queues, MayGo, Looking
<1>2. /\ queued' \in QueuedType /\ queued' # None /\ pressed' \in BOOLEAN
      /\ Timed(timers') /\ \A u : Stands(timers, "look", u) => Stands(timers', "look", u)
  BY <1>1, QueueFacts
<1>3. ~Called(stack, {"press"})
  <2>1. Top # "press" /\ Stacked(stack)
    BY <1>1, InvFacts
  <2> QED BY <2>1, CallFacts
<1>4. Values(now', gcdAt', lookAt', cdAt', hc', queued', pressed', wait', ops')
  BY <1>1, <1>2, InvFacts DEF Values
<1>5. Apt(now', gcdAt', lookAt', hc', queued', wait', timers', stack')
  BY <1>1, <1>2, <1>3, InvFacts DEF Apt, LookComes
<1>6. WakeKept
  BY <1>1, InvFacts DEF WakeKept
<1> QED BY <1>4, <1>5, <1>6 DEF RotationInv

\* A look presses the queued spell itself, which leaves the queue.
LEMMA CastDueQueuedSpellKeeps ==
  ASSUME RotationInv, CastDueQueuedSpell
  PROVE  RotationInv' /\ WakeKept
<1>1. /\ Top = "looking" /\ QueuedDue
      /\ stack' = Append(stack, Frame("press", queued.spell))
      /\ queued' = None /\ timers' = Without(timers, "queued")
      /\ UNCHANGED <<now, gcdAt, lookAt, cdAt, hc, pressed, wait, ops>>
  BY DEF CastDueQueuedSpell
<1>2. Stacked(stack) /\ Timed(timers) /\ queued # None /\ queued.spell \in Spells
  <2>1. queued # None
    BY <1>1 DEF QueuedDue, PickQueued
  <2> QED BY <2>1, InvFacts
<1>3. stack # <<>> /\ Last(stack).do = "looking"
  BY <1>1, <1>2, CallFacts
<1>4. MayCall(stack, "press", queued.spell)
  BY <1>2, <1>3 DEF MayCall, Frames
<1>5. Stacked(stack') /\ \A K : Called(stack', K) <=> Called(stack, K) \/ "press" \in K
  BY <1>1, <1>2, <1>4, PushFacts
<1>6. /\ Timed(timers') /\ ~Pending(timers', "queued")
      /\ \A u : Stands(timers, "look", u) => Stands(timers', "look", u)
  BY <1>1, <1>2, WithoutFacts
<1>7. Values(now', gcdAt', lookAt', cdAt', hc', queued', pressed', wait', ops')
  BY <1>1, InvFacts DEF Values
<1>8. Apt(now', gcdAt', lookAt', hc', queued', wait', timers', stack')
  BY <1>1, <1>5, <1>6, InvFacts DEF Apt, LookComes
<1>9. WakeKept
  BY <1>1, InvFacts DEF WakeKept
<1> QED BY <1>7, <1>8, <1>9 DEF RotationInv

\* A Wait arms its wake.
LEMMA WaitStartsKeeps ==
  ASSUME RotationInv, WaitStarts
  PROVE  RotationInv' /\ WakeKept
<1>1. /\ Top \in {"looking", "picking"} /\ wait = None /\ ops' = ops + 1
      /\ \/ \E d \in Waits : wait' = now + d /\ SetRotationTimer(timers, now + d)
         \/ wait' = Parked /\ UNCHANGED <<lookAt, timers>>
      /\ UNCHANGED <<now, gcdAt, cdAt, hc, queued, pressed, stack>>
  BY DEF WaitStarts, Looking, Counts
<1>2. /\ ops' \in Nat /\ now \in Nat /\ lookAt \in Nat /\ Stacked(stack)
  BY <1>1, InvFacts
<1>3. ~Called(stack, {"press"})
  <2>1. Top # "press"
    BY <1>1
  <2> QED BY <1>2, <2>1, CallFacts
<1>4. ASSUME NEW d \in Waits, wait' = now + d, SetRotationTimer(timers, now + d)
      PROVE  RotationInv' /\ WakeKept
  <2>1. d \in Nat /\ now + d \in Nat
    BY <1>2, SpellFacts
  <2>2. /\ lookAt' = now + d /\ Timed(timers') /\ Stands(timers', "look", lookAt')
        /\ Pending(timers', "queued") => Pending(timers, "queued")
    BY <1>4, <2>1, InvFacts, SetLookFacts
  <2>3. Values(now', gcdAt', lookAt', cdAt', hc', queued', pressed', wait', ops')
    BY <1>1, <1>2, <1>4, <2>1, <2>2, InvFacts DEF Values
  <2>4. InTime(lookAt', now, gcdAt, hc, wait')
    BY <1>4, <2>1, <2>2 DEF InTime
  <2>5. Apt(now', gcdAt', lookAt', hc', queued', wait', timers', stack')
    BY <1>1, <1>3, <2>2, <2>4, InvFacts DEF Apt, LookComes
  <2> QED BY <1>1, <2>3, <2>5 DEF RotationInv, WakeKept
<1>5. CASE wait' = Parked /\ UNCHANGED <<lookAt, timers>>
  <2>1. InTime(lookAt, now, gcdAt, hc, wait')
    <3>1. wait = None /\ None \notin Nat
      BY <1>1, SpellFacts
    <3> QED BY <3>1, InvFacts DEF InTime
  <2>2. Values(now', gcdAt', lookAt', cdAt', hc', queued', pressed', wait', ops')
    BY <1>1, <1>2, <1>5, InvFacts DEF Values
  <2>3. Apt(now', gcdAt', lookAt', hc', queued', wait', timers', stack')
    BY <1>1, <1>5, <2>1, InvFacts DEF Apt, LookComes
  <2> QED BY <1>1, <2>2, <2>3 DEF RotationInv, WakeKept
<1> QED BY <1>1, <1>4, <1>5

\* A Wait ends inside a look, which arms the next one.
LEMMA WaitOverKeeps ==
  ASSUME RotationInv, WaitOver
  PROVE  RotationInv' /\ WakeKept
<1>1. /\ wait # None /\ (wait \in Nat => wait <= now) /\ wait' = None
      /\ UNCHANGED <<now, gcdAt, lookAt, cdAt, hc, queued, pressed, timers, stack, ops>>
  BY DEF WaitOver
<1>2. InTime(lookAt, now, gcdAt, hc, None)
  <2>1. now \in Nat /\ lookAt \in Nat /\ Reaction \in Nat /\ InTime(lookAt, now, gcdAt, hc, wait)
    BY InvFacts, SpellFacts
  <2> QED BY <1>1, <2>1 DEF InTime
<1>3. Values(now', gcdAt', lookAt', cdAt', hc', queued', pressed', wait', ops')
  BY <1>1, InvFacts DEF Values
<1>4. Apt(now', gcdAt', lookAt', hc', queued', wait', timers', stack')
  BY <1>1, <1>2, InvFacts DEF Apt, LookComes
<1>5. WakeKept
  BY <1>1, InvFacts DEF WakeKept
<1> QED BY <1>3, <1>4, <1>5 DEF RotationInv

\* A look that ends has armed the next one.
LEMMA LookEndsKeeps ==
  ASSUME RotationInv, LookEnds
  PROVE  RotationInv' /\ WakeKept
<1>1. /\ Top = "looking" /\ stack' = Front(stack)
      /\ IF lookAt <= now THEN SetRotationTimer(timers, NextLook) ELSE UNCHANGED <<lookAt, timers>>
      /\ UNCHANGED <<now, gcdAt, cdAt, hc, queued, pressed, wait, ops>>
  BY DEF LookEnds
<1>2. Stacked(stack)
  BY InvFacts
<1>3. stack # <<>> /\ Last(stack).do = "looking"
  BY <1>1, <1>2, CallFacts
<1>4. /\ Stacked(stack') /\ ~Called(stack', {"press"})
      /\ Called(stack', {"complete"}) => Called(stack, {"complete"})
  BY <1>1, <1>2, <1>3, PopFacts
<1>5. CASE lookAt <= now
  <2>1. /\ now \in Nat /\ gcdAt \in Nat /\ lookAt \in Nat /\ Reaction \in Nat
        /\ hc # None => hc.ends \in Nat
        /\ wait' \in Nat \cup {None, Parked}
    BY <1>1, InvFacts, SpellFacts
  <2>2. NextLook \in Nat /\ InTime(NextLook, now, gcdAt, hc, wait')
    <3>1. CASE HoldsRotation
      <4>1. hc # None /\ NextLook = hc.ends
        BY <3>1 DEF NextLook, HoldsRotation, HardcastRuns
      <4> QED BY <2>1, <4>1 DEF InTime
    <3>2. CASE ~HoldsRotation
      <4> DEFINE a == now + Reaction
      <4>1. NextLook = Max({a, gcdAt}) /\ a \in Nat
        BY <2>1, <3>2 DEF NextLook
      <4> HIDE DEF a
      <4>2. Max({a, gcdAt}) \in {a, gcdAt}
        BY <2>1, <4>1, TimeFacts
      <4>3. NextLook \in Nat /\ (NextLook <= a \/ NextLook <= gcdAt)
        BY <2>1, <4>1, <4>2
      <4> QED BY <4>3 DEF InTime, a
    <3> QED BY <3>1, <3>2
  <2>3. wait # None /\ lookAt > now => NextLook <= lookAt
    BY <1>5, <2>1
  <2> HIDE DEF NextLook
  <2>4. SetRotationTimer(timers, NextLook)
    BY <1>1, <1>5
  <2> QED BY <1>1, <1>4, <2>1, <2>2, <2>3, <2>4, LookSetKeeps
<1>6. CASE ~(lookAt <= now)
  <2>1. Values(now', gcdAt', lookAt', cdAt', hc', queued', pressed', wait', ops')
    BY <1>1, <1>6, InvFacts DEF Values
  <2>2. Apt(now', gcdAt', lookAt', hc', queued', wait', timers', stack')
    BY <1>1, <1>4, <1>6, InvFacts DEF Apt, LookComes
  <2>3. WakeKept
    BY <1>1, <1>6, InvFacts DEF WakeKept
  <2> QED BY <2>1, <2>2, <2>3 DEF RotationInv
<1> QED BY <1>5, <1>6


-----------------------------------------------------------------------------
(* Class code, and what happens to the unit *)

\* Time passes between two actions.
LEMMA ClockKeeps ==
  ASSUME RotationInv, NEW t \in 0..Horizon, Clock(t)
  PROVE  RotationInv' /\ WakeKept
<1>1. /\ t > now /\ now' = t /\ pressed' = FALSE /\ stack = <<>> /\ t \in Nat
      /\ UNCHANGED <<gcdAt, lookAt, cdAt, hc, queued, wait, timers, stack, ops>>
  BY SpellFacts DEF Clock
<1>2. \A K : ~Called(<<>>, K)
  BY DEF Called
<1>3. InTime(lookAt, now', gcdAt, hc, wait)
  <2>1. now \in Nat /\ lookAt \in Nat /\ Reaction \in Nat
    BY InvFacts, SpellFacts
  <2>2. \A a, b, r, l \in Nat : b > a /\ l <= a + r => l <= b + r
    OBVIOUS
  <2>3. lookAt <= now + Reaction => lookAt <= now' + Reaction
    BY <1>1, <2>1, <2>2
  <2> QED BY <2>3, InvFacts DEF InTime
<1>4. Values(now', gcdAt', lookAt', cdAt', hc', queued', pressed', wait', ops')
  BY <1>1, InvFacts DEF Values
<1>5. Apt(now', gcdAt', lookAt', hc', queued', wait', timers', stack')
  BY <1>1, <1>2, <1>3, InvFacts DEF Apt, LookComes
<1>6. WakeKept
  BY <1>1, InvFacts DEF WakeKept
<1> QED BY <1>4, <1>5, <1>6 DEF RotationInv

\* Class code returns.
LEMMA ReturnsKeeps ==
  ASSUME RotationInv, Returns
  PROVE  RotationInv' /\ WakeKept
<1>1. /\ Top \in {"applying", "landing"} /\ stack' = Front(stack)
      /\ UNCHANGED <<now, gcdAt, lookAt, cdAt, hc, queued, pressed, wait, timers, ops>>
  BY DEF Returns
<1>2. Stacked(stack) /\ ops \in Nat
  BY InvFacts
<1>3. stack # <<>> /\ Last(stack).do \notin {"next", "looking"}
  <2>1. Top # "none" /\ Top \notin {"next", "looking"}
    BY <1>1
  <2> QED BY <1>2, <2>1, CallFacts
<1>4. Follows(stack')
  BY <1>1, <1>2, <1>3, ReturnFollows
<1> QED BY <1>1, <1>2, <1>4, CallsKeep

\* Class code runs with no press and no completion on top of the calls.
LEMMA ClassCodeFacts ==
  ASSUME RotationInv, ClassCode
  PROVE  /\ Stacked(stack) /\ ~Called(stack, {"press"})
         /\ stack # <<>> => Last(stack).do \notin {"press", "complete"}
         /\ Called(stack, {"complete"}) => InLoop
<1>1. Stacked(stack)
  BY InvFacts
<1>2. stack = <<>> \/ Top \in {"applying", "landing"}
  BY DEF ClassCode, Outside
<1>3. Top # "press" /\ Top # "complete" /\ (stack # <<>> => Top # "none" /\ Top = Last(stack).do)
  BY <1>2 DEF Top
<1>4. ~Called(stack, {"press"}) /\ (Called(stack, {"complete"}) => Within({"picking"}))
  BY <1>1, <1>3, CallFacts
<1>5. Within({"picking"}) => InLoop
  BY DEF Within, InLoop
<1> QED BY <1>1, <1>3, <1>4, <1>5

\* A reaction puts a look on top of the calls.
LEMMA ReactKeeps ==
  ASSUME RotationInv, NEW kind \in {"reactNow", "reactLater"}, React(kind)
  PROVE  RotationInv' /\ WakeKept
<1> DEFINE r == Append(stack, Frame(kind, None))
<1>1. /\ ClassCode /\ ops' = ops + 1 /\ stack' = DoNextAction(r, Due)
      /\ UNCHANGED <<now, gcdAt, lookAt, cdAt, hc, queued, pressed, wait, timers>>
  BY DEF React, Counts
<1>2. /\ Stacked(stack) /\ ~Called(stack, {"press"})
      /\ stack # <<>> => Last(stack).do \notin {"press", "complete"}
      /\ Called(stack, {"complete"}) => InLoop
  BY <1>1, ClassCodeFacts
<1>3. MayCall(stack, kind, None)
  BY <1>2 DEF MayCall, Frames
<1>4. /\ Stacked(r) /\ r # <<>> /\ Last(r) = Frame(kind, None)
      /\ \A K : Called(r, K) <=> Called(stack, K) \/ kind \in K
  BY <1>2, <1>3, PushFacts
<1> HIDE DEF r
<1>5. Due \in BOOLEAN /\ Last(r).do \notin {"press", "complete"} /\ ~Called(r, {"press"})
      /\ (Called(r, {"complete"}) => InLoop)
  BY <1>2, <1>4 DEF Due, Frame
<1> DEFINE x == DoNextAction(r, Due)
<1>6. /\ Stacked(x) /\ ~Called(x, {"press"}) /\ \A K : Called(r, K) => Called(x, K)
      /\ Called(x, {"complete"}) => Called(r, {"complete"}) \/ Due
  BY <1>2, <1>4, <1>5, NextFacts
<1> HIDE DEF x
<1>7. /\ Stacked(stack') /\ ~Called(stack', {"press"})
      /\ Called(stack', {"complete"}) => Called(stack, {"complete"}) \/ Due
      /\ Called(stack, {"next", "looking"}) => Called(stack', {"next", "looking"})
  BY <1>1, <1>4, <1>6 DEF x
<1>8. Due => hc # None /\ hc.ends <= now
  BY DEF Due
<1>9. ops' \in Nat
  BY <1>1, InvFacts
<1>10. Values(now', gcdAt', lookAt', cdAt', hc', queued', pressed', wait', ops')
  BY <1>1, <1>9, InvFacts DEF Values
<1>11. Apt(now', gcdAt', lookAt', hc', queued', wait', timers', stack')
  BY <1>1, <1>7, <1>8, InvFacts DEF Apt, LookComes
<1>12. WakeKept
  BY <1>1, InvFacts DEF WakeKept
<1> QED BY <1>10, <1>11, <1>12 DEF RotationInv

\* A reaction brings the next look forward, never back.
LEMMA ReactsKeeps ==
  ASSUME RotationInv, Reacts
  PROVE  RotationInv' /\ WakeKept
<1> DEFINE t == IF Top = "reactNow" THEN now ELSE now + Reaction
<1>1. /\ Top \in {"reactNow", "reactLater"} /\ stack' = Front(stack)
      /\ IF wait = None /\ lookAt > t THEN SetRotationTimer(timers, t) ELSE UNCHANGED <<lookAt, timers>>
      /\ UNCHANGED <<now, gcdAt, cdAt, hc, queued, pressed, wait, ops>>
  BY DEF Reacts
<1>2. /\ Stacked(stack) /\ ops \in Nat /\ now \in Nat /\ Reaction \in Nat
      /\ wait \in Nat \cup {None, Parked} /\ lookAt \in Nat
  BY InvFacts, SpellFacts
<1>3. stack # <<>> /\ Last(stack).do \notin {"next", "looking"}
  <2>1. Top # "none" /\ Top \notin {"next", "looking"}
    BY <1>1
  <2> QED BY <1>2, <2>1, CallFacts
<1>4. Follows(stack')
  BY <1>1, <1>2, <1>3, ReturnFollows
<1>5. CASE wait = None /\ lookAt > t
  <2>1. t \in Nat /\ InTime(t, now, gcdAt, hc, wait')
    BY <1>2 DEF InTime
  <2> HIDE DEF t
  <2> QED BY <1>1, <1>2, <1>4, <1>5, <2>1, LookSetKeeps DEF Follows
<1>6. CASE ~(wait = None /\ lookAt > t)
  BY <1>1, <1>2, <1>4, <1>6, CallsKeep
<1> QED BY <1>5, <1>6

\* Where class code sets the GCD, as it may on what is left of the queue.
LEMMA GcdSetKeeps ==
  ASSUME RotationInv, ClassCode, UNCHANGED <<now, cdAt, wait, stack>>,
         NEW q, Timed(q), Stands(timers, "look", lookAt) => Stands(q, "look", lookAt),
         NEW t \in Nat, SetGCDTimer(q, t),
         queued' \in {queued, None}, Pending(q, "queued") => queued' # None,
         pressed' \in BOOLEAN, ops' \in Nat,
         hc' = hc \/ (hc' = None /\ ~Called(stack, {"complete"}))
  PROVE  RotationInv' /\ WakeKept
<1>1. HoldsGCD(t) /\ timers' = LookBy(q, t)
  BY DEF SetGCDTimer
<1>2. /\ gcdAt' = t /\ lookAt' \in Nat /\ lookAt' <= gcdAt' /\ WakeKept
      /\ Timed(timers') /\ Stands(timers', "look", lookAt')
      /\ Pending(timers', "queued") => Pending(q, "queued")
  BY <1>1, GcdFacts
<1>3. ~Called(stack, {"press"})
  BY ClassCodeFacts
<1>4. queued' \in QueuedType \cup {None} /\ hc' \in CastType \cup {None}
  BY InvFacts
<1>5. Values(now', gcdAt', lookAt', cdAt', hc', queued', pressed', wait', ops')
  BY <1>2, <1>4, InvFacts DEF Values
<1>6. Apt(now', gcdAt', lookAt', hc', queued', wait', timers', stack')
  <2>1. InTime(lookAt', now, gcdAt', hc', wait')
    BY <1>2 DEF InTime
  <2>2. Called(stack, {"complete"}) => hc' # None /\ hc'.ends <= now
    BY InvFacts
  <2> QED BY <1>2, <1>3, <2>1, <2>2, InvFacts DEF Apt, LookComes
<1> QED BY <1>2, <1>5, <1>6 DEF RotationInv

\* An interruption ends the hardcast and drops the queued spell.
LEMMA InterruptKeeps ==
  ASSUME RotationInv, Interrupt
  PROVE  RotationInv' /\ WakeKept
<1> DEFINE q == Without(timers, "queued")
<1>1. /\ ClassCode /\ ops' = ops + 1 /\ queued' = None /\ pressed' = FALSE
      /\ IF ~CastOver THEN hc' = None /\ SetGCDTimer(q, now + Reaction)
                      ELSE timers' = q /\ UNCHANGED <<hc, gcdAt, lookAt>>
      /\ UNCHANGED <<now, cdAt, wait, stack>>
  BY DEF Interrupt, Counts, NoneQueued
<1>2. Timed(q) /\ (Stands(timers, "look", lookAt) => Stands(q, "look", lookAt)) /\ ~Pending(q, "queued")
  BY InvFacts, WithoutFacts
<1>3. ops' \in Nat /\ now + Reaction \in Nat
  <2>1. ops \in Nat /\ now \in Nat /\ Reaction \in Nat
    BY InvFacts, SpellFacts
  <2> QED BY <1>1, <2>1
<1> HIDE DEF q
<1>4. CASE ~CastOver
  <2>1. ~Called(stack, {"complete"})
    <3>1. hc # None /\ ~(hc.ends <= now)
      BY <1>4 DEF CastOver
    <3> QED BY <3>1, InvFacts
  <2> QED BY <1>1, <1>2, <1>3, <1>4, <2>1, GcdSetKeeps
<1>5. CASE CastOver
  <2>1. timers' = q /\ UNCHANGED <<hc, gcdAt, lookAt>>
    BY <1>1, <1>5
  <2>2. ~Called(stack, {"press"})
    BY <1>1, ClassCodeFacts
  <2>3. Values(now', gcdAt', lookAt', cdAt', hc', queued', pressed', wait', ops')
    BY <1>1, <1>3, <2>1, InvFacts DEF Values
  <2>4. Apt(now', gcdAt', lookAt', hc', queued', wait', timers', stack')
    BY <1>1, <1>2, <2>1, <2>2, InvFacts DEF Apt, LookComes
  <2>5. WakeKept
    BY <2>1, InvFacts DEF WakeKept
  <2> QED BY <2>3, <2>4, <2>5 DEF RotationInv
<1> QED BY <1>4, <1>5

\* The GCD is extended, and a Wait keeps its wake.
LEMMA ExtendKeeps ==
  ASSUME RotationInv, ExtendGCDUntil
  PROVE  RotationInv' /\ WakeKept
<1>1. PICK s \in Spells : GcdOf(s) > 0 /\ SetGCDTimer(timers, Max({gcdAt, now + GcdOf(s)}))
  BY DEF ExtendGCDUntil
<1>2. ClassCode /\ ops' = ops + 1 /\ UNCHANGED <<now, cdAt, hc, queued, pressed, wait, stack>>
  BY DEF ExtendGCDUntil, Counts
<1> DEFINE a == now + GcdOf(s)
           t == Max({gcdAt, a})
<1>3. gcdAt \in Nat /\ a \in Nat /\ ops' \in Nat
  <2>1. now \in Nat /\ ops \in Nat /\ gcdAt \in Nat /\ GcdOf(s) \in Nat
    BY InvFacts, SpellFacts
  <2> QED BY <1>2, <2>1
<1>4. SetGCDTimer(timers, t)
  BY <1>1
<1> HIDE DEF a, t
<1>5. t \in Nat
  <2>1. \A b, c \in Int : Max({b, c}) \in {b, c}
    BY TimeFacts
  <2>2. gcdAt \in Int /\ a \in Int
    BY <1>3
  <2>3. Max({gcdAt, a}) \in {gcdAt, a}
    BY <2>1, <2>2
  <2> QED BY <1>3, <2>3 DEF t
<1>6. /\ Timed(timers) /\ pressed' \in BOOLEAN /\ (Pending(timers, "queued") => queued' # None)
  BY <1>2, InvFacts
<1> QED BY <1>2, <1>3, <1>4, <1>5, <1>6, GcdSetKeeps

\* A pushback moves the end of the hardcast.
LEMMA PushBackKeeps ==
  ASSUME RotationInv, PushBack
  PROVE  RotationInv' /\ WakeKept
<1> DEFINE a == now + CastTimeOf(hc.spell) - hc.ends
           by == Min({Pushback, a})
           ends == hc.ends + by
<1>1. /\ stack = <<>> /\ ~CastOver /\ ops' = ops + 1 /\ by > 0
      /\ hc' = [hc EXCEPT !.ends = @ + by] /\ timers' = Arm(timers, "land", ends)
      /\ UNCHANGED <<now, gcdAt, lookAt, cdAt, queued, pressed, wait, stack>>
  BY DEF PushBack, Outside, Counts
<1>2. hc \in CastType /\ hc # None /\ hc.spell \in Spells /\ hc.ends \in Nat
  BY <1>1, InvFacts DEF CastOver
<1>3. ends \in Nat /\ ops' \in Nat /\ ends > hc.ends
  <2>1. now \in Nat /\ CastTimeOf(hc.spell) \in Nat /\ Pushback \in Nat /\ ops \in Nat
    BY <1>2, InvFacts, SpellFacts
  <2>2. a \in Int
    BY <1>2, <2>1
  <2> HIDE DEF a
  <2>3. by \in Int
    <3>1. Min({Pushback, a}) \in {Pushback, a}
      BY <2>1, <2>2, TimeFacts
    <3> QED BY <2>1, <2>2, <3>1
  <2> HIDE DEF by
  <2> QED BY <1>1, <1>2, <2>1, <2>3
<1> HIDE DEF ends, by
<1>4. hc' \in CastType /\ hc'.ends = ends
  BY <1>1, <1>2, <1>3 DEF CastType, ends
<1>5. /\ Timed(timers') /\ (Stands(timers, "look", lookAt) => Stands(timers', "look", lookAt))
      /\ Pending(timers', "queued") => Pending(timers, "queued")
  <2>1. "land" \in Kinds /\ "look" # "land" /\ "queued" # "land" /\ Timed(timers)
    BY InvFacts DEF Kinds
  <2> QED BY <1>1, <1>3, <2>1, ArmFacts
<1>6. InTime(lookAt, now, gcdAt, hc', wait)
  <2>1. lookAt \in Nat /\ InTime(lookAt, now, gcdAt, hc, wait) /\ hc' # None
    BY <1>4, InvFacts, SpellFacts
  <2>2. lookAt <= hc.ends => lookAt <= hc'.ends
    BY <1>2, <1>3, <1>4, <2>1
  <2> QED BY <2>1, <2>2 DEF InTime
<1>7. \A K : ~Called(<<>>, K)
  BY DEF Called
<1>8. Values(now', gcdAt', lookAt', cdAt', hc', queued', pressed', wait', ops')
  BY <1>1, <1>3, <1>4, InvFacts DEF Values
<1>9. Apt(now', gcdAt', lookAt', hc', queued', wait', timers', stack')
  BY <1>1, <1>5, <1>6, <1>7, InvFacts DEF Apt, LookComes
<1>10. WakeKept
  BY <1>1, InvFacts DEF WakeKept
<1> QED BY <1>8, <1>9, <1>10 DEF RotationInv

-----------------------------------------------------------------------------
(* The rotation never sleeps *)

\* The first look is on the queue.
LEMMA RotationStarts ==
  ASSUME RotationInit
  PROVE  RotationInv
<1>1. /\ now = 0 /\ gcdAt = 0 /\ lookAt = 0 /\ cdAt = [s \in Spells |-> 0]
      /\ hc = None /\ queued = None /\ pressed = FALSE /\ wait = None
      /\ timers = <<[what |-> "look", at |-> 0]>> /\ stack = <<>> /\ ops = 0
  BY DEF RotationInit
<1>2. Reaction \in Nat
  BY SpellFacts
<1>3. Values(now, gcdAt, lookAt, cdAt, hc, queued, pressed, wait, ops)
  BY <1>1 DEF Values
<1>4. Timed(timers) /\ Stands(timers, "look", lookAt) /\ ~Pending(timers, "queued")
  <2>1. [what |-> "look", at |-> 0] \in TimerType
    BY DEF TimerType, Kinds
  <2>2. timers \in Seq(TimerType) /\ Len(timers) = 1 /\ timers[1] = [what |-> "look", at |-> 0]
    BY <1>1, <2>1
  <2> QED BY <1>1, <2>2 DEF Timed, Stands, Pending
<1>5. Stacked(stack) /\ \A K : ~Called(stack, K)
  <2>1. Len(<<>>) = 0 /\ <<>> \in Seq(FrameType)
    OBVIOUS
  <2> QED BY <1>1, <2>1 DEF Stacked, Called
<1>6. InTime(lookAt, now, gcdAt, hc, wait)
  BY <1>1, <1>2 DEF InTime
<1> QED BY <1>3, <1>4, <1>5, <1>6 DEF RotationInv, Apt, LookComes

\* Every step keeps the invariant, and the wake of a Wait that goes on.
LEMMA RotationKeeps ==
  ASSUME RotationInv, [RotationNext]_rotationVars
  PROVE  RotationInv' /\ WakeKept
<1>1. CASE RotationNext
  BY <1>1, RotationLooksKeeps, HardcastLandsKeeps, QueuedFiresKeeps, PressKeeps, FiredKeeps,
     PickBeginsKeeps, LandsUnpickedKeeps, PickEndsKeeps, LookBeginsKeeps, CastDueQueuedSpellKeeps,
     WaitStartsKeeps, WaitOverKeeps, LookEndsKeeps, CastsNowKeeps, QueuesKeeps, ClockKeeps,
     ReturnsKeeps, ReactsKeeps, ReactKeeps, InterruptKeeps, ExtendKeeps, PushBackKeeps
  DEF RotationNext
<1>2. CASE UNCHANGED rotationVars
  <2>1. /\ now' = now /\ gcdAt' = gcdAt /\ lookAt' = lookAt /\ cdAt' = cdAt /\ hc' = hc
        /\ queued' = queued /\ pressed' = pressed /\ wait' = wait /\ timers' = timers
        /\ stack' = stack /\ ops' = ops
    BY <1>2 DEF rotationVars
  <2>2. Values(now', gcdAt', lookAt', cdAt', hc', queued', pressed', wait', ops')
    BY <2>1 DEF RotationInv
  <2>3. Apt(now', gcdAt', lookAt', hc', queued', wait', timers', stack')
    BY <2>1 DEF RotationInv
  <2>4. WakeKept
    BY <2>1, InvFacts DEF WakeKept
  <2> QED BY <2>2, <2>3, <2>4 DEF RotationInv
<1> QED BY <1>1, <1>2

\* The invariant gives what NeverAsleep says of a state.
LEMMA RotationAwake ==
  ASSUME RotationInv
  PROVE  RotationTypeOK /\ Awake
<1>1. /\ now \in Nat /\ gcdAt \in Nat /\ lookAt \in Nat /\ ops \in Nat /\ cdAt \in [Spells -> Nat]
      /\ hc \in CastType \cup {None} /\ queued \in QueuedType \cup {None}
      /\ pressed \in BOOLEAN /\ wait \in Nat \cup {None, Parked}
      /\ Stacked(stack) /\ Timed(timers)
      /\ LookComes(timers, lookAt, now, stack) /\ InTime(lookAt, now, gcdAt, hc, wait)
      /\ hc # None => hc.spell \in Spells /\ hc.ends \in Nat
  BY InvFacts
<1>2. RotationTypeOK
  <2>1. /\ hc = None \/ (hc.spell \in Spells /\ hc.ends \in Nat)
        /\ queued = None \/ (queued.spell \in Spells /\ queued.at \in Nat /\ queued.after \in BOOLEAN)
    BY <1>1 DEF QueuedType
  <2>2. /\ \A i \in DOMAIN timers : timers[i].what \in {"look", "land", "queued"}
        /\ \A i, j \in DOMAIN timers : timers[i].what = timers[j].what => i = j
    <3>1. timers \in Seq(TimerType) /\ \A i, j \in 1..Len(timers) : timers[i].what = timers[j].what => i = j
      BY <1>1 DEF Timed
    <3>2. DOMAIN timers = 1..Len(timers) /\ \A i \in 1..Len(timers) : timers[i] \in TimerType
      BY <3>1
    <3> QED BY <3>1, <3>2 DEF TimerType, Kinds
  <2>3. \A i \in DOMAIN stack : stack[i].do \in Frames /\ stack[i].spell \in Spells \cup {None}
    <3>1. stack \in Seq(FrameType)
      BY <1>1 DEF Stacked
    <3>2. \A i \in DOMAIN stack : stack[i] \in FrameType
      BY <3>1
    <3> QED BY <3>2 DEF FrameType
  <2>4. {now, gcdAt, lookAt, ops} \subseteq Nat
    BY <1>1
  <2> QED BY <1>1, <2>1, <2>2, <2>3, <2>4 DEF RotationTypeOK
<1>3. ASSUME stack = <<>> PROVE IsArmed("look", lookAt)
  <2>1. ~Called(<<>>, {"next", "looking"})
    BY DEF Called
  <2>2. Stands(timers, "look", lookAt)
    BY <1>1, <1>3, <2>1 DEF LookComes
  <2>3. DOMAIN timers = 1..Len(timers)
    BY <1>1 DEF Timed
  <2> QED BY <2>2, <2>3 DEF Stands, IsArmed
<1>4. lookAt <= Max({now + Reaction, gcdAt}
                       \cup (IF hc = None THEN {} ELSE {hc.ends})
                       \cup (IF wait \in Nat THEN {wait} ELSE {}))
  <2> DEFINE T == {now + Reaction, gcdAt} \cup (IF hc = None THEN {} ELSE {hc.ends})
                                          \cup (IF wait \in Nat THEN {wait} ELSE {})
             a == now + Reaction
             c == IF hc = None THEN gcdAt ELSE hc.ends
             d == IF wait \in Nat THEN wait ELSE gcdAt
  <2>1. /\ T = {a, gcdAt, c, d} /\ a \in Nat /\ c \in Nat /\ d \in Nat
        /\ lookAt <= a \/ lookAt <= gcdAt \/ lookAt <= c \/ lookAt <= d
    <3>1. Reaction \in Nat
      BY SpellFacts
    <3>2. a \in Nat /\ c \in Nat /\ d \in Nat
      BY <1>1, <3>1
    <3>3. T = {a, gcdAt, c, d}
      OBVIOUS
    <3>4. lookAt <= a \/ lookAt <= gcdAt \/ lookAt <= c \/ lookAt <= d
      BY <1>1 DEF InTime
    <3> QED BY <3>2, <3>3, <3>4
  <2> HIDE DEF T, a, c, d
  <2>2. LET m == Max({a, gcdAt, c, d})
        IN  m \in {a, gcdAt, c, d} /\ m >= a /\ m >= gcdAt /\ m >= c /\ m >= d
    <3>1. \A w, x, y, z \in Int :
             LET m == Max({w, x, y, z})
             IN  m \in {w, x, y, z} /\ m >= w /\ m >= x /\ m >= y /\ m >= z
      BY TimeFacts
    <3>2. a \in Int /\ gcdAt \in Int /\ c \in Int /\ d \in Int
      BY <1>1, <2>1
    <3> QED BY <3>1, <3>2
  <2>3. lookAt <= Max(T)
    <3> DEFINE m == Max({a, gcdAt, c, d})
    <3>1. m = Max(T) /\ m \in Nat /\ m >= a /\ m >= gcdAt /\ m >= c /\ m >= d
      BY <1>1, <2>1, <2>2
    <3> HIDE DEF m
    <3> QED BY <1>1, <2>1, <3>1
  <2> QED BY <2>3 DEF T
<1> QED BY <1>2, <1>3, <1>4 DEF Awake

\* The clock does not go back.
LEMMA NowGrows ==
  ASSUME RotationInv, [RotationNext]_rotationVars
  PROVE  now' \in Nat /\ now <= now'
<1>1. now \in Nat
  BY InvFacts
<1>2. ASSUME NEW w, Pops(w) PROVE now' \in Nat /\ now <= now'
  BY <1>2, PopsFacts
<1>3. ASSUME NEW t \in 0..Horizon, Clock(t) PROVE now' \in Nat /\ now <= now'
  BY <1>1, <1>3 DEF Clock
<1>4. RotationLooks \/ HardcastLands \/ QueuedFires \/ (\E t \in 0..Horizon : Clock(t)) \/ now' = now
  BY DEF RotationNext, rotationVars, Press, Fired, PickBegins, LandsUnpicked, PickEnds, Completes,
         LookBegins, CastDueQueuedSpell, WaitStarts, WaitOver, LookEnds, CastsNow, Queues,
         Returns, Reacts, React, Interrupt, ExtendGCDUntil, PushBack
<1> QED BY <1>1, <1>2, <1>3, <1>4 DEF RotationLooks, HardcastLands, QueuedFires

\* The invariant holds of every state of the rotation.
LEMMA RotationInvariant == RotationSpec => []RotationInv
<1>1. RotationInv /\ [RotationNext]_rotationVars => RotationInv'
  BY RotationKeeps
<1> QED BY <1>1, RotationStarts, PTL DEF RotationSpec

\* However looks, landings, reactions and interruptions interleave, between two
\* events the rotation's next look is armed, when its timer says and in time, and a
\* Wait's wake is not put off (SetRotationTimer, SetGCDTimer, DoNextAction).
THEOREM RotationNeverAsleep == RotationSpec => NeverAsleep
<1>1. RotationInv => RotationTypeOK /\ Awake
  BY RotationAwake
<1>2. RotationInv /\ [RotationNext]_rotationVars
      => [wait # None /\ wait' = wait /\ lookAt > now' => lookAt' <= lookAt]_rotationVars
  <2> SUFFICES ASSUME RotationInv, [RotationNext]_rotationVars, lookAt > now', wait # None
               PROVE  lookAt' <= lookAt
    BY DEF RotationInv
  <2>1. RotationInv' /\ WakeKept
    BY RotationKeeps
  <2>2. lookAt > now
    BY NowGrows, InvFacts
  <2> QED BY <2>1, <2>2 DEF WakeKept
<1> QED BY <1>1, <1>2, RotationInvariant, PTL DEF NeverAsleep, RotationSpec


-----------------------------------------------------------------------------
(* The spell queued after a hardcast goes first *)

FirstOf ==
    /\ \A s \in Spells : Starts(s) => EffectiveTime(s) = 0 \/ s \in Major
    /\ queued' = None => GoesOff \/ Interrupt \/ \E s \in Major : Starts(s)

\* While the pick waits, nothing completes and nothing is pressed.
LEMMA PickFacts ==
  ASSUME RotationInv, PickWaits
  PROVE  /\ hc = None /\ queued # None /\ queued.after /\ CastOver
         /\ Top \notin {"press", "complete", "picking"}
         /\ \A s : HeldByQueuedSpell(s) = (EffectiveTime(s) > 0 /\ s \notin Major)
<1>1. hc = None /\ queued # None /\ queued.after /\ PickQueued /\ CastOver
  BY DEF PickWaits, PickQueued, CastOver
<1>2. Stacked(stack) /\ ~Called(stack, {"complete"}) /\ ~Called(stack, {"press"})
  BY <1>1, InvFacts
<1>3. Top \notin {"press", "complete", "picking"}
  <2>1. Top # "none" => Called(stack, {Top})
    BY <1>2, CallFacts
  <2>2. Top # "picking"
    BY <1>2, CallFacts
  <2> QED BY <1>2, <2>1, <2>2
<1> QED BY <1>1, <1>3 DEF HeldByQueuedSpell

\* Where nothing starts and the queued spell stays.
LEMMA QuietFirst ==
  ASSUME RotationInv, PickWaits, hc' = None, queued' = queued,
         ~(Len(stack') > Len(stack)) \/ Last(stack').do # "applying"
  PROVE  FirstOf
<1>1. \A s : Last(stack') = Frame("applying", s) => Last(stack').do = "applying"
  BY DEF Frame
<1>2. queued' # None
  BY PickFacts
<1> QED BY <1>1, <1>2 DEF FirstOf, Starts

\* The calls after a return, and after another.
LEMMA ReturnIsShorter ==
  ASSUME Stacked(stack), stack # <<>>
  PROVE  ~(Len(Front(stack)) > Len(stack))
<1>1. stack \in Seq(FrameType)
  BY DEF Stacked
<1>2. Len(stack) \in Nat /\ Len(Front(stack)) = Len(stack) - 1
  BY <1>1, TopFacts
<1> QED BY <1>2

\* A call that is put on top.
LEMMA AppendFacts ==
  ASSUME NEW st \in Seq(FrameType), NEW f \in FrameType
  PROVE  /\ Append(st, f) \in Seq(FrameType) /\ Len(Append(st, f)) = Len(st) + 1 /\ Last(Append(st, f)) = f
         /\ Append(st, f) # <<>> /\ st \o <<f>> \o <<>> = Append(st, f)
<1> DEFINE S == FrameType
<1>1. st \in Seq(S) /\ f \in S
  OBVIOUS
<1> HIDE DEF S
<1>2. /\ Append(st, f) \in Seq(S) /\ Len(Append(st, f)) = Len(st) + 1 /\ Last(Append(st, f)) = f
      /\ Append(st, f) # <<>> /\ st \o <<f>> \o <<>> = Append(st, f)
  BY <1>1 DEF Last
<1> QED BY <1>2 DEF S

\* The look and the landing come: no spell starts there.
LEMMA EventsFirst ==
  ASSUME RotationInv, PickWaits, RotationLooks \/ HardcastLands \/ QueuedFires
  PROVE  FirstOf
<1>1. hc = None /\ queued # None /\ stack = <<>> /\ hc' = hc /\ queued.spell \in Spells
  <2>1. hc = None /\ queued # None
    BY PickFacts
  <2> QED BY <2>1, InvFacts DEF RotationLooks, HardcastLands, QueuedFires, Pops
<1>2. <<>> \in Seq(FrameType) /\ Frame("next", None) \in FrameType
      /\ Frame("press", queued.spell) \in FrameType
  <2>1. <<>> \in Seq(FrameType)
    OBVIOUS
  <2> QED BY <1>1, <2>1 DEF Frame, FrameType, Frames
<1>3. CASE RotationLooks
  <2>1. stack' = <<>> \o <<Frame("next", None)>> \o <<>> /\ queued' = queued
    BY <1>1, <1>3 DEF RotationLooks, DoNextAction, InLoop, Within
  <2>2. Last(stack').do # "applying"
    <3> DEFINE f == Frame("next", None)
    <3>1. f \in FrameType /\ stack' = <<>> \o <<f>> \o <<>> /\ f.do # "applying"
      BY <1>2, <2>1 DEF Frame
    <3> HIDE DEF f
    <3>2. stack' = Append(<<>>, f) /\ Last(Append(<<>>, f)) = f
      BY <1>2, <3>1, AppendFacts
    <3> QED BY <3>1, <3>2
  <2> QED BY <1>1, <2>1, <2>2, QuietFirst
<1>4. CASE HardcastLands
  <2>1. stack' = stack /\ queued' = queued
    BY <1>1, <1>4 DEF HardcastLands
  <2>2. ~(Len(stack') > Len(stack))
    <3>1. Len(<<>>) = 0
      OBVIOUS
    <3> QED BY <1>1, <2>1, <3>1
  <2> QED BY <1>1, <2>1, <2>2, QuietFirst
<1>5. CASE QueuedFires
  <2>1. stack' = <<Frame("press", queued.spell)>> /\ queued' = None
    BY <1>5 DEF QueuedFires
  <2>2. stack' = Append(<<>>, Frame("press", queued.spell))
    BY <2>1
  <2>3. stack' # <<>> /\ Last(stack') = Frame("press", queued.spell)
    BY <1>2, <2>2, AppendFacts
  <2>4. \A s : Last(stack') # Frame("applying", s)
    BY <2>3 DEF Frame
  <2> QED BY <1>1, <2>1, <2>3, <2>4 DEF FirstOf, Starts, GoesOff
<1> QED BY <1>3, <1>4, <1>5

\* A spell that the rotation casts meanwhile is a major cooldown, or starts nothing.
LEMMA CastsNowFirst ==
  ASSUME RotationInv, PickWaits, NEW s \in Spells, CastsNow(s)
  PROVE  FirstOf
<1>1. EffectiveTime(s) \in Nat /\ CastTimeOf(s) \in Nat
  BY EffectiveFacts
<1>2. ~HeldByQueuedSpell(s) /\ Cast(s, stack)
  BY DEF CastsNow, MayGo, IsReady
<1>3. EffectiveTime(s) = 0 \/ s \in Major
  <2>1. ~(EffectiveTime(s) > 0 /\ s \notin Major)
    BY <1>2, PickFacts
  <2> QED BY <1>1, <2>1
<1>4. hc = None /\ queued # None
  BY PickFacts
<1>5. queued' = queued \/ (queued' = None /\ EffectiveTime(s) > 0)
  BY <1>2 DEF Cast, Unqueues, NoneQueued, Drops
<1>6. CASE CastTimeOf(s) > 0
  <2>1. stack' = stack /\ hc'.spell = s /\ \E n : hc' = [spell |-> s, ends |-> n] /\ n \in Nat
    <3>1. stack' = stack /\ hc' = [spell |-> s, ends |-> now + CastTimeOf(s)]
      BY <1>2, <1>6 DEF Cast
    <3>2. now + CastTimeOf(s) \in Nat
      BY <1>1, InvFacts
    <3> QED BY <3>1, <3>2
  <2>2. hc' # None
    BY <2>1, SpellFacts DEF CastType
  <2>3. Starts(s)
    BY <2>1, <2>2 DEF Starts
  <2>4. ~(Len(stack') > Len(stack))
    <3>1. stack \in Seq(FrameType)
      BY InvFacts DEF Stacked
    <3>2. Len(stack) \in Nat
      BY <3>1
    <3> QED BY <2>1, <3>2
  <2>5. \A x \in Spells : Starts(x) => x = s
    BY <1>5, <2>1, <2>4 DEF Starts
  <2> QED BY <1>3, <1>4, <1>5, <2>3, <2>5 DEF FirstOf
<1>7. CASE ~(CastTimeOf(s) > 0)
  <2>1. stack' = Append(stack, Frame("applying", s)) /\ hc' = hc
    BY <1>2, <1>7 DEF Cast
  <2>2. stack \in Seq(FrameType) /\ Frame("applying", s) \in FrameType
    BY InvFacts DEF Stacked, Frame, FrameType, Frames
  <2>3. Len(stack') > Len(stack) /\ Last(stack') = Frame("applying", s)
    <3>1. Len(stack') = Len(stack) + 1 /\ Last(stack') = Frame("applying", s) /\ Len(stack) \in Nat
      BY <2>1, <2>2, AppendFacts
    <3> QED BY <3>1
  <2>4. Starts(s)
    BY <2>3 DEF Starts
  <2>5. \A x \in Spells : Starts(x) => x = s
    <3>1. \A x : Frame("applying", x) = Frame("applying", s) => x = s
      BY DEF Frame
    <3> QED BY <1>4, <1>5, <2>1, <2>3, <3>1 DEF Starts
  <2> QED BY <1>1, <1>3, <1>4, <1>5, <2>4, <2>5 DEF FirstOf
<1> QED BY <1>6, <1>7

\* A spell that the rotation queues meanwhile is a major cooldown, or starts nothing.
LEMMA QueuesFirst ==
  ASSUME RotationInv, PickWaits, NEW s \in Spells, Queues(s)
  PROVE  FirstOf
<1>1. EffectiveTime(s) \in Nat
  BY EffectiveFacts
<1>2. ~HeldByQueuedSpell(s) /\ QueueSpell(s) /\ hc' = hc /\ stack' = stack
  BY DEF Queues, MayGo, IsReady
<1>3. EffectiveTime(s) = 0 \/ s \in Major
  <2>1. ~(EffectiveTime(s) > 0 /\ s \notin Major)
    BY <1>2, PickFacts
  <2> QED BY <1>1, <2>1
<1>4. queued' # None /\ queued'.spell = s
  BY <1>2, QueueFacts
<1>5. ~(Len(stack') > Len(stack))
  <2>1. stack \in Seq(FrameType)
    BY InvFacts DEF Stacked
  <2>2. Len(stack) \in Nat
    BY <2>1
  <2> QED BY <1>2, <2>2
<1>6. \A x \in Spells : Starts(x) => x = s
  BY <1>2, <1>4, <1>5, PickFacts DEF Starts
<1> QED BY <1>3, <1>4, <1>6 DEF FirstOf

\* The queued spell goes off.
LEMMA CastDueFirst ==
  ASSUME RotationInv, PickWaits, CastDueQueuedSpell
  PROVE  FirstOf
<1>1. stack' = Append(stack, Frame("press", queued.spell)) /\ queued' = None /\ hc' = hc
  BY DEF CastDueQueuedSpell
<1>2. hc = None /\ queued.spell \in Spells
  BY PickFacts, InvFacts
<1>3. stack \in Seq(FrameType) /\ Frame("press", queued.spell) \in FrameType
  BY <1>2, InvFacts DEF Stacked, Frame, FrameType, Frames
<1>4. stack' # <<>> /\ Last(stack') = Frame("press", queued.spell)
  BY <1>1, <1>3, AppendFacts
<1>5. \A s : Last(stack') # Frame("applying", s)
  BY <1>4 DEF Frame
<1> QED BY <1>1, <1>2, <1>4, <1>5 DEF FirstOf, Starts, GoesOff

\* A reaction looks first.
LEMMA ReactFirst ==
  ASSUME RotationInv, PickWaits, NEW kind \in {"reactNow", "reactLater"}, React(kind)
  PROVE  FirstOf
<1> DEFINE r == Append(stack, Frame(kind, None))
<1>1. hc = None /\ hc' = hc /\ queued' = queued /\ stack' = DoNextAction(r, Due) /\ ~Due
  BY PickFacts DEF React, Due
<1>2. stack \in Seq(FrameType) /\ Frame(kind, None) \in FrameType /\ Frame("next", None) \in FrameType
  BY InvFacts DEF Stacked, Frame, FrameType, Frames
<1>3. r \in Seq(FrameType) /\ Last(r) = Frame(kind, None)
  BY <1>2, AppendFacts
<1> HIDE DEF r
<1>4. stack' = r \/ stack' = r \o <<Frame("next", None)>> \o <<>>
  BY <1>1 DEF DoNextAction
<1>5. Last(stack') \in {Frame(kind, None), Frame("next", None)}
  <2> DEFINE f == Frame("next", None)
  <2>1. f \in FrameType /\ (stack' = r \/ stack' = r \o <<f>> \o <<>>)
    BY <1>2, <1>4
  <2> HIDE DEF f
  <2>2. r \o <<f>> \o <<>> = Append(r, f) /\ Last(Append(r, f)) = f
    BY <1>3, <2>1, AppendFacts
  <2>3. Last(stack') = Last(r) \/ Last(stack') = f
    BY <2>1, <2>2
  <2> QED BY <1>3, <2>3 DEF f
<1>6. Last(stack').do # "applying"
  BY <1>5 DEF Frame
<1> QED BY <1>1, <1>6, QuietFirst

\* Where a call returns.
LEMMA ReturnFirst ==
  ASSUME RotationInv, PickWaits, Fired \/ LookEnds \/ Returns \/ Reacts
  PROVE  FirstOf
<1>1. Top # "none" /\ stack' = Front(stack) /\ hc' = hc /\ queued' = queued
  BY DEF Fired, LookEnds, Returns, Reacts
<1>2. ~(Len(stack') > Len(stack))
  BY <1>1, InvFacts, CallFacts, ReturnIsShorter
<1> QED BY <1>1, <1>2, PickFacts, QuietFirst

\* Where a look begins.
LEMMA LookBeginsFirst ==
  ASSUME RotationInv, PickWaits, LookBegins
  PROVE  FirstOf
<1>1. /\ Top # "none" /\ hc' = hc /\ queued' = queued
      /\ stack' = Front(stack) \/ stack' = Append(Front(stack), Frame("looking", None))
  BY DEF LookBegins
<1>2. Stacked(stack) /\ stack # <<>>
  BY <1>1, InvFacts, CallFacts
<1>3. ~(Len(stack') > Len(stack)) \/ Last(stack').do # "applying"
  <2>1. CASE stack' = Front(stack)
    BY <1>2, <2>1, ReturnIsShorter
  <2>2. CASE stack' = Append(Front(stack), Frame("looking", None))
    <3>1. Front(stack) \in Seq(FrameType) /\ Frame("looking", None) \in FrameType
      BY <1>2, PopFacts DEF Stacked, Frame, FrameType, Frames
    <3>2. Last(stack') = Frame("looking", None)
      BY <2>2, <3>1, AppendFacts
    <3> QED BY <3>2 DEF Frame
  <2> QED BY <1>1, <2>1, <2>2
<1> QED BY <1>1, <1>3, PickFacts, QuietFirst

\* Where the calls stay as they are.
LEMMA SameCallsFirst ==
  ASSUME RotationInv, PickWaits,
         WaitStarts \/ WaitOver \/ (\E t \in 0..Horizon : Clock(t)) \/ Interrupt \/ ExtendGCDUntil
  PROVE  FirstOf
<1>1. hc = None /\ CastOver
  BY PickFacts
<1>2. stack' = stack /\ hc' = None /\ (queued' = queued \/ (Interrupt /\ queued' = None))
  <2>1. ASSUME WaitStarts \/ WaitOver PROVE stack' = stack /\ hc' = hc /\ queued' = queued
    BY <2>1 DEF WaitStarts, WaitOver
  <2>2. ASSUME NEW t \in 0..Horizon, Clock(t) PROVE stack' = stack /\ hc' = hc /\ queued' = queued
    BY <2>2 DEF Clock
  <2>3. ASSUME Interrupt PROVE stack' = stack /\ hc' = None /\ queued' = None
    BY <1>1, <2>3 DEF Interrupt, NoneQueued
  <2>4. ASSUME ExtendGCDUntil PROVE stack' = stack /\ hc' = hc /\ queued' = queued
    <3>1. UNCHANGED <<now, cdAt, hc, queued, pressed, wait, stack>>
      BY <2>4 DEF ExtendGCDUntil
    <3> QED BY <3>1
  <2> QED BY <1>1, <2>1, <2>2, <2>3, <2>4
<1>3. ~(Len(stack') > Len(stack))
  <2>1. stack \in Seq(FrameType)
    BY InvFacts DEF Stacked
  <2>2. Len(stack) \in Nat
    BY <2>1
  <2> QED BY <1>2, <2>2
<1>4. CASE queued' = queued
  BY <1>2, <1>3, <1>4, QuietFirst
<1>5. CASE Interrupt /\ queued' = None
  BY <1>2, <1>3, <1>5 DEF FirstOf, Starts
<1> QED BY <1>2, <1>4, <1>5

\* Once the hardcast has landed, no other spell that starts the GCD or a hardcast
\* comes before the one queued after it, but for a major cooldown; only an
\* interruption or that cooldown drops it (heldByQueuedSpell, castDueQueuedSpell).
THEOREM RotationPickGoesFirst == RotationSpec => PickGoesFirst
<1>1. ASSUME RotationInv, RotationNext, PickWaits PROVE FirstOf
  <2>1. ~Press /\ ~PickBegins /\ ~LandsUnpicked /\ ~PickEnds /\ ~PushBack
    BY <1>1, PickFacts DEF Press, PickBegins, LandsUnpicked, PickEnds, PushBack
  <2> QED
    BY <1>1, <2>1, EventsFirst, CastsNowFirst, QueuesFirst, CastDueFirst, ReactFirst, ReturnFirst,
       LookBeginsFirst, SameCallsFirst
    DEF RotationNext
<1>2. RotationInv /\ [RotationNext]_rotationVars => [PickWaits => FirstOf]_rotationVars
  BY <1>1
<1> QED BY <1>2, RotationInvariant, PTL DEF PickGoesFirst, RotationSpec, FirstOf

-----------------------------------------------------------------------------
(* The unit's actions come in order *)

\* The next action comes first, and none lies in the past.
Ordered(q, n) ==
    /\ \A i, j \in 1..Len(q) : i <= j => q[i].at <= q[j].at
    /\ \A i \in 1..Len(q) : q[i].at >= n

\* What is taken off the queue leaves it in order.
LEMMA WithoutOrder ==
  ASSUME NEW q, Timed(q), NEW n \in Nat, Ordered(q, n), NEW w
  PROVE  Ordered(Without(q, w), n)
<1> DEFINE at == {i \in DOMAIN q : q[i].what = w}
           k == CHOOSE i \in at : TRUE
           r == Without(q, w)
           L == Len(q)
<1>1. q \in Seq(TimerType) /\ DOMAIN q = 1..L /\ L \in Nat /\ \A i \in 1..L : q[i].at \in Nat
  <2>1. q \in Seq(TimerType)
    BY DEF Timed
  <2>2. \A i \in 1..L : q[i] \in TimerType
    BY <2>1
  <2> QED BY <2>1, <2>2 DEF TimerType
<1>2. r = IF at = {} THEN q ELSE RemoveAt(q, k)
  BY DEF Without
<1>3. CASE at = {}
  BY <1>2, <1>3
<1>4. CASE at # {}
  <2>1. k \in 1..L
    BY <1>1, <1>4
  <2> HIDE DEF k, r
  <2>2. Len(r) = L - 1 /\ \A i \in 1..(L - 1) : r[i] = IF i < k THEN q[i] ELSE q[i + 1]
    <3> DEFINE S == TimerType
    <3>1. q \in Seq(S) /\ k \in 1..Len(q) /\ r = RemoveAt(q, k)
      BY <1>1, <1>2, <1>4, <2>1
    <3> HIDE DEF S
    <3>2. /\ Len(RemoveAt(q, k)) = Len(q) - 1
          /\ \A i \in 1..(Len(q) - 1) : RemoveAt(q, k)[i] = IF i < k THEN q[i] ELSE q[i + 1]
      BY <3>1, RemoveAtFacts
    <3> QED BY <3>1, <3>2
  <2> DEFINE place(i) == IF i < k THEN i ELSE i + 1
  <2>3. ASSUME NEW i \in 1..Len(r)
        PROVE  place(i) \in 1..L /\ r[i] = q[place(i)] /\ i \in Nat
    BY <1>1, <2>1, <2>2
  <2>4. ASSUME NEW i \in 1..Len(r), NEW j \in 1..Len(r), i <= j PROVE place(i) <= place(j)
    BY <2>1, <2>3, <2>4
  <2> HIDE DEF place
  <2>5. \A i, j \in 1..Len(r) : i <= j => r[i].at <= r[j].at
    BY <2>3, <2>4 DEF Ordered
  <2>6. \A i \in 1..Len(r) : r[i].at >= n
    BY <2>3 DEF Ordered
  <2> QED BY <2>5, <2>6 DEF Ordered, r
<1> QED BY <1>3, <1>4

\* What is due by a time is the front of a queue in order.
LEMMA AheadIsFront ==
  ASSUME NEW p, Timed(p), NEW n \in Nat, Ordered(p, n), NEW t \in Nat
  PROVE  LET k == Cardinality({i \in DOMAIN p : p[i].at <= t}) + 1
         IN  /\ k \in 1..(Len(p) + 1)
             /\ \A i \in 1..Len(p) : i < k <=> p[i].at <= t
<1> DEFINE L == Len(p)
           ahead == {i \in DOMAIN p : p[i].at <= t}
           late == {i \in 1..L : p[i].at > t}
<1>1. DOMAIN p = 1..L /\ L \in Nat /\ \A i \in 1..L : p[i].at \in Nat
  <2>1. p \in Seq(TimerType)
    BY DEF Timed
  <2>2. \A i \in 1..L : p[i] \in TimerType
    BY <2>1
  <2> QED BY <2>1, <2>2 DEF TimerType
<1> HIDE DEF L
<1>2. \E m \in 0..L : ahead = 1..m
  <2>1. CASE late = {}
    <3>1. ahead = 1..L /\ L \in 0..L
      BY <1>1, <2>1
    <3> QED BY <3>1
  <2>2. CASE late # {}
    <3>1. late \subseteq Nat
      OBVIOUS
    <3>2. PICK f \in late : \A i \in late : f <= i
      BY <2>2, <3>1, LeastNatural DEF HasLeast
    <3>3. f \in 1..L /\ p[f].at > t
      BY <3>2
    <3>4. ASSUME NEW i \in 1..L PROVE i < f <=> p[i].at <= t
      <4>1. CASE i < f
        <5>1. i \notin late
          BY <3>2, <3>3, <4>1
        <5> QED BY <1>1, <4>1, <5>1
      <4>2. CASE f <= i
        <5>1. p[f].at <= p[i].at
          BY <3>3, <4>2 DEF Ordered, L
        <5> QED BY <1>1, <3>3, <4>2, <5>1
      <4> QED BY <3>3, <4>1, <4>2
    <3>5. ahead = 1..(f - 1)
      BY <1>1, <3>3, <3>4
    <3> QED BY <1>1, <3>3, <3>5
  <2> QED BY <2>1, <2>2
<1>3. PICK m \in 0..L : ahead = 1..m
  BY <1>2
<1>4. Cardinality(ahead) = m
  <2>1. m \in Int /\ 1 \in Int /\ m \in Nat
    BY <1>1
  <2>2. Cardinality(1..m) = IF 1 > m THEN 0 ELSE m - 1 + 1
    BY <2>1, FS_Interval
  <2> HIDE DEF ahead
  <2>3. Cardinality(1..m) = m
    BY <2>1, <2>2
  <2> QED BY <1>3, <2>3
<1>5. m + 1 \in 1..(L + 1)
  BY <1>1
<1>6. ASSUME NEW i \in 1..L PROVE i < m + 1 <=> p[i].at <= t
  <2>1. i \in 1..m <=> p[i].at <= t
    BY <1>1, <1>3
  <2>2. i \in 1..m <=> i < m + 1
    BY <1>1
  <2> QED BY <2>1, <2>2
<1> QED BY <1>4, <1>5, <1>6 DEF L, ahead

\* AddPendingAction keeps the queue in order.
LEMMA ArmOrder ==
  ASSUME NEW q, Timed(q), NEW n \in Nat, Ordered(q, n), NEW w \in Kinds, NEW t \in Nat, t >= n
  PROVE  Ordered(Arm(q, w, t), n)
<1> DEFINE p == Without(q, w)
           k == Cardinality({i \in DOMAIN p : p[i].at <= t}) + 1
           e == [what |-> w, at |-> t]
           r == Arm(q, w, t)
           L == Len(p)
<1>1. r = InsertAt(p, k, e)
  BY DEF Arm
<1>2. Timed(p) /\ Ordered(p, n)
  BY WithoutFacts, WithoutOrder
<1> HIDE DEF p
<1>3. p \in Seq(TimerType) /\ L \in Nat /\ \A i \in 1..L : p[i].at \in Nat
  <2>1. p \in Seq(TimerType)
    BY <1>2 DEF Timed
  <2>2. \A i \in 1..L : p[i] \in TimerType
    BY <2>1
  <2> QED BY <2>1, <2>2 DEF TimerType
<1>4. k \in 1..(L + 1) /\ \A i \in 1..L : i < k <=> p[i].at <= t
  BY <1>2, AheadIsFront
<1>5. e \in TimerType /\ e.at = t
  BY DEF TimerType
<1> HIDE DEF e, k, r
<1>6. /\ Len(r) = L + 1
      /\ \A i \in 1..(L + 1) : r[i] = IF i < k THEN p[i] ELSE IF i = k THEN e ELSE p[i - 1]
  <2> DEFINE S == TimerType
  <2>1. p \in Seq(S) /\ k \in 1..(Len(p) + 1) /\ e \in S
    BY <1>3, <1>4, <1>5
  <2> HIDE DEF S, L
  <2>2. /\ Len(InsertAt(p, k, e)) = Len(p) + 1
        /\ \A i \in 1..(Len(p) + 1) :
              InsertAt(p, k, e)[i] = IF i < k THEN p[i] ELSE IF i = k THEN e ELSE p[i - 1]
    BY <2>1, InsertAtFacts
  <2> QED BY <1>1, <2>2 DEF L
<1> HIDE DEF L
<1>7. ASSUME NEW i \in 1..(L + 1)
      PROVE  /\ i < k => i \in 1..L /\ r[i].at = p[i].at /\ r[i].at <= t
             /\ i = k => r[i].at = t
             /\ i > k => i - 1 \in 1..L /\ r[i].at = p[i - 1].at /\ r[i].at >= t
  <2>1. i < k => i \in 1..L
    BY <1>3, <1>4
  <2>2. i > k => i - 1 \in 1..L /\ ~(i - 1 < k) /\ ~(i < k) /\ i # k
    BY <1>3, <1>4
  <2>3. i = k => ~(i < k)
    BY <1>4
  <2>4. i > k => p[i - 1].at \in Nat /\ p[i - 1].at >= t
    BY <1>3, <1>4, <2>2
  <2> QED BY <1>4, <1>5, <1>6, <2>1, <2>2, <2>3, <2>4
<1>8. \A i, j \in 1..L : i <= j => p[i].at <= p[j].at
  BY <1>2 DEF Ordered, L
<1>9. \A i \in 1..L : p[i].at >= n
  BY <1>2 DEF Ordered, L
<1>10. ASSUME NEW i \in 1..(L + 1), NEW j \in 1..(L + 1), i <= j PROVE r[i].at <= r[j].at
  <2>0. i \in Nat /\ j \in Nat /\ k \in Nat
    BY <1>4
  <2>1. CASE j < k
    BY <1>7, <1>8, <1>10, <2>0, <2>1
  <2>2. CASE i > k
    <3>1. i - 1 <= j - 1 /\ j > k
      BY <1>10, <2>0, <2>2
    <3> QED BY <1>7, <1>8, <2>2, <3>1
  <2>3. CASE i <= k /\ k <= j
    <3>1. (i < k \/ i = k) /\ (j > k \/ j = k)
      BY <2>0, <2>3
    <3>2. r[i].at \in Nat /\ r[i].at <= t
      BY <1>3, <1>7, <3>1
    <3>3. r[j].at \in Nat /\ r[j].at >= t
      BY <1>3, <1>7, <3>1
    <3> QED BY <3>2, <3>3
  <2> QED BY <2>0, <2>1, <2>2, <2>3
<1>11. ASSUME NEW i \in 1..(L + 1) PROVE r[i].at >= n
  <2>1. i < k \/ i = k \/ i > k
    BY <1>4
  <2> QED BY <1>7, <1>9, <2>1
<1> QED BY <1>6, <1>10, <1>11 DEF Ordered, r

\* The action that comes first is the earliest, and time moves to it.
LEMMA TailOrder ==
  ASSUME NEW q, Timed(q), q # <<>>, NEW n \in Nat, Ordered(q, n)
  PROVE  /\ Ordered(Tail(q), Head(q).at) /\ Head(q).at \in Nat /\ Head(q).at >= n
         /\ \A w, t : Stands(q, w, t) => Head(q).at <= t
         /\ Stands(q, Head(q).what, Head(q).at)
<1> DEFINE L == Len(q)
           r == Tail(q)
<1>1. /\ q \in Seq(TimerType) /\ L \in Nat /\ L > 0 /\ Head(q) = q[1]
      /\ Len(r) = L - 1 /\ \A i \in 1..(L - 1) : r[i] = q[i + 1]
  <2> DEFINE S == TimerType
  <2>1. q \in Seq(S)
    BY DEF Timed
  <2> HIDE DEF S
  <2>2. /\ q \in Seq(S) /\ L \in Nat /\ L > 0 /\ Head(q) = q[1]
        /\ Len(r) = L - 1 /\ \A i \in 1..(L - 1) : r[i] = q[i + 1]
    BY <2>1
  <2> QED BY <2>2 DEF S
<1>2. 1 \in 1..L /\ q[1] \in TimerType /\ Head(q) = q[1]
  BY <1>1
<1>3. (\A i, j \in 1..L : i <= j => q[i].at <= q[j].at) /\ \A i \in 1..L : q[i].at >= n
  BY DEF Ordered
<1> HIDE DEF r, L
<1>4. \A i \in 1..Len(r) : i \in Nat /\ i + 1 \in 1..L /\ r[i] = q[i + 1] /\ 1 <= i + 1
  BY <1>1
<1>5. \A i, j \in 1..Len(r) : i <= j => r[i].at <= r[j].at
  <2>1. \A i, j \in Nat : i <= j => i + 1 <= j + 1
    OBVIOUS
  <2> QED BY <1>3, <1>4, <2>1
<1>6. \A i \in 1..Len(r) : r[i].at >= q[1].at
  <2> SUFFICES ASSUME NEW i \in 1..Len(r) PROVE q[1].at <= q[i + 1].at /\ r[i] = q[i + 1]
    BY <1>1, <1>2, <1>4
  <2> QED BY <1>2, <1>3, <1>4
<1>7. ASSUME NEW w, NEW t, Stands(q, w, t) PROVE q[1].at <= t
  <2>1. PICK i \in 1..L : q[i] = [what |-> w, at |-> t]
    BY <1>7 DEF Stands, L
  <2>2. 1 <= i /\ q[i].at = t
    BY <1>1, <2>1
  <2> QED BY <1>2, <1>3, <2>2
<1>8. Stands(q, q[1].what, q[1].at)
  <2>1. q[1] = [what |-> q[1].what, at |-> q[1].at]
    BY <1>2 DEF TimerType
  <2> QED BY <1>2, <2>1 DEF Stands, L
<1>9. q[1].at \in Nat /\ q[1].at >= n
  BY <1>2, <1>3 DEF TimerType
<1> QED BY <1>2, <1>5, <1>6, <1>7, <1>8, <1>9 DEF Ordered, r

-----------------------------------------------------------------------------
(* A hardcast lands at its end *)

\* Where the end of a hardcast is kept: on the queue until it completes, and not passed.
Ends(n, h, t, st) ==
    /\ h # None => n <= h.ends /\ (Stands(t, "land", h.ends) \/ Called(st, {"complete"}))
    /\ h # None /\ h.ends <= n /\ st # <<>> => Called(st, {"complete"})
    /\ Called(st, {"complete"}) => st # <<>> /\ Last(st).do \in {"complete", "picking"}

LandInv == Ordered(timers, now) /\ Ends(now, hc, timers, stack)

\* What CastsLand says of a step.
Lands ==
    hc # None =>
        \/ hc' = hc /\ now' <= hc.ends
        \/ hc' = None /\ now' = hc.ends /\ Top \in {"complete", "picking"}
        \/ hc' = None /\ now' < hc.ends /\ Interrupt
        \/ hc' # None /\ hc'.spell = hc.spell /\ hc'.ends > hc.ends /\ PushBack

\* No queued spell is due at the very end of the hardcast.
NoTie == hc # None => ~IsArmed("queued", hc.ends)

\* Nothing else is under way while a hardcast completes.
LEMMA NotDue ==
  ASSUME RotationInv, LandInv, stack # <<>>, Top \notin {"complete", "picking"}
  PROVE  /\ ~Called(stack, {"complete"})
         /\ hc # None => hc.ends > now /\ HardcastRuns /\ ~CastOver
<1>1. Top = Last(stack).do
  BY DEF Top
<1>2. ~Called(stack, {"complete"})
  BY <1>1 DEF LandInv, Ends
<1>3. hc # None => ~(hc.ends <= now) /\ hc.ends \in Nat /\ now \in Nat
  BY <1>2, InvFacts DEF LandInv, Ends
<1>4. hc # None => hc.ends > now
  BY <1>3
<1> QED BY <1>2, <1>3, <1>4 DEF HardcastRuns, CastOver

\* Where the time and the hardcast stay as they are.
LEMMA StaysLands ==
  ASSUME RotationInv, LandInv, now' = now, hc' = hc, Ordered(timers', now),
         \A u : Stands(timers, "land", u) => Stands(timers', "land", u),
         stack' # <<>> => stack # <<>> \/ Called(stack', {"complete"}) \/ ~Due,
         Called(stack', {"complete"}) => stack' # <<>> /\ Last(stack').do \in {"complete", "picking"},
         Called(stack, {"complete"}) => Called(stack', {"complete"})
  PROVE  LandInv' /\ Lands
<1>1. Ends(now', hc', timers', stack')
  BY DEF LandInv, Ends, Due
<1>2. Lands
  BY DEF LandInv, Ends, Lands
<1> QED BY <1>1, <1>2 DEF LandInv

\* Where the calls change, none of which completes a hardcast.
LEMMA WorksLands ==
  ASSUME RotationInv, LandInv, now' = now, hc' = hc, Ordered(timers', now),
         \A u : Stands(timers, "land", u) => Stands(timers', "land", u),
         stack # <<>>, Top \notin {"complete", "picking"}, ~Called(stack', {"complete"})
  PROVE  LandInv' /\ Lands
BY NotDue, StaysLands

\* Where the calls stay, too.
LEMMA SameLands ==
  ASSUME RotationInv, LandInv, now' = now, hc' = hc, Ordered(timers', now),
         \A u : Stands(timers, "land", u) => Stands(timers', "land", u), stack' = stack
  PROVE  LandInv' /\ Lands
<1>1. Called(stack', {"complete"}) => stack' # <<>> /\ Last(stack').do \in {"complete", "picking"}
  BY DEF LandInv, Ends
<1> QED BY <1>1, StaysLands

\* The queue when a look is set.
LEMMA LookOrder ==
  ASSUME RotationInv, LandInv, NEW t \in Nat, t >= now, SetRotationTimer(timers, t)
  PROVE  Ordered(timers', now) /\ \A u : Stands(timers, "land", u) => Stands(timers', "land", u)
<1>1. timers' = Arm(timers, "look", t) /\ "look" \in Kinds /\ "land" # "look" /\ Timed(timers) /\ now \in Nat
  BY InvFacts DEF SetRotationTimer, Kinds
<1>2. Ordered(timers, now)
  BY DEF LandInv
<1> QED BY <1>1, <1>2, ArmFacts, ArmOrder

\* The queue when the GCD is set, or a Wait's wake is kept.
LEMMA LookByOrder ==
  ASSUME NEW q, Timed(q), NEW n \in Nat, Ordered(q, n), NEW t \in Nat, t >= n
  PROVE  /\ Timed(LookBy(q, t)) /\ Ordered(LookBy(q, t), n)
         /\ \A u : Stands(q, "land", u) => Stands(LookBy(q, t), "land", u)
<1>1. "look" \in Kinds /\ "land" # "look"
  BY DEF Kinds
<1>2. Timed(Arm(q, "look", t)) /\ Ordered(Arm(q, "look", t), n)
      /\ \A u : Stands(q, "land", u) => Stands(Arm(q, "look", t), "land", u)
  BY <1>1, ArmFacts, ArmOrder
<1> QED BY <1>2 DEF LookBy

\* The queue when the queued spell is taken off.
LEMMA DropOrder ==
  ASSUME RotationInv, LandInv
  PROVE  LET q == Without(timers, "queued")
         IN  /\ Timed(q) /\ Ordered(q, now)
             /\ \A u : Stands(timers, "land", u) => Stands(q, "land", u)
<1>1. Timed(timers) /\ now \in Nat /\ Ordered(timers, now) /\ "land" # "queued"
  BY InvFacts DEF LandInv
<1> QED BY <1>1, WithoutFacts, WithoutOrder

\* The queue under a cast, which may drop the queued spell.
LEMMA KeptOrder ==
  ASSUME RotationInv, LandInv, NEW s
  PROVE  /\ Timed(Kept(s, timers)) /\ Ordered(Kept(s, timers), now)
         /\ \A u : Stands(timers, "land", u) => Stands(Kept(s, timers), "land", u)
<1>1. Timed(timers) /\ Ordered(timers, now)
  BY InvFacts DEF LandInv
<1> QED BY <1>1, DropOrder DEF Kept

\* A cast that starts while none runs, or that is none.
LEMMA CastLands ==
  ASSUME RotationInv, LandInv, stack # <<>>, Top \notin {"complete", "picking"}, now' = now,
         NEW s \in Spells, NEW calls, Stacked(calls), MayCall(calls, "applying", s),
         ~Called(calls, {"complete"}), Cast(s, calls), CastTimeOf(s) > 0 => hc = None
  PROVE  LandInv' /\ Lands
<1> DEFINE gcdEnd == Max({now + EffectiveTime(s), gcdAt})
           castEnd == now + CastTimeOf(s)
           q == Kept(s, timers)
           p == LookBy(q, gcdEnd)
<1>1. /\ gcdEnd \in Nat /\ gcdEnd >= now /\ castEnd \in Nat /\ now \in Nat
      /\ castEnd >= now /\ (CastTimeOf(s) > 0 => castEnd > now)
  <2>1. EffectiveTime(s) \in Nat /\ CastTimeOf(s) \in Nat /\ now \in Nat /\ gcdAt \in Nat
    BY EffectiveFacts, InvFacts
  <2> DEFINE a == now + EffectiveTime(s)
  <2>2. a \in Nat /\ a >= now
    BY <2>1
  <2> HIDE DEF a
  <2>3. Max({a, gcdAt}) \in {a, gcdAt} /\ Max({a, gcdAt}) >= a
    BY <2>1, <2>2, TimeFacts
  <2>4. Max({a, gcdAt}) \in Nat /\ Max({a, gcdAt}) >= now
    BY <2>1, <2>2, <2>3
  <2> QED BY <2>1, <2>4 DEF a
<1> HIDE DEF gcdEnd, castEnd
<1>2. Timed(q) /\ Ordered(q, now) /\ \A u : Stands(timers, "land", u) => Stands(q, "land", u)
  BY KeptOrder
<1> HIDE DEF q
<1>3. Timed(p) /\ Ordered(p, now) /\ \A u : Stands(q, "land", u) => Stands(p, "land", u)
  BY <1>1, <1>2, LookByOrder
<1>4. CASE CastTimeOf(s) > 0
  <2>1. /\ hc = None /\ hc' = [spell |-> s, ends |-> castEnd] /\ stack' = calls
        /\ timers' = Arm(p, "land", castEnd)
    BY <1>4 DEF Cast, castEnd, gcdEnd, q
  <2> HIDE DEF p
  <2>2. Ordered(timers', now) /\ Stands(timers', "land", castEnd)
    <3>1. "land" \in Kinds
      BY DEF Kinds
    <3> QED BY <1>1, <1>3, <2>1, <3>1, ArmFacts, ArmOrder
  <2>3. hc'.ends = castEnd /\ ~(castEnd <= now)
    BY <1>1, <1>4, <2>1
  <2>4. Ends(now', hc', timers', stack')
    BY <1>1, <2>1, <2>2, <2>3 DEF Ends
  <2> QED BY <2>1, <2>2, <2>4 DEF LandInv, Lands
<1>5. CASE ~(CastTimeOf(s) > 0)
  <2>1. /\ hc' = hc /\ stack' = Append(calls, Frame("applying", s))
        /\ timers' = p \/ timers' = timers
    BY <1>5 DEF Cast, SetGCDTimer, gcdEnd, q
  <2>2. Ordered(timers', now) /\ \A u : Stands(timers, "land", u) => Stands(timers', "land", u)
    BY <1>2, <1>3, <2>1 DEF LandInv
  <2>3. ~Called(stack', {"complete"})
    <3>1. \A K : Called(stack', K) <=> Called(calls, K) \/ "applying" \in K
      BY <2>1, PushFacts
    <3> QED BY <3>1
  <2> QED BY <2>1, <2>2, <2>3, WorksLands
<1> QED BY <1>4, <1>5

\* A hardcast completes at its end: the clock has not passed it.
LEMMA CompletesLands ==
  ASSUME RotationInv, LandInv, Top \in {"complete", "picking"}, Called(stack, {"complete"}),
         NEW calls, Stacked(calls), ~Called(calls, {"complete"}),
         calls # <<>> => Last(calls).do \notin {"press", "complete"}, Completes(calls)
  PROVE  LandInv' /\ Lands
<1>1. hc' = None /\ now' = now /\ timers' = timers
      /\ (stack' = Append(calls, Frame("landing", hc.spell)) \/ stack' = calls)
  BY DEF Completes
<1>2. hc # None /\ hc.ends <= now /\ now <= hc.ends /\ hc.ends \in Nat /\ now \in Nat /\ hc.spell \in Spells
  BY InvFacts DEF LandInv, Ends
<1>3. ~Called(stack', {"complete"})
  <2>1. MayCall(calls, "landing", hc.spell)
    BY <1>2 DEF MayCall, Frames
  <2>2. LET r == Append(calls, Frame("landing", hc.spell))
        IN  \A K : Called(r, K) <=> Called(calls, K) \/ "landing" \in K
    BY <2>1, PushFacts
  <2> QED BY <1>1, <2>2
<1>4. Ends(now', hc', timers', stack')
  BY <1>1, <1>3 DEF Ends
<1>5. now' = hc.ends
  BY <1>1, <1>2
<1> QED BY <1>1, <1>4, <1>5 DEF LandInv, Lands

\* An action comes off the queue no later than the hardcast ends.
LEMMA PopsLand ==
  ASSUME RotationInv, LandInv, NEW w, Pops(w)
  PROVE  /\ stack = <<>> /\ hc' = hc /\ Ordered(timers', now') /\ Lands /\ Head(timers).at = now'
         /\ Stands(timers, w, now') /\ ~InLoop
         /\ hc # None => now' <= hc.ends /\ (Stands(timers', "land", hc.ends) \/ w = "land")
         /\ hc # None /\ w = "land" => now' = hc.ends
<1>1. /\ stack = <<>> /\ timers # <<>> /\ Head(timers).what = w /\ hc' = hc
      /\ now' = Max({now, Head(timers).at}) /\ timers' = Tail(timers)
  BY DEF Pops
<1>2. Timed(timers) /\ now \in Nat /\ Ordered(timers, now) /\ (hc # None => hc.ends \in Nat)
  BY InvFacts DEF LandInv
<1>3. /\ Ordered(timers', Head(timers).at) /\ Head(timers).at \in Nat /\ Head(timers).at >= now
      /\ \A v, t : Stands(timers, v, t) => Head(timers).at <= t
      /\ Stands(timers, w, Head(timers).at)
  BY <1>1, <1>2, TailOrder
<1>4. now' = Head(timers).at
  <2> DEFINE a == Head(timers).at
  <2>1. a \in Nat /\ a >= now /\ now' = Max({now, a})
    BY <1>1, <1>3
  <2> HIDE DEF a
  <2>2. Max({now, a}) \in {now, a} /\ Max({now, a}) >= a
    BY <1>2, <2>1, TimeFacts
  <2>3. now' = a
    BY <1>2, <2>1, <2>2
  <2> QED BY <2>3 DEF a
<1>5. hc # None => Stands(timers, "land", hc.ends)
  <2>1. ~Called(<<>>, {"complete"})
    BY DEF Called
  <2> QED BY <1>1, <2>1 DEF LandInv, Ends
<1>6. hc # None => now' <= hc.ends
  BY <1>3, <1>4, <1>5
<1>7. /\ \A v : v # w => \A t : Stands(timers, v, t) => Stands(timers', v, t)
      /\ \A t : Stands(timers, w, t) => Head(timers).at = t
  BY <1>1, <1>2, TailFacts
<1>8. ~InLoop
  BY <1>1 DEF InLoop, Within
<1>9. Lands
  BY <1>1, <1>6 DEF Lands
<1> QED BY <1>1, <1>3, <1>4, <1>5, <1>6, <1>7, <1>8, <1>9

\* What DoNextAction puts on top completes a hardcast that is due, and nothing else.
LEMMA NextLands ==
  ASSUME Stacked(stack), NEW calls, Stacked(calls), NEW due \in BOOLEAN, ~Called(calls, {"press"}),
         calls # <<>> => Last(calls).do \notin {"press", "complete"},
         ~Called(calls, {"complete"}), ~InLoop
  PROVE  LET r == DoNextAction(calls, due)
         IN  /\ due => r # <<>> /\ Last(r).do = "complete" /\ Called(r, {"complete"})
             /\ ~due => ~Called(r, {"complete"})
<1> DEFINE r == DoNextAction(calls, due)
           f == Frame("next", None)
           g == Frame("complete", None)
<1>1. r = calls \o <<f>> \o IF due THEN <<g>> ELSE <<>>
  BY DEF DoNextAction
<1>2. calls \in Seq(FrameType) /\ f \in FrameType /\ g \in FrameType /\ g.do = "complete"
  BY DEF Stacked, Frame, FrameType, Frames
<1>3. CASE due
  <2>1. r = calls \o <<f>> \o <<g>>
    BY <1>1, <1>3
  <2> HIDE DEF f, g, r
  <2>2. r # <<>> /\ Len(r) > 0 /\ Len(r) \in Nat /\ r[Len(r)] = g /\ Last(r) = g
    <3> DEFINE S == FrameType
    <3>1. calls \in Seq(S) /\ f \in S /\ g \in S
      BY <1>2
    <3> HIDE DEF S
    <3>2. /\ calls \o <<f>> \in Seq(S) /\ r = Append(calls \o <<f>>, g)
      BY <2>1, <3>1
    <3>3. r # <<>> /\ Len(r) > 0 /\ Len(r) \in Nat /\ r[Len(r)] = g
      BY <3>1, <3>2
    <3> QED BY <3>3 DEF Last
  <2>3. Called(r, {"complete"})
    BY <1>2, <2>2 DEF Called
  <2> QED BY <1>2, <1>3, <2>2, <2>3 DEF r
<1>4. CASE ~due
  <2>1. ~Called(r, {"complete"})
    BY <1>4, NextFacts
  <2> QED BY <1>4, <2>1
<1> QED BY <1>3, <1>4

\* The look comes no later than the hardcast ends, and completes it if it is due.
LEMMA LookLands ==
  ASSUME RotationInv, LandInv, RotationLooks
  PROVE  LandInv' /\ Lands
<1> DEFINE due == hc # None /\ hc.ends <= now'
           x == DoNextAction(<<>>, due)
<1>1. Pops("look") /\ stack' = x
  BY DEF RotationLooks
<1>2. /\ stack = <<>> /\ hc' = hc /\ Ordered(timers', now') /\ Lands /\ ~InLoop
      /\ hc # None => now' <= hc.ends /\ Stands(timers', "land", hc.ends)
  BY <1>1, PopsLand
<1>3. /\ Stacked(stack) /\ Stacked(<<>>) /\ ~Called(<<>>, {"press"}) /\ ~Called(<<>>, {"complete"})
      /\ due \in BOOLEAN
  BY InvFacts, CallFacts
<1>4. /\ due => x # <<>> /\ Last(x).do = "complete" /\ Called(x, {"complete"})
      /\ ~due => ~Called(x, {"complete"})
  <2> HIDE DEF due
  <2> QED BY <1>2, <1>3, NextLands
<1>5. Ends(now', hc', timers', stack')
  BY <1>1, <1>2, <1>4 DEF Ends
<1> QED BY <1>2, <1>5 DEF LandInv

\* The landing comes at the end of the hardcast.
LEMMA LandingLands ==
  ASSUME RotationInv, LandInv, HardcastLands
  PROVE  LandInv' /\ Lands
<1>1. /\ Pops("land")
      /\ stack' = IF hc # None /\ hc.ends <= now' THEN <<Frame("complete", None)>> ELSE <<>>
  BY DEF HardcastLands
<1>2. /\ hc' = hc /\ Ordered(timers', now') /\ Lands
      /\ hc # None => now' = hc.ends /\ now' <= hc.ends
      /\ Stands(timers, "land", now')
  BY <1>1, PopsLand
<1>3. ~Called(<<>>, {"complete"})
  BY DEF Called
<1>4. CASE hc # None
  <2>1. now' \in Nat /\ now' = hc.ends
    BY <1>2, <1>4, InvFacts
  <2>2. stack' = <<Frame("complete", None)>>
    BY <1>1, <1>4, <2>1
  <2>3. stack' # <<>> /\ Last(stack').do = "complete" /\ Called(stack', {"complete"})
    BY <2>2 DEF Last, Called, Frame
  <2>4. Ends(now', hc', timers', stack')
    BY <1>2, <1>4, <2>3 DEF Ends
  <2> QED BY <1>2, <2>4 DEF LandInv
<1>5. CASE hc = None
  <2>1. stack' = <<>>
    BY <1>1, <1>5
  <2>2. Ends(now', hc', timers', stack')
    BY <1>2, <1>3, <1>5, <2>1 DEF Ends
  <2> QED BY <1>2, <2>2 DEF LandInv
<1> QED BY <1>4, <1>5

\* The queued spell goes before the hardcast ends, as there is no tie.
LEMMA FiresLands ==
  ASSUME RotationInv, LandInv, NoTie, QueuedFires
  PROVE  LandInv' /\ Lands
<1>1. Pops("queued") /\ stack' = <<Frame("press", queued.spell)>>
  BY DEF QueuedFires
<1>2. /\ hc' = hc /\ Ordered(timers', now') /\ Lands
      /\ hc # None => now' <= hc.ends /\ Stands(timers', "land", hc.ends)
      /\ Stands(timers, "queued", now') /\ Head(timers).at = now'
  BY <1>1, PopsLand
<1>3. hc # None => now' # hc.ends
  <2>1. DOMAIN timers = 1..Len(timers)
    BY InvFacts DEF Timed
  <2> QED BY <1>2, <2>1 DEF NoTie, IsArmed, Stands
<1>4. hc # None => ~(hc.ends <= now')
  <2>1. hc # None => hc.ends \in Nat
    BY InvFacts
  <2>2. now' \in Nat
    BY <1>1, PopsFacts
  <2> QED BY <1>2, <1>3, <2>1, <2>2
<1>5. ~Called(stack', {"complete"})
  BY <1>1 DEF Called, Frame
<1>6. Ends(now', hc', timers', stack')
  BY <1>2, <1>4, <1>5 DEF Ends
<1> QED BY <1>2, <1>6 DEF LandInv

\* A press starts no hardcast while one runs, and none is due.
LEMMA PressLands ==
  ASSUME RotationInv, LandInv, Press
  PROVE  LandInv' /\ Lands
<1> DEFINE s == Last(stack).spell
           calls == Append(Front(stack), Frame("firing", s))
<1>1. /\ Top = "press" /\ now' = now
      /\ \/ (EffectiveTime(s) > 0 => ~HardcastRuns) /\ Cast(s, calls)
         \/ Refused(s, calls)
  BY DEF Press
<1>2. Stacked(stack) /\ stack # <<>> /\ Last(stack).do = "press"
  BY <1>1, InvFacts, CallFacts
<1>3. ~Called(stack, {"complete"}) /\ (hc # None => HardcastRuns)
  BY <1>1, <1>2, NotDue
<1>4. /\ Stacked(Front(stack)) /\ ~Called(Front(stack), {"press"})
      /\ ~Called(Front(stack), {"complete"}) /\ s \in Spells
  BY <1>2, <1>3, PopFacts
<1>5. Front(stack) # <<>> => Last(Front(stack)).do \notin {"press", "complete"}
  BY <1>4, LastFacts
<1> HIDE DEF s
<1>6. MayCall(Front(stack), "firing", s)
  BY <1>4, <1>5 DEF MayCall, Frames
<1>7. /\ Stacked(calls) /\ Last(calls) = Frame("firing", s)
      /\ \A K : Called(calls, K) <=> Called(Front(stack), K) \/ "firing" \in K
  BY <1>4, <1>6, PushFacts
<1> HIDE DEF calls
<1>8. ~Called(calls, {"complete"}) /\ MayCall(calls, "applying", s)
  BY <1>4, <1>7 DEF MayCall, Frames, Frame
<1>9. CASE (EffectiveTime(s) > 0 => ~HardcastRuns) /\ Cast(s, calls)
  <2>1. CastTimeOf(s) > 0 => EffectiveTime(s) > 0
    <3>1. CastTimeOf(s) <= EffectiveTime(s) /\ CastTimeOf(s) \in Nat /\ EffectiveTime(s) \in Nat
      BY <1>4, EffectiveFacts
    <3> QED BY <3>1
  <2>2. CastTimeOf(s) > 0 => hc = None
    BY <1>3, <1>9, <2>1
  <2> QED BY <1>1, <1>2, <1>4, <1>7, <1>8, <1>9, <2>2, CastLands
<1>10. CASE Refused(s, calls)
  <2>1. hc' = hc /\ timers' = Kept(s, timers) /\ stack' = calls
    BY <1>10 DEF Refused
  <2> QED BY <1>1, <1>2, <1>8, <2>1, KeptOrder, WorksLands
<1> QED BY <1>1, <1>9, <1>10

\* Where a call on top returns, and may set a look.
LEMMA ReturnLands ==
  ASSUME RotationInv, LandInv, Fired \/ LookEnds \/ Returns \/ Reacts
  PROVE  LandInv' /\ Lands
<1>1. /\ Top \notin {"none", "complete", "picking"} /\ stack' = Front(stack)
      /\ now' = now /\ hc' = hc
  BY DEF Fired, LookEnds, Returns, Reacts
<1>2. Stacked(stack) /\ stack # <<>>
  BY <1>1, InvFacts, CallFacts
<1>3. ~Called(stack, {"complete"}) /\ ~Called(stack', {"complete"})
  BY <1>1, <1>2, NotDue, PopFacts
<1>4. now \in Nat /\ gcdAt \in Nat /\ Reaction \in Nat /\ (hc # None => hc.ends \in Nat /\ hc.ends >= now)
  <2>1. hc # None => now <= hc.ends
    BY DEF LandInv, Ends
  <2> QED BY <2>1, InvFacts, SpellFacts
<1>5. NextLook \in Nat /\ NextLook >= now
  <2>1. now + Reaction \in Nat /\ now + Reaction >= now
    BY <1>4
  <2> DEFINE a == now + Reaction
  <2> HIDE DEF a
  <2>2. a \in Nat /\ a >= now
    BY <2>1 DEF a
  <2>3. Max({a, gcdAt}) \in {a, gcdAt} /\ Max({a, gcdAt}) >= a
    BY <1>4, <2>2, TimeFacts
  <2>4. Max({a, gcdAt}) \in Nat /\ Max({a, gcdAt}) >= now
    BY <1>4, <2>2, <2>3
  <2>5. HoldsRotation => hc # None
    BY DEF HoldsRotation, HardcastRuns
  <2> QED BY <1>4, <2>4, <2>5 DEF NextLook, a
<1>6. timers' = timers \/ \E t \in Nat : t >= now /\ SetRotationTimer(timers, t)
  <2>1. now >= now /\ now + Reaction \in Nat /\ now + Reaction >= now
    BY <1>4
  <2>2. CASE Fired
    BY <1>4, <2>1, <2>2 DEF Fired
  <2>3. CASE LookEnds
    BY <1>5, <2>3 DEF LookEnds
  <2>4. CASE Returns
    BY <2>4 DEF Returns
  <2>5. CASE Reacts
    BY <1>4, <2>1, <2>5 DEF Reacts
  <2> QED BY <2>2, <2>3, <2>4, <2>5
<1>7. Ordered(timers', now) /\ \A u : Stands(timers, "land", u) => Stands(timers', "land", u)
  BY <1>6, LookOrder DEF LandInv
<1> QED BY <1>1, <1>2, <1>3, <1>7, WorksLands

\* The picks run on top of the completion.
LEMMA PickBeginsLands ==
  ASSUME RotationInv, LandInv, PickBegins
  PROVE  LandInv' /\ Lands
<1>1. /\ Top = "complete" /\ stack' = Append(stack, Frame("picking", None))
      /\ timers' = timers \/ timers' = Without(timers, "queued")
      /\ now' = now /\ hc' = hc
  BY DEF PickBegins
<1>2. Stacked(stack) /\ stack # <<>> /\ Last(stack).do = "complete" /\ Called(stack, {"complete"})
  BY <1>1, InvFacts, CallFacts
<1>3. MayCall(stack, "picking", None)
  BY <1>2 DEF MayCall, Frames
<1>4. /\ stack' # <<>> /\ Last(stack') = Frame("picking", None)
      /\ \A K : Called(stack', K) <=> Called(stack, K) \/ "picking" \in K
  BY <1>1, <1>2, <1>3, PushFacts
<1>5. Last(stack').do = "picking"
  BY <1>4 DEF Frame
<1>6. Ordered(timers', now) /\ \A u : Stands(timers, "land", u) => Stands(timers', "land", u)
  BY <1>1, DropOrder DEF LandInv
<1> QED BY <1>1, <1>2, <1>4, <1>5, <1>6, StaysLands

\* A hardcast completes without picks.
LEMMA LandsUnpickedLands ==
  ASSUME RotationInv, LandInv, LandsUnpicked
  PROVE  LandInv' /\ Lands
<1>1. Top = "complete" /\ Completes(Front(stack))
  BY DEF LandsUnpicked
<1>2. Stacked(stack) /\ stack # <<>> /\ Last(stack).do = "complete" /\ Called(stack, {"complete"})
  BY <1>1, InvFacts, CallFacts
<1>3. Stacked(Front(stack)) /\ ~Called(Front(stack), {"press"}) /\ ~Called(Front(stack), {"complete"})
  BY <1>2, PopFacts
<1>4. Front(stack) # <<>> => Last(Front(stack)).do \notin {"press", "complete"}
  BY <1>3, LastFacts
<1> QED BY <1>1, <1>2, <1>3, <1>4, CompletesLands

\* A hardcast completes after its picks.
LEMMA PickEndsLands ==
  ASSUME RotationInv, LandInv, PickEnds
  PROVE  LandInv' /\ Lands
<1> DEFINE c == Front(stack)
<1>1. Top = "picking" /\ Completes(Front(c))
  BY DEF PickEnds
<1>2. Stacked(stack) /\ stack # <<>> /\ Last(stack).do = "picking" /\ Called(stack, {"complete"})
  BY <1>1, InvFacts, CallFacts
<1>3. Stacked(c) /\ c # <<>> /\ Last(c).do = "complete"
  BY <1>2, PopFacts
<1> HIDE DEF c
<1>4. Stacked(Front(c)) /\ ~Called(Front(c), {"press"}) /\ ~Called(Front(c), {"complete"})
  BY <1>3, PopFacts
<1>5. Front(c) # <<>> => Last(Front(c)).do \notin {"press", "complete"}
  BY <1>4, LastFacts
<1> QED BY <1>1, <1>2, <1>4, <1>5, CompletesLands

\* A look begins when nothing completes any more.
LEMMA LookBeginsLands ==
  ASSUME RotationInv, LandInv, LookBegins
  PROVE  LandInv' /\ Lands
<1>1. /\ Top = "next" /\ now' = now /\ hc' = hc /\ timers' = timers
      /\ stack' = Front(stack) \/ stack' = Append(Front(stack), Frame("looking", None))
  BY DEF LookBegins
<1>2. Stacked(stack) /\ stack # <<>> /\ Last(stack).do = "next"
  BY <1>1, InvFacts, CallFacts
<1>3. ~Called(stack, {"complete"})
  BY <1>1, <1>2, NotDue
<1>4. Stacked(Front(stack)) /\ ~Called(Front(stack), {"press"}) /\ ~Called(Front(stack), {"complete"})
  BY <1>2, <1>3, PopFacts
<1>5. Front(stack) # <<>> => Last(Front(stack)).do \notin {"press", "complete"}
  BY <1>4, LastFacts
<1>6. MayCall(Front(stack), "looking", None)
  BY <1>5 DEF MayCall, Frames
<1>7. LET r == Append(Front(stack), Frame("looking", None))
      IN  \A K : Called(r, K) <=> Called(Front(stack), K) \/ "looking" \in K
  BY <1>4, <1>6, PushFacts
<1>8. ~Called(stack', {"complete"})
  BY <1>1, <1>4, <1>7
<1> QED BY <1>1, <1>2, <1>8, WorksLands DEF LandInv

\* The rotation casts only while no hardcast runs.
LEMMA CastsNowLands ==
  ASSUME RotationInv, LandInv, NEW s \in Spells, CastsNow(s)
  PROVE  LandInv' /\ Lands
<1>1. /\ Top \in {"looking", "picking"} /\ ~HardcastRuns /\ Cast(s, stack) /\ now' = now
  BY DEF CastsNow, MayGo, Looking, CanCast
<1>2. Stacked(stack) /\ stack # <<>> /\ Last(stack).do = Top
  BY <1>1, InvFacts, CallFacts
<1>3. Top = "looking"
  <2>1. SUFFICES ASSUME Top = "picking" PROVE FALSE
    BY <1>1
  <2>2. Called(stack, {"complete"}) /\ Called(stack, {"picking"}) /\ Within({"picking"})
    BY <1>2, <2>1, CallFacts
  <2>3. hc # None
    BY <2>2, InvFacts
  <2> QED BY <1>1, <2>2, <2>3 DEF HardcastRuns
<1>4. ~Called(stack, {"complete"}) /\ hc = None
  BY <1>1, <1>2, <1>3, NotDue
<1>5. MayCall(stack, "applying", s)
  BY <1>2, <1>3 DEF MayCall, Frames
<1> QED BY <1>1, <1>2, <1>3, <1>4, <1>5, CastLands

\* A queued spell is put on the queue for later than now.
LEMMA QueuesLands ==
  ASSUME RotationInv, LandInv, NEW s \in Spells, Queues(s)
  PROVE  LandInv' /\ Lands
<1> DEFINE onGCD == IF GcdOf(s) > 0 \/ s \in Major THEN {gcdAt} ELSE {}
           casting == IF hc = None THEN {} ELSE {hc.ends}
           T == {cdAt[s]} \cup onGCD \cup casting
           t == Max(T) + 1
<1>1. /\ timers' = Arm(timers, "queued", t) /\ now' = now /\ hc' = hc /\ stack' = stack
      /\ ~CanCast(s)
  BY DEF Queues, QueueSpell
<1>2. /\ now \in Nat /\ cdAt[s] \in Nat /\ gcdAt \in Nat /\ Timed(timers) /\ Ordered(timers, now)
      /\ hc # None => hc.ends \in Nat /\ hc.ends >= now
  <2>1. hc # None => now <= hc.ends
    BY DEF LandInv, Ends
  <2> QED BY <2>1, InvFacts DEF LandInv
<1>3. t \in Nat /\ t >= now
  <2> DEFINE a == cdAt[s]
             b == IF GcdOf(s) > 0 \/ s \in Major THEN gcdAt ELSE a
             c == IF hc = None THEN a ELSE hc.ends
  <2>1. T = {a, b, c, a} /\ a \in Nat /\ b \in Nat /\ c \in Nat
    BY <1>2
  <2>2. a > now \/ b > now \/ c >= now
    <3>1. HardcastRuns \/ (GcdOf(s) > 0 /\ ~(gcdAt <= now)) \/ ~(cdAt[s] <= now)
      BY <1>1 DEF CanCast
    <3>2. HardcastRuns => hc # None
      BY DEF HardcastRuns
    <3> QED BY <1>2, <3>1, <3>2
  <2> HIDE DEF T, a, b, c
  <2>3. LET m == Max({a, b, c, a}) IN m \in {a, b, c, a} /\ m >= a /\ m >= b /\ m >= c
    <3>1. \A w, x, y, z \in Int :
             LET m == Max({w, x, y, z})
             IN  m \in {w, x, y, z} /\ m >= w /\ m >= x /\ m >= y /\ m >= z
      BY TimeFacts
    <3>2. a \in Int /\ b \in Int /\ c \in Int
      BY <2>1
    <3> QED BY <3>1, <3>2
  <2> DEFINE m == Max({a, b, c, a})
  <2>4. m \in Nat /\ m >= now
    <3>1. m \in Nat /\ m >= a /\ m >= b /\ m >= c
      BY <2>1, <2>3
    <3> HIDE DEF m
    <3> QED BY <1>2, <2>1, <2>2, <3>1
  <2>5. t = m + 1
    BY <2>1
  <2> HIDE DEF m
  <2> QED BY <1>2, <2>4, <2>5
<1> HIDE DEF t
<1>4. Ordered(timers', now) /\ \A u : Stands(timers, "land", u) => Stands(timers', "land", u)
  <2>1. "queued" \in Kinds /\ "land" # "queued"
    BY DEF Kinds
  <2> QED BY <1>1, <1>2, <1>3, <2>1, ArmFacts, ArmOrder
<1> QED BY <1>1, <1>4, SameLands

\* A look presses the queued spell when no hardcast is due.
LEMMA CastDueLands ==
  ASSUME RotationInv, LandInv, CastDueQueuedSpell
  PROVE  LandInv' /\ Lands
<1>1. /\ Top = "looking" /\ QueuedDue /\ stack' = Append(stack, Frame("press", queued.spell))
      /\ timers' = Without(timers, "queued") /\ now' = now /\ hc' = hc
  BY DEF CastDueQueuedSpell
<1>2. Stacked(stack) /\ stack # <<>> /\ Last(stack).do = "looking"
  BY <1>1, InvFacts, CallFacts
<1>3. ~Called(stack, {"complete"}) /\ queued.spell \in Spells
  BY <1>1, <1>2, NotDue, InvFacts DEF QueuedDue, PickQueued
<1>4. MayCall(stack, "press", queued.spell)
  BY <1>2, <1>3 DEF MayCall, Frames
<1>5. ~Called(stack', {"complete"})
  <2>1. \A K : Called(stack', K) <=> Called(stack, K) \/ "press" \in K
    BY <1>1, <1>2, <1>4, PushFacts
  <2> QED BY <1>3, <2>1
<1> QED BY <1>1, <1>2, <1>5, DropOrder, WorksLands

\* A Wait sets the look ahead.
LEMMA WaitLands ==
  ASSUME RotationInv, LandInv, WaitStarts \/ WaitOver
  PROVE  LandInv' /\ Lands
<1>1. now' = now /\ hc' = hc /\ stack' = stack
  BY DEF WaitStarts, WaitOver
<1>2. timers' = timers \/ \E d \in Waits : SetRotationTimer(timers, now + d)
  BY DEF WaitStarts, WaitOver
<1>3. ASSUME NEW d \in Waits PROVE now + d \in Nat /\ now + d >= now
  BY InvFacts, SpellFacts
<1>4. Ordered(timers', now) /\ \A u : Stands(timers, "land", u) => Stands(timers', "land", u)
  BY <1>2, <1>3, LookOrder DEF LandInv
<1> QED BY <1>1, <1>4, SameLands

\* The clock moves no further than to the next action.
LEMMA ClockLands ==
  ASSUME RotationInv, LandInv, NEW t \in 0..Horizon, Clock(t)
  PROVE  LandInv' /\ Lands
<1>1. /\ stack = <<>> /\ t > now /\ now' = t /\ stack' = stack /\ hc' = hc /\ timers' = timers
      /\ timers # <<>> => t <= Head(timers).at
  BY DEF Clock
<1>2. Timed(timers) /\ now \in Nat /\ Ordered(timers, now) /\ ~Called(<<>>, {"complete"}) /\ t \in Nat
  BY InvFacts, SpellFacts DEF LandInv, Called
<1>3. Ordered(timers, t) /\ \A w, u : Stands(timers, w, u) => t <= u
  <2>1. CASE timers = <<>>
    <3>1. Len(timers) = 0
      BY <2>1
    <3> QED BY <3>1 DEF Ordered, Stands
  <2>2. CASE timers # <<>>
    <3>1. /\ Head(timers).at \in Nat /\ t <= Head(timers).at
          /\ \A w, u : Stands(timers, w, u) => Head(timers).at <= u
      BY <1>1, <1>2, <2>2, TailOrder
    <3>2. timers \in Seq(TimerType) /\ \A i \in 1..Len(timers) : timers[i] \in TimerType
      BY <1>2 DEF Timed
    <3>3. ASSUME NEW i \in 1..Len(timers) PROVE t <= timers[i].at
      <4>1. timers[i].at \in Nat /\ timers[i] = [what |-> timers[i].what, at |-> timers[i].at]
        BY <3>2 DEF TimerType
      <4>2. Stands(timers, timers[i].what, timers[i].at)
        BY <4>1 DEF Stands
      <4> QED BY <1>2, <3>1, <4>1, <4>2
    <3>4. ASSUME NEW w, NEW u, Stands(timers, w, u) PROVE t <= u
      <4>1. PICK i \in 1..Len(timers) : timers[i] = [what |-> w, at |-> u]
        BY <3>4 DEF Stands
      <4> QED BY <3>3, <4>1
    <3>5. \A i \in 1..Len(timers) : timers[i].at >= t
      <4> SUFFICES ASSUME NEW i \in 1..Len(timers) PROVE timers[i].at >= t
        OBVIOUS
      <4>1. timers[i].at \in Nat
        BY <3>2 DEF TimerType
      <4> QED BY <1>2, <3>3, <4>1
    <3> QED BY <1>2, <3>4, <3>5 DEF Ordered
  <2> QED BY <2>1, <2>2
<1>4. hc # None => t <= hc.ends /\ Stands(timers, "land", hc.ends)
  BY <1>1, <1>2, <1>3 DEF LandInv, Ends
<1>5. Ends(now', hc', timers', stack')
  BY <1>1, <1>2, <1>4 DEF Ends
<1>6. Lands
  BY <1>1, <1>4 DEF Lands
<1> QED BY <1>1, <1>3, <1>5, <1>6 DEF LandInv

\* A reaction completes a hardcast that is due.
LEMMA ReactLands ==
  ASSUME RotationInv, LandInv, NEW kind \in {"reactNow", "reactLater"}, React(kind)
  PROVE  LandInv' /\ Lands
<1> DEFINE r == Append(stack, Frame(kind, None))
<1>1. ClassCode /\ stack' = DoNextAction(r, Due) /\ now' = now /\ hc' = hc /\ timers' = timers
  BY DEF React
<1>2. /\ Stacked(stack) /\ ~Called(stack, {"press"})
      /\ stack # <<>> => Last(stack).do \notin {"press", "complete"}
  BY <1>1, ClassCodeFacts
<1>3. ~Called(stack, {"complete"}) /\ (stack = <<>> \/ ~Due) /\ (stack = <<>> => ~InLoop)
  <2>1. CASE stack = <<>>
    BY <2>1, CallFacts, InvFacts DEF InLoop, Within
  <2>2. CASE stack # <<>>
    <3>1. Top \in {"applying", "landing"}
      BY <1>1, <2>2 DEF ClassCode, Outside
    <3> QED BY <2>2, <3>1, NotDue DEF Due, CastOver
  <2> QED BY <2>1, <2>2
<1>4. MayCall(stack, kind, None)
  BY <1>2 DEF MayCall, Frames
<1>5. /\ Stacked(r) /\ r # <<>> /\ Last(r) = Frame(kind, None)
      /\ \A K : Called(r, K) <=> Called(stack, K) \/ kind \in K
  BY <1>2, <1>4, PushFacts
<1> HIDE DEF r
<1>6. Due \in BOOLEAN /\ Last(r).do \notin {"press", "complete"} /\ ~Called(r, {"press"})
      /\ ~Called(r, {"complete"})
  BY <1>2, <1>3, <1>5 DEF Due, Frame
<1>7. CASE InLoop
  <2>1. stack' = r /\ stack # <<>> /\ ~Due
    BY <1>1, <1>3, <1>7 DEF DoNextAction
  <2> QED BY <1>1, <1>3, <1>6, <2>1, StaysLands DEF LandInv
<1>8. CASE ~InLoop
  <2> DEFINE x == DoNextAction(r, Due)
  <2>1. /\ Due => x # <<>> /\ Last(x).do = "complete" /\ Called(x, {"complete"})
        /\ ~Due => ~Called(x, {"complete"})
    BY <1>2, <1>5, <1>6, <1>8, NextLands
  <2> HIDE DEF x
  <2>2. stack' = x
    BY <1>1 DEF x
  <2> QED BY <1>1, <1>3, <2>1, <2>2, StaysLands DEF LandInv
<1> QED BY <1>7, <1>8

\* Class code runs with no completion under way.
LEMMA ClassCodeLands ==
  ASSUME RotationInv, LandInv, ClassCode
  PROVE  ~Called(stack, {"complete"})
<1>1. CASE stack = <<>>
  BY <1>1, InvFacts, CallFacts
<1>2. CASE stack # <<>>
  <2>1. Top \in {"applying", "landing"}
    BY <1>2 DEF ClassCode, Outside
  <2> QED BY <1>2, <2>1, NotDue
<1> QED BY <1>1, <1>2

\* A time that is set is not past.
LEMMA SetTimes ==
  ASSUME RotationInv
  PROVE  /\ now + Reaction \in Nat /\ now + Reaction >= now
         /\ \A s \in Spells : LET t == Max({gcdAt, now + GcdOf(s)}) IN t \in Nat /\ t >= now
<1>1. now \in Nat /\ gcdAt \in Nat /\ Reaction \in Nat
  BY InvFacts, SpellFacts
<1>2. ASSUME NEW s \in Spells PROVE LET t == Max({gcdAt, now + GcdOf(s)}) IN t \in Nat /\ t >= now
  <2> DEFINE a == now + GcdOf(s)
  <2>1. a \in Nat /\ a >= now
    BY <1>1, SpellFacts
  <2> HIDE DEF a
  <2>2. Max({gcdAt, a}) \in {gcdAt, a} /\ Max({gcdAt, a}) >= a
    BY <1>1, <2>1, TimeFacts
  <2>3. Max({gcdAt, a}) \in Nat /\ Max({gcdAt, a}) >= now
    BY <1>1, <2>1, <2>2
  <2> QED BY <2>3 DEF a
<1>3. now + Reaction \in Nat /\ now + Reaction >= now
  BY <1>1
<1> QED BY <1>2, <1>3

\* An interruption ends a hardcast before its end, or leaves one that is due.
LEMMA InterruptLands ==
  ASSUME RotationInv, LandInv, Interrupt
  PROVE  LandInv' /\ Lands
<1> DEFINE q == Without(timers, "queued")
           t == now + Reaction
<1>1. /\ ClassCode /\ now' = now /\ stack' = stack
      /\ \/ CastOver /\ timers' = q /\ hc' = hc
         \/ ~CastOver /\ hc' = None /\ timers' = LookBy(q, t)
  BY DEF Interrupt, SetGCDTimer
<1>2. Timed(q) /\ Ordered(q, now) /\ \A u : Stands(timers, "land", u) => Stands(q, "land", u)
  BY DropOrder
<1> HIDE DEF q, t
<1>3. CASE CastOver /\ timers' = q /\ hc' = hc
  BY <1>1, <1>2, <1>3, SameLands
<1>4. CASE ~CastOver /\ hc' = None /\ timers' = LookBy(q, t)
  <2>1. hc # None => hc.ends \in Nat /\ now \in Nat /\ ~(hc.ends <= now)
    BY <1>4, InvFacts DEF CastOver
  <2>2. t \in Nat /\ t >= now /\ now \in Nat
    BY SetTimes, InvFacts DEF t
  <2>3. Ordered(timers', now')
    BY <1>1, <1>2, <1>4, <2>2, LookByOrder
  <2>4. ~Called(stack', {"complete"})
    BY <1>1, ClassCodeLands
  <2>5. Ends(now', hc', timers', stack')
    BY <1>4, <2>4 DEF Ends
  <2>6. hc # None => now' < hc.ends
    BY <1>1, <2>1
  <2>7. Lands
    BY <1>4, <2>6 DEF Lands
  <2> QED BY <2>3, <2>5, <2>7 DEF LandInv
<1> QED BY <1>1, <1>3, <1>4

\* The GCD is extended: the landing stays.
LEMMA ExtendLands ==
  ASSUME RotationInv, LandInv, ExtendGCDUntil
  PROVE  LandInv' /\ Lands
<1>1. PICK s \in Spells : SetGCDTimer(timers, Max({gcdAt, now + GcdOf(s)}))
  BY DEF ExtendGCDUntil
<1> DEFINE t == Max({gcdAt, now + GcdOf(s)})
<1>2. /\ UNCHANGED <<now, cdAt, hc, queued, pressed, wait, stack>> /\ timers' = LookBy(timers, t)
  BY <1>1 DEF ExtendGCDUntil, SetGCDTimer
<1>3. t \in Nat /\ t >= now
  BY SetTimes
<1> HIDE DEF t
<1>4. Timed(timers) /\ now \in Nat /\ Ordered(timers, now)
  BY InvFacts DEF LandInv
<1>5. Ordered(timers', now) /\ \A u : Stands(timers, "land", u) => Stands(timers', "land", u)
  BY <1>2, <1>3, <1>4, LookByOrder
<1>6. now' = now /\ hc' = hc /\ stack' = stack
  BY <1>2
<1> QED BY <1>5, <1>6, SameLands

\* A pushback moves the landing along.
LEMMA PushBackLands ==
  ASSUME RotationInv, LandInv, PushBack
  PROVE  LandInv' /\ Lands
<1> DEFINE a == now + CastTimeOf(hc.spell) - hc.ends
           by == Min({Pushback, a})
           ends == hc.ends + by
<1>1. /\ stack = <<>> /\ ~CastOver /\ by > 0 /\ now' = now /\ stack' = stack
      /\ hc' = [hc EXCEPT !.ends = @ + by] /\ timers' = Arm(timers, "land", ends)
  BY DEF PushBack, Outside
<1>2. hc \in CastType /\ hc # None /\ hc.spell \in Spells /\ hc.ends \in Nat /\ now \in Nat /\ hc.ends >= now
  <2>1. hc \in CastType /\ hc # None /\ hc.spell \in Spells /\ hc.ends \in Nat /\ now \in Nat
    BY <1>1, InvFacts DEF CastOver
  <2>2. now <= hc.ends
    BY <2>1 DEF LandInv, Ends
  <2> QED BY <2>1, <2>2
<1>3. ends \in Nat /\ ends > hc.ends /\ ends >= now /\ ~(ends <= now)
  <2>1. CastTimeOf(hc.spell) \in Nat /\ Pushback \in Nat
    BY <1>2, SpellFacts
  <2>2. a \in Int
    BY <1>2, <2>1
  <2> HIDE DEF a
  <2>3. by \in Int
    <3>1. Min({Pushback, a}) \in {Pushback, a}
      BY <2>1, <2>2, TimeFacts
    <3> QED BY <2>1, <2>2, <3>1
  <2> HIDE DEF by
  <2> QED BY <1>1, <1>2, <2>3
<1> HIDE DEF ends, by
<1>4. hc' # None /\ hc'.spell = hc.spell /\ hc'.ends = ends
  <2>1. hc' \in CastType /\ hc'.ends = ends /\ hc'.spell = hc.spell
    BY <1>1, <1>2, <1>3 DEF CastType, ends
  <2> QED BY <2>1, SpellFacts
<1>5. Ordered(timers', now) /\ Stands(timers', "land", ends)
  <2>1. "land" \in Kinds /\ Timed(timers) /\ Ordered(timers, now)
    BY InvFacts DEF Kinds, LandInv
  <2> QED BY <1>1, <1>2, <1>3, <2>1, ArmFacts, ArmOrder
<1>6. ~Called(stack', {"complete"})
  BY <1>1 DEF Called
<1>7. Ends(now', hc', timers', stack')
  BY <1>1, <1>3, <1>4, <1>5, <1>6 DEF Ends
<1>8. Lands
  BY <1>3, <1>4 DEF Lands
<1> QED BY <1>1, <1>5, <1>7, <1>8 DEF LandInv

\* No hardcast runs at first.
LEMMA LandStarts ==
  ASSUME RotationInit
  PROVE  LandInv
<1>1. hc = None /\ now = 0 /\ timers = <<[what |-> "look", at |-> 0]>> /\ stack = <<>>
  BY DEF RotationInit
<1>2. Ordered(timers, now)
  BY <1>1 DEF Ordered
<1>3. ~Called(stack, {"complete"})
  BY <1>1 DEF Called
<1> QED BY <1>1, <1>2, <1>3 DEF LandInv, Ends

\* Every step keeps this, and lands a hardcast only at its end, while there is no tie.
LEMMA LandKeeps ==
  ASSUME RotationInv, LandInv, NoTie, [RotationNext]_rotationVars
  PROVE  LandInv' /\ Lands
<1>1. CASE RotationNext
  BY <1>1, LookLands, LandingLands, FiresLands, PressLands, ReturnLands, PickBeginsLands,
     LandsUnpickedLands, PickEndsLands, LookBeginsLands, CastDueLands, WaitLands, CastsNowLands,
     QueuesLands, ClockLands, ReactLands, InterruptLands, ExtendLands, PushBackLands
  DEF RotationNext
<1>2. CASE UNCHANGED rotationVars
  <2>1. now' = now /\ hc' = hc /\ timers' = timers /\ stack' = stack
    BY <1>2 DEF rotationVars
  <2> QED BY <2>1, SameLands DEF LandInv
<1> QED BY <1>1, <1>2

\* A hardcast lands at its end, once, and nothing takes its place, as long as no pushback
\* brings its end to the very instant a queued spell is due (newHardcastAction,
\* completeDueHardcast, heldByQueuedSpell).
THEOREM RotationCastsLand == RotationSpec /\ []NoTie => CastsLand
<1>1. RotationInv /\ LandInv /\ NoTie /\ [RotationNext]_rotationVars => LandInv'
  BY LandKeeps
<1>2. RotationInv /\ LandInv /\ NoTie /\ [RotationNext]_rotationVars => [Lands]_rotationVars
  BY LandKeeps
<1> QED BY <1>1, <1>2, LandStarts, RotationInvariant, PTL DEF CastsLand, Lands, RotationSpec

===============================================================================
