---------------------------- MODULE MajorCooldowns ----------------------------
(***************************************************************************)
(* A character's major cooldowns (sim/core/major_cooldown.go): a list that *)
(* is sorted by ready time and priority, and the earliest time at which    *)
(* the rotation's "Autocast Other Cooldowns" can use one, cached so that   *)
(* most looks of the rotation need not walk the list.                      *)
(*                                                                         *)
(* Ready times live in timers that spells share, and change by uses, by    *)
(* the landing of a cast, by the end of an effect, by spells the rotation  *)
(* casts itself, and by a spell that resets others; the list and the cache *)
(* hear only of what calls UpdateMajorCooldowns. A look of the rotation    *)
(* may come at any time; what a cooldown waits for is left open.           *)
(***************************************************************************)
EXTENDS Integers, Sequences, FiniteSets, SequencesExt, FiniteSetsExt

CONSTANTS
    Listed,           \* initialMajorCooldowns: what autocast looks after, in order
    Own,              \* spells the rotation casts itself
    Timers,
    CdOf(_),          \* Spell.CD's timer, or Nil
    CdLength(_),
    SharedOf(_),      \* Spell.SharedCD's timer, or Nil
    SharedLength(_),
    CastTimeOf(_),
    OnGcd,            \* spells with a GCD
    Potions,          \* spells whose shared cooldown runs from the time of a use before the pull
    AtItsEnd,         \* spells whose cooldown starts when their effect ends
    Resets(_),        \* spells whose cooldown the effect of a spell finishes
    PriorityOf(_),
    TimingsOf(_),     \* MajorCooldown.timings
    DisableAutocast,
    Reactive,         \* SpellFlagReactive
    Explosive,        \* CooldownTypeExplosive
    Conditional,      \* cooldowns whose ShouldActivate is not always true
    Gcd, GcdMin,
    Reaction,         \* Unit.ReactionTime
    Pull,             \* the time at which the iteration starts, before 0
    Horizon,
    MaxOps,           \* bound: casts of the rotation's own, casts that come to nothing, changes of mind
    Never, Nil

Mcds == Range(Listed)
Spells == Mcds \cup Own

ASSUME MajorCooldownsAssumption ==
    /\ Listed \in Seq(Mcds) /\ Cardinality(Mcds) = Len(Listed) /\ Mcds \cap Own = {}
    /\ AtItsEnd \subseteq Spells /\ Conditional \subseteq Mcds
    /\ \A m \in Mcds : PriorityOf(m) \in Int /\ TimingsOf(m) \in Seq(Int)
    /\ \A s \in Spells : {CdOf(s), SharedOf(s)} \subseteq Timers \cup {Nil} /\ Resets(s) \subseteq Spells
    /\ \A s \in Spells : CdLength(s) \in Nat /\ SharedLength(s) \in Nat /\ CastTimeOf(s) \in Nat
    /\ \A s \in AtItsEnd : CdOf(s) # Nil
    /\ \A s \in Spells : \A r \in Resets(s) : CdOf(r) # Nil
    /\ {Gcd, GcdMin, Reaction} \subseteq Nat /\ Pull \in Int /\ Pull <= 0 /\ Horizon \in Nat
    /\ MaxOps \in Nat /\ Never \in Nat /\ Never > Horizon
    /\ Nil \notin Timers \cup Spells /\ Nil \notin [spell : Spells, ends : Int]

VARIABLES
    now,
    gcdAt,    \* GCD.ReadyAt
    timer,
    cast,     \* the hardcast: what and until when
    effect,   \* the spells of AtItsEnd whose effect runs
    order,    \* majorCooldowns
    minReady,
    usages,   \* MajorCooldown.numUsages
    willing,  \* the cooldowns whose ShouldActivate holds
    ops,
    heard     \* history: the ready times when autocast last had to know them

vars == <<now, gcdAt, timer, cast, effect, order, minReady, usages, willing, ops, heard>>

\* BothTimersReadyAt; startingCDTime is before everything.
ReadyAt(T, s) == Max({Pull} \cup {T[k] : k \in {CdOf(s), SharedOf(s)} \ {Nil}})
Autocasts(U, m) == U[m] < Len(TimingsOf(m)) \/ m \notin DisableAutocast

\* Mutant: the priority is not looked at.
MutGoesBefore(T, m, n) == ReadyAt(T, m) < ReadyAt(T, n)

GoesBefore(T, m, n) ==
    \/ ReadyAt(T, m) < ReadyAt(T, n)
    \/ ReadyAt(T, m) = ReadyAt(T, n) /\ PriorityOf(m) > PriorityOf(n)
\* sort, which is stable
Sorted(q, T) ==
    LET Ahead(i, j) == GoesBefore(T, q[j], q[i]) \/ (j < i /\ ~GoesBefore(T, q[i], q[j]))
        place == [i \in DOMAIN q |-> 1 + Cardinality({j \in DOMAIN q : Ahead(i, j)})]
    IN  [k \in DOMAIN q |-> q[CHOOSE i \in DOMAIN q : place[i] = k]]
MinReady(q, T, U) ==
    LET able == {i \in DOMAIN q : Autocasts(U, q[i])}
    IN  IF able = {} THEN Never ELSE ReadyAt(T, q[Min(able)])

Fresh == [t \in Timers |-> Pull]
NoUsages == [m \in Mcds |-> 0]
Start ==
    [now |-> Pull, gcdAt |-> Pull, timer |-> Fresh, cast |-> Nil, effect |-> {},
     order |-> Sorted(Listed, Fresh), minReady |-> MinReady(Sorted(Listed, Fresh), Fresh, NoUsages),
     usages |-> NoUsages,
     heard |-> [m \in Mcds |-> ReadyAt(Fresh, m)]]

Init ==
    /\ now = Start.now /\ gcdAt = Start.gcdAt /\ timer = Start.timer /\ cast = Start.cast
    /\ effect = Start.effect /\ order = Start.order /\ minReady = Start.minReady
    /\ usages = Start.usages /\ heard = Start.heard
    /\ willing = Mcds /\ ops = 0

-----------------------------------------------------------------------------
(* What casts and updates make of a state S *)

State == [now |-> now, gcdAt |-> gcdAt, timer |-> timer, cast |-> cast, effect |-> effect,
          order |-> order, minReady |-> minReady, usages |-> usages, heard |-> heard]
Becomes(S) ==
    /\ now' = S.now /\ gcdAt' = S.gcdAt /\ timer' = S.timer /\ cast' = S.cast
    /\ effect' = S.effect /\ order' = S.order /\ minReady' = S.minReady
    /\ usages' = S.usages /\ heard' = S.heard

\* Mutant: the time is looked up before the list is sorted.
MutUpdateMajorCooldowns(S) ==
    [S EXCEPT !.order = Sorted(@, S.timer), !.minReady = MinReady(S.order, S.timer, S.usages)]

UpdateMajorCooldowns(S) ==
    LET q == Sorted(S.order, S.timer)
    IN  [S EXCEPT !.order = q, !.minReady = MinReady(q, S.timer, S.usages)]

Hear(S) == [S EXCEPT !.heard = [m \in Mcds |-> ReadyAt(S.timer, m)]]

SetTimer(S, k, t) == IF k = Nil THEN S ELSE [S EXCEPT !.timer[k] = t]

\* The cooldowns of a spell as its cast completes.
TriggerCooldown(S, s) ==
    LET own == IF CdLength(s) > 0 THEN SetTimer(S, CdOf(s), now + CdLength(s)) ELSE S
    IN  SetTimer(own, SharedOf(s), now + SharedLength(s))

ApplyEffects(S, s) ==
    LET finished == {CdOf(r) : r \in Resets(s)}
        reset == [S EXCEPT !.timer = [k \in Timers |-> IF k \in finished THEN 0 ELSE @[k]]]
        on == [reset EXCEPT !.effect = IF s \in AtItsEnd THEN @ \cup {s} ELSE @]
    IN  IF s \in Potions /\ now < 0 THEN Hear(UpdateMajorCooldowns(on)) ELSE on

Completed(S, s) == ApplyEffects(TriggerCooldown(S, s), s)

EffectiveTime(s) == Max({CastTimeOf(s), IF s \in OnGcd THEN Gcd ELSE 0})

\* A cast takes the GCD at once, and its cooldowns when it completes.
Cast(S, s) ==
    LET T == [S EXCEPT !.gcdAt = IF EffectiveTime(s) = 0 THEN @ ELSE Max({@, now + EffectiveTime(s)})]
    IN  IF CastTimeOf(s) = 0 THEN Completed(T, s)
        ELSE [T EXCEPT !.cast = [spell |-> s, ends |-> now + CastTimeOf(s)]]

CanCast(s) ==
    /\ cast = Nil /\ s \notin effect
    /\ s \in OnGcd => gcdAt <= now
    /\ ReadyAt(timer, s) <= now

-----------------------------------------------------------------------------
(* Autocast *)

\* Where in the GCD a cooldown may fire
Fits(m) ==
    \/ m \in Reactive
    \/ /\ m \in Explosive \ Reactive
       /\ gcdAt > now
       /\ gcdAt - now >= CastTimeOf(m) \/ CastTimeOf(m) > GcdMin
    \/ m \notin Explosive /\ gcdAt <= now

ShouldActivate(m) ==
    /\ CanCast(m)
    /\ IF usages[m] < Len(TimingsOf(m)) THEN now >= TimingsOf(m)[usages[m] + 1] ELSE m \in willing

\* What getFirstReadyMCD asks of a cooldown.
Due(m) == Autocasts(usages, m) /\ ReadyAt(timer, m) <= now /\ Fits(m) /\ ShouldActivate(m)

FirstReady ==
    LET due == {i \in DOMAIN order : Due(order[i])}
    IN  IF now < minReady \/ due = {} THEN Nil ELSE order[Min(due)]

Used(S, m) == [Cast(S, m) EXCEPT !.usages[m] = @ + 1]

\* The rotation's action finds a cooldown and uses it.
Autocast ==
    /\ now >= 0
    /\ LET mcd == FirstReady
       IN  mcd # Nil /\ Becomes(Hear(UpdateMajorCooldowns(Used(State, mcd))))
    /\ UNCHANGED <<willing, ops>>

-----------------------------------------------------------------------------
(* The rest of the character *)

Acts == ops < MaxOps /\ ops' = ops + 1
Keeps == UNCHANGED <<willing, ops>>

CastOwn(s) == Acts /\ CanCast(s) /\ Becomes(Cast(State, s)) /\ UNCHANGED willing

Land ==
    /\ cast # Nil /\ cast.ends = now
    /\ Becomes(Completed([State EXCEPT !.cast = Nil], cast.spell))
    /\ Keeps

Interrupt ==
    /\ Acts
    /\ cast # Nil /\ cast.ends > now
    /\ Becomes([State EXCEPT !.cast = Nil, !.gcdAt = now + Reaction])
    /\ UNCHANGED willing

\* The cast may no longer complete (CanCompleteCast, meetsCost).
Fizzle ==
    /\ Acts
    /\ cast # Nil /\ cast.ends = now
    /\ Becomes([State EXCEPT !.cast = Nil])
    /\ UNCHANGED willing

\* The effect of Combustion or Presence of Mind ends, and its cooldown starts.
EffectEnds(s) ==
    /\ s \in effect
    /\ LET off == SetTimer([State EXCEPT !.effect = @ \ {s}], CdOf(s), now + CdLength(s))
       IN  Becomes(Hear(UpdateMajorCooldowns(off)))
    /\ Keeps

ChangeMind(m) ==
    /\ Acts
    /\ willing' = IF m \in willing THEN willing \ {m} ELSE willing \cup {m}
    /\ UNCHANGED <<now, gcdAt, timer, cast, effect, order, minReady, usages, heard>>

Advance ==
    /\ now < Horizon /\ (cast # Nil => cast.ends > now)
    /\ now' = now + 1
    /\ UNCHANGED <<gcdAt, timer, cast, effect, order, minReady, usages, willing, ops, heard>>

\* The next iteration starts with the initial list and fresh timers.
Reset == now = Horizon /\ Becomes(Start) /\ willing' = Mcds /\ ops' = 0

Next ==
    \/ Autocast
    \/ \E s \in Own : CastOwn(s)
    \/ Land
    \/ Interrupt
    \/ Fizzle
    \/ \E s \in AtItsEnd : EffectEnds(s)
    \/ \E m \in Conditional : ChangeMind(m)
    \/ Advance
    \/ Reset

Spec == Init /\ [][Next]_vars

-----------------------------------------------------------------------------
(* Properties *)

TypeOK ==
    /\ now \in Pull..Horizon /\ ops \in 0..MaxOps
    /\ gcdAt \in Int /\ timer \in [Timers -> Int]
    /\ cast = Nil \/ (cast.spell \in Spells /\ cast.ends >= now)
    /\ effect \subseteq AtItsEnd /\ willing \subseteq Mcds
    /\ heard \in [Mcds -> Int]
    /\ Range(order) = Mcds /\ Len(order) = Len(Listed)
    /\ minReady \in Int /\ usages \in [Mcds -> Nat]

\* Every variable has its type, and a cooldown that is due is used by a look that comes to autocast:
\* the cached time never hides one, whatever shared timers, casts that land later, effects that
\* end and timings that are used up did to the ready times. The one exception is a cooldown that a
\* spell of the rotation's own finished (Preparation does): it may be held back, but no longer than
\* until it would have been ready without that.
NothingHeldBack ==
    /\ TypeOK
    /\ FirstReady = Nil => \A m \in Mcds : Due(m) => (ReadyAt(timer, m) < heard[m] /\ now < heard[m])

\* "The first ready cooldown, by ready time and then priority", among those whose ready time was
\* last moved by something autocast hears of.
Heard == {m \in Mcds : ReadyAt(timer, m) = heard[m]}
PicksInTurn ==
    LET mcd == FirstReady
    IN  mcd \in Heard => \A m \in Heard :
            Due(m) => /\ heard[mcd] <= heard[m]
                      /\ heard[mcd] = heard[m] => PriorityOf(mcd) >= PriorityOf(m)
===============================================================================
