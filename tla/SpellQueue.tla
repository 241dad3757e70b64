------------------------------ MODULE SpellQueue -------------------------------
(***************************************************************************)
(* A player's rotation, GCD, hardcasts and queued spell: gcd.go,           *)
(* spell_queueing.go, the pass of DoNextAction (apl.go) and the cast       *)
(* functions of cast.go, all under sim/core.                               *)
(*                                                                         *)
(* Three actions of the unit stand on the event loop's queue: the          *)
(* rotation's next look, the landing of the hardcast and the queued spell. *)
(* Effects of casts are class code, which may call back into the rotation; *)
(* what is under way is kept on a stack.  The priority list's conditions   *)
(* are left open: a look takes any action the engine lets through.         *)
(*                                                                         *)
(* Time counts so that 1 is the nanosecond a queued spell is held back by; *)
(* what happens to the unit from outside happens at multiples of Beat.     *)
(* The unit is a player's, in combat, not moving and not channeling.       *)
(***************************************************************************)
EXTENDS Integers, Sequences, FiniteSets, SequencesExt, FiniteSetsExt

CONSTANTS
    Spells,         \* the spells of the priority list
    GcdOf(_),       \* Cast.GCDTime, 0 off the GCD
    CastTimeOf(_),  \* Cast.CastTime
    CooldownOf(_),  \* Cooldown.Duration
    Major,          \* the major cooldowns (SpellFlagMCD)
    Window,         \* MaxSpellQueueWindow
    Reaction,       \* Unit.ReactionTime
    Pushback,       \* SpellPushbackDuration
    Waits,          \* the durations of the list's Wait actions
    Beat,           \* when the outside acts
    Horizon,        \* the end of the iteration
    MaxOps,         \* bound: waits and calls from outside or from effects
    Parked,         \* a WaitUntil, which no time ends
    None             \* no hardcast, no queued spell, no wait

EffectiveTime(s) == Max({GcdOf(s), CastTimeOf(s)})

ASSUME SpellQueueAssumption ==
    /\ \A s \in Spells : {GcdOf(s), CastTimeOf(s), CooldownOf(s)} \subseteq Nat
    /\ \A s \in Spells : EffectiveTime(s) = 0 => CooldownOf(s) > 0
    /\ Major \subseteq Spells
    /\ {Window, Reaction, Pushback, Horizon, MaxOps} \subseteq Nat
    /\ Beat \in Nat \ {0} /\ Reaction > 0 /\ Waits \subseteq Nat \ {0}
    /\ None \notin Spells \cup Nat /\ Parked \notin Nat \cup {None}
    /\ None \notin [spell : Spells, ends : Nat] /\ None \notin [spell : Spells, at : Nat, after : BOOLEAN]

VARIABLES
    now,     \* Simulation.CurrentTime
    gcdAt,   \* Unit.GCD
    lookAt,  \* Unit.RotationTimer
    cdAt,    \* Spell.CD
    hc,      \* Unit.Hardcast: its spell and when it ends
    queued,  \* Unit.QueuedSpell while its action is pending: spell, time, afterHardcast
    pressed, \* whether QueueInitiatedAt is now
    wait,    \* the wake of the controlling Wait, or Parked in a WaitUntil
    timers,  \* the pending actions of the unit, the next one first
    stack,   \* the calls under way, the innermost last
    ops

rotationVars == <<now, gcdAt, lookAt, cdAt, hc, queued, pressed, wait, timers, stack, ops>>

Frame(what, s) == [do |-> what, spell |-> s]
Top == IF stack = <<>> THEN "none" ELSE Last(stack).do
Within(kinds) == \E i \in DOMAIN stack : stack[i].do \in kinds

RotationInit ==
    /\ now = 0 /\ gcdAt = 0 /\ lookAt = 0
    /\ cdAt = [s \in Spells |-> 0]
    /\ hc = None /\ queued = None /\ pressed = FALSE /\ wait = None
    /\ timers = <<[what |-> "look", at |-> 0]>>
    /\ stack = <<>> /\ ops = 0

-----------------------------------------------------------------------------
(* The unit's actions on the queue *)

\* There is one of each kind at most.
Without(q, w) ==
    LET at == {i \in DOMAIN q : q[i].what = w}
    IN  IF at = {} THEN q ELSE RemoveAt(q, CHOOSE i \in at : TRUE)

\* AddPendingAction: after those due by then; all have the same priority.
Arm(q, w, t) ==
    LET rest == Without(q, w)
        ahead == {i \in DOMAIN rest : rest[i].at <= t}
    IN  InsertAt(rest, Cardinality(ahead) + 1, [what |-> w, at |-> t])

SetRotationTimer(q, t) == lookAt' = t /\ timers' = Arm(q, "look", t)

\* Mutant: the GCD's end is always the next look.
MutKeepsWake(t) == FALSE

\* A Wait's earlier wake is kept.
KeepsWake(t) == wait # None /\ lookAt > now /\ lookAt < t
LookBy(q, t) == IF KeepsWake(t) THEN q ELSE Arm(q, "look", t)
HoldsGCD(t) == gcdAt' = t /\ lookAt' = IF KeepsWake(t) THEN lookAt ELSE t
SetGCDTimer(q, t) == HoldsGCD(t) /\ timers' = LookBy(q, t)

NoneQueued == queued' = None /\ pressed' = FALSE

-----------------------------------------------------------------------------
(* What the rotation may do *)

\* Mutant: at its end a cast no longer runs while the rotation picks.
MutHardcastRuns == hc # None /\ hc.ends > now

HardcastRuns == hc # None /\ (hc.ends > now \/ Within({"picking"}))
HoldsRotation == HardcastRuns /\ gcdAt <= hc.ends
CastOver == hc # None => hc.ends <= now
Due == hc # None /\ hc.ends <= now
PickQueued == queued # None /\ queued.after
QueuedDue == PickQueued /\ CastOver /\ queued.at <= now + 1

\* The cooldown the running cast starts when it lands counts already.
ReadyFrom(s) ==
    IF HoldsRotation /\ hc.spell = s /\ CooldownOf(s) > 0
      THEN Max({cdAt[s], hc.ends + CooldownOf(s)}) ELSE cdAt[s]

WaitsForCastEnd(s) == (EffectiveTime(s) = 0 \/ s \in Major) /\ HoldsRotation

CanQueue(s) ==
    /\ GcdOf(s) > 0 => gcdAt - now <= Window
    /\ ReadyFrom(s) - now <= Window
    /\ ~WaitsForCastEnd(s)

CanCast(s) == ~HardcastRuns /\ (GcdOf(s) > 0 => gcdAt <= now) /\ cdAt[s] <= now

\* Mutant: a spell queued after the hardcast holds nothing back.
MutHeldByQueuedSpell(s) == pressed

HeldByQueuedSpell(s) ==
    IF PickQueued /\ CastOver THEN EffectiveTime(s) > 0 /\ s \notin Major ELSE pressed

IsReady(s) == ~HeldByQueuedSpell(s) /\ CanQueue(s) /\ (s \in Major => gcdAt <= now)

-----------------------------------------------------------------------------
(* Casting *)

\* A spell on the GCD or with a cast time replaces what is queued.
Drops(s) == EffectiveTime(s) > 0
Kept(s, q) == IF Drops(s) THEN Without(q, "queued") ELSE q
Unqueues(s) == IF Drops(s) THEN NoneQueued ELSE UNCHANGED <<queued, pressed>>

StartsCooldown(s) == cdAt' = IF CooldownOf(s) > 0 THEN [cdAt EXCEPT ![s] = now + CooldownOf(s)] ELSE cdAt

Cast(s, calls) ==
    LET gcdEnd == Max({now + EffectiveTime(s), gcdAt})
        castEnd == now + CastTimeOf(s)
    IN  /\ Unqueues(s)
        /\ IF CastTimeOf(s) > 0
             THEN /\ hc' = [spell |-> s, ends |-> castEnd]
                  /\ HoldsGCD(gcdEnd)
                  /\ timers' = Arm(LookBy(Kept(s, timers), gcdEnd), "land", castEnd)
                  /\ stack' = calls /\ UNCHANGED cdAt
             ELSE /\ IF Drops(s) THEN SetGCDTimer(Kept(s, timers), gcdEnd)
                                 ELSE UNCHANGED <<gcdAt, lookAt, timers>>
                  /\ StartsCooldown(s)
                  /\ stack' = Append(calls, Frame("applying", s)) /\ UNCHANGED hc

Refused(s, calls) == Unqueues(s) /\ stack' = calls
                     /\ timers' = Kept(s, timers) /\ UNCHANGED <<gcdAt, lookAt, hc, cdAt>>

\* Unit.CancelQueuedSpell, then a new action one nanosecond late.
QueueSpell(s) ==
    LET onGCD == IF GcdOf(s) > 0 \/ s \in Major THEN {gcdAt} ELSE {}
        casting == IF hc = None THEN {} ELSE {hc.ends}
        t == Max({cdAt[s]} \cup onGCD \cup casting) + 1
    IN  /\ queued' = [spell |-> s, at |-> t, after |-> HoldsRotation]
        /\ timers' = Arm(timers, "queued", t)
        /\ pressed' = TRUE

-----------------------------------------------------------------------------
(* The event loop runs the unit's actions *)

InLoop == Within({"looking", "picking"})

\* DoNextAction, from its first line: nothing inside a look, and a hardcast due
\* completes first.
DoNextAction(calls, due) ==
    IF InLoop THEN calls
    ELSE calls \o <<Frame("next", None)>> \o IF due THEN <<Frame("complete", None)>> ELSE <<>>

Pops(what) ==
    /\ stack = <<>> /\ timers # <<>>
    /\ Head(timers).what = what /\ Head(timers).at <= Horizon
    /\ now' = Max({now, Head(timers).at})
    /\ pressed' = (pressed /\ now' = now)
    /\ timers' = Tail(timers)
    /\ UNCHANGED <<gcdAt, lookAt, cdAt, hc, wait, ops>>

RotationLooks ==
    /\ Pops("look")
    /\ stack' = DoNextAction(<<>>, hc # None /\ hc.ends <= now')
    /\ UNCHANGED queued

HardcastLands ==
    /\ Pops("land")
    /\ stack' = IF hc # None /\ hc.ends <= now' THEN <<Frame("complete", None)>> ELSE <<>>
    /\ UNCHANGED queued

QueuedFires ==
    /\ Pops("queued")
    /\ stack' = <<Frame("press", queued.spell)>>
    /\ queued' = None

\* castFn: whether the cast starts is up to its timers, its cost and its target.
Press ==
    /\ Top = "press"
    /\ LET s == Last(stack).spell
           calls == Append(Front(stack), Frame("firing", s))
       IN  \/ /\ cdAt[s] <= now
              /\ GcdOf(s) > 0 => gcdAt <= now
              /\ EffectiveTime(s) > 0 => ~HardcastRuns
              /\ Cast(s, calls)
           \/ Refused(s, calls)
    /\ UNCHANGED <<now, wait, ops>>

\* The rotation goes on at once unless a hardcast has started.
Fired ==
    /\ Top = "firing"
    /\ stack' = Front(stack)
    /\ IF CastOver THEN SetRotationTimer(timers, now) ELSE UNCHANGED <<lookAt, timers>>
    /\ UNCHANGED <<now, gcdAt, cdAt, hc, queued, pressed, wait, ops>>

-----------------------------------------------------------------------------
(* completeDueHardcast *)

Picks == lookAt <= now /\ gcdAt <= hc.ends

\* pickAtCastEnd: what was queued under the hardcast earlier is dropped.
PickBegins ==
    /\ Top = "complete" /\ Picks
    /\ stack' = Append(stack, Frame("picking", None))
    /\ IF PickQueued THEN NoneQueued /\ timers' = Without(timers, "queued")
                     ELSE UNCHANGED <<queued, pressed, timers>>
    /\ UNCHANGED <<now, gcdAt, lookAt, cdAt, hc, wait, ops>>

\* OnComplete, which does nothing if the cast cannot complete any more.
Completes(calls) ==
    /\ hc' = None
    /\ \/ StartsCooldown(hc.spell) /\ stack' = Append(calls, Frame("landing", hc.spell))
       \/ stack' = calls /\ UNCHANGED cdAt
    /\ UNCHANGED <<now, gcdAt, lookAt, queued, pressed, wait, timers, ops>>

LandsUnpicked == Top = "complete" /\ ~Picks /\ Completes(Front(stack))

PassMayEnd == ~(wait \in Nat /\ wait <= now)

PickEnds == Top = "picking" /\ PassMayEnd /\ Completes(Front(Front(stack)))

-----------------------------------------------------------------------------
(* A pass of the rotation *)

Looking == Top = "looking" \/ (Top = "picking" /\ ~PickQueued)

\* The timer may have moved on while the hardcast completed.
LookBegins ==
    /\ Top = "next"
    /\ stack' = IF lookAt <= now THEN Append(Front(stack), Frame("looking", None)) ELSE Front(stack)
    /\ UNCHANGED <<now, gcdAt, lookAt, cdAt, hc, queued, pressed, wait, timers, ops>>

\* The spell queued after the hardcast goes first, but for a major cooldown.
MayGo(s) == Looking /\ wait = None /\ IsReady(s) /\ (QueuedDue => s \in Major)

CastsNow(s) == MayGo(s) /\ CanCast(s) /\ Cast(s, stack) /\ UNCHANGED <<now, wait, ops>>

Queues(s) ==
    /\ MayGo(s) /\ ~CanCast(s) /\ QueueSpell(s)
    /\ UNCHANGED <<now, gcdAt, lookAt, cdAt, hc, wait, stack, ops>>

\* castDueQueuedSpell.
CastDueQueuedSpell ==
    /\ Top = "looking" /\ QueuedDue
    /\ stack' = Append(stack, Frame("press", queued.spell))
    /\ queued' = None /\ timers' = Without(timers, "queued")
    /\ UNCHANGED <<now, gcdAt, lookAt, cdAt, hc, pressed, wait, ops>>

Counts == ops < MaxOps /\ ops' = ops + 1

WaitStarts ==
    /\ Looking /\ wait = None /\ ~QueuedDue /\ Counts
    /\ \/ \E d \in Waits : wait' = now + d /\ SetRotationTimer(timers, now + d)
       \/ wait' = Parked /\ UNCHANGED <<lookAt, timers>>
    /\ UNCHANGED <<now, gcdAt, cdAt, hc, queued, pressed, stack>>

WaitOver ==
    /\ Looking /\ wait # None /\ (wait \in Nat => wait <= now)
    /\ wait' = None
    /\ UNCHANGED <<now, gcdAt, lookAt, cdAt, hc, queued, pressed, timers, stack, ops>>

NextLook == IF HoldsRotation THEN hc.ends ELSE Max({now + Reaction, gcdAt})

LookEnds ==
    /\ Top = "looking" /\ ~QueuedDue /\ PassMayEnd
    /\ stack' = Front(stack)
    /\ IF lookAt <= now THEN SetRotationTimer(timers, NextLook) ELSE UNCHANGED <<lookAt, timers>>
    /\ UNCHANGED <<now, gcdAt, cdAt, hc, queued, pressed, wait, ops>>

-----------------------------------------------------------------------------
(* Class code: the effects of a cast, and what happens to the unit *)

Outside == stack = <<>> /\ now % Beat = 0
ClassCode == Outside \/ Top \in {"applying", "landing"}

\* Time passes until something happens to the unit.
Clock(t) ==
    /\ stack = <<>> /\ t > now /\ t % Beat = 0 /\ ops < MaxOps
    /\ timers # <<>> => t <= Head(timers).at
    /\ now' = t /\ pressed' = FALSE
    /\ UNCHANGED <<gcdAt, lookAt, cdAt, hc, queued, wait, timers, stack, ops>>

Returns ==
    /\ Top \in {"applying", "landing"} /\ stack' = Front(stack)
    /\ UNCHANGED <<now, gcdAt, lookAt, cdAt, hc, queued, pressed, wait, timers, ops>>

\* ReactToEvent looks if a look is due ...
React(kind) ==
    /\ ClassCode /\ Counts
    /\ stack' = DoNextAction(Append(stack, Frame(kind, None)), Due)
    /\ UNCHANGED <<now, gcdAt, lookAt, cdAt, hc, queued, pressed, wait, timers>>

\* ... and has the next one come within a reaction time, or now.
Reacts ==
    /\ Top \in {"reactNow", "reactLater"}
    /\ stack' = Front(stack)
    /\ LET t == IF Top = "reactNow" THEN now ELSE now + Reaction
       IN  IF wait = None /\ lookAt > t THEN SetRotationTimer(timers, t)
                                       ELSE UNCHANGED <<lookAt, timers>>
    /\ UNCHANGED <<now, gcdAt, cdAt, hc, queued, pressed, wait, ops>>

\* The landing of a cancelled hardcast stays on the queue.
Interrupt ==
    /\ ClassCode /\ Counts
    /\ NoneQueued
    /\ LET q == Without(timers, "queued")
       IN  IF ~CastOver THEN hc' = None /\ SetGCDTimer(q, now + Reaction)
                    ELSE timers' = q /\ UNCHANGED <<hc, gcdAt, lookAt>>
    /\ UNCHANGED <<now, cdAt, wait, stack>>

ExtendGCDUntil ==
    /\ ClassCode /\ Counts
    /\ \E s \in Spells : GcdOf(s) > 0 /\ SetGCDTimer(timers, Max({gcdAt, now + GcdOf(s)}))
    /\ UNCHANGED <<now, cdAt, hc, queued, pressed, wait, stack>>

PushBack ==
    /\ Outside /\ ~CastOver /\ Counts
    /\ LET by == Min({Pushback, now + CastTimeOf(hc.spell) - hc.ends})
       IN  /\ by > 0
           /\ hc' = [hc EXCEPT !.ends = @ + by]
           /\ timers' = Arm(timers, "land", hc.ends + by)
    /\ UNCHANGED <<now, gcdAt, lookAt, cdAt, queued, pressed, wait, stack>>

RotationNext ==
    \/ RotationLooks \/ HardcastLands \/ QueuedFires \/ Press \/ Fired
    \/ PickBegins \/ LandsUnpicked \/ PickEnds
    \/ LookBegins \/ CastDueQueuedSpell \/ WaitStarts \/ WaitOver \/ LookEnds
    \/ \E s \in Spells : CastsNow(s) \/ Queues(s)
    \/ \E t \in 0..Horizon : Clock(t)
    \/ Returns \/ Reacts \/ React("reactNow") \/ React("reactLater")
    \/ Interrupt \/ ExtendGCDUntil \/ PushBack

RotationSpec == RotationInit /\ [][RotationNext]_rotationVars

-----------------------------------------------------------------------------
(* Correctness *)

Frames == {"next", "complete", "picking", "looking", "press", "firing", "applying", "landing",
           "reactNow", "reactLater"}

RotationTypeOK ==
    /\ {now, gcdAt, lookAt, ops} \subseteq Nat /\ cdAt \in [Spells -> Nat]
    /\ hc = None \/ (hc.spell \in Spells /\ hc.ends \in Nat)
    /\ queued = None \/ (queued.spell \in Spells /\ queued.at \in Nat /\ queued.after \in BOOLEAN)
    /\ pressed \in BOOLEAN /\ wait \in Nat \cup {None, Parked}
    /\ \A i \in DOMAIN timers : timers[i].what \in {"look", "land", "queued"}
    /\ \A i, j \in DOMAIN timers : timers[i].what = timers[j].what => i = j
    /\ \A i \in DOMAIN stack : stack[i].do \in Frames /\ stack[i].spell \in Spells \cup {None}

IsArmed(w, t) == \E i \in DOMAIN timers : timers[i] = [what |-> w, at |-> t]

\* A look is armed, and not too late.
Awake ==
    stack = <<>> =>
        /\ IsArmed("look", lookAt)
        /\ lookAt <= Max({now + Reaction, gcdAt}
                           \cup (IF hc = None THEN {} ELSE {hc.ends})
                           \cup (IF wait \in Nat THEN {wait} ELSE {}))

\* Every variable has its type, and between two events the rotation always has a look
\* coming, when its timer says, and no later than the end of the GCD, of the hardcast, of
\* a Wait or a reaction time from now: however looks, landings, reactions and
\* interruptions interleave, none consumes the rotation's action without arming it again
\* (SetRotationTimer's callers in gcd.go, spell_queueing.go and apl.go).  And while a Wait
\* holds, a look still to come is never put off: whatever sets the GCD, "the Wait's
\* earlier wake" is kept (SetGCDTimer).
NeverAsleep ==
    /\ [](RotationTypeOK /\ Awake)
    /\ [][wait # None /\ wait' = wait /\ lookAt > now' => lookAt' <= lookAt]_rotationVars

(* A hardcast lands at its end, once: the clock does not pass it, no other cast *)
(* takes its place, and it goes only by landing, by an interruption or by a *)
(* pushback that moves its end (newHardcastAction, completeDueHardcast). *)
CastsLand ==
    [][hc # None =>
        \/ hc' = hc /\ now' <= hc.ends
        \/ hc' = None /\ now' = hc.ends /\ Top \in {"complete", "picking"}
        \/ hc' = None /\ now' < hc.ends /\ Interrupt
        \/ hc' # None /\ hc'.spell = hc.spell /\ hc'.ends > hc.ends /\ PushBack]_rotationVars

PickWaits == PickQueued /\ hc = None
Starts(s) == \/ hc' # None /\ hc'.spell = s
             \/ Len(stack') > Len(stack) /\ Last(stack') = Frame("applying", s)
             \/ queued' # None /\ queued' # queued /\ queued'.spell = s
GoesOff == stack' # <<>> /\ Last(stack') = Frame("press", queued.spell)

(* Once a hardcast has landed, "the spell queued after it is the rotation's next *)
(* one: until it goes off, no other spell that starts the GCD or a hardcast is *)
(* cast or queued. A major cooldown still goes, in its place."  Nothing but that *)
(* and an interruption drops it (heldByQueuedSpell, castDueQueuedSpell). *)
PickGoesFirst ==
    [][PickWaits =>
        /\ \A s \in Spells : Starts(s) => EffectiveTime(s) = 0 \/ s \in Major
        /\ queued' = None => GoesOff \/ Interrupt \/ \E s \in Major : Starts(s)]_rotationVars

=============================================================================
