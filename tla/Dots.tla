--------------------------------- MODULE Dots ---------------------------------
(***************************************************************************)
(* Periodic effects (sim/core/dot.go): an aura on a unit and a pending     *)
(* action on the event loop's queue, which every operation must keep in    *)
(* step.  The aura ends when its time is up, the action ticks; at the last *)
(* instant of a dot the aura ends first and its end does the last tick.    *)
(*                                                                         *)
(* A dot may be cast, extended, refreshed, consumed, cut or replaced by    *)
(* another rank at any time, an instant at which it is due to tick         *)
(* included, before the tick or after it: swings and travelling spells are *)
(* handled before the queue's actions of that time, casts before or after. *)
(* What a tick does to the target is class code, which may end the very    *)
(* dot that ticks. It does not cast that dot anew or extend it, which      *)
(* would queue its action twice: what a tick procs rules out the dot       *)
(* itself (common/forever/items_weapons.go:119).                           *)
(***************************************************************************)
EXTENDS Integers, Sequences, FiniteSets, SequencesExt, FiniteSetsExt

CONSTANTS
    Casters,
    Units,         \* what the dots live on
    Dots,
    CasterOf(_),   \* Dot.Spell.Unit
    UnitOf(_),     \* Dot.Unit
    LengthOf(_),   \* Dot.BaseTickLength
    CountOf(_),    \* Dot.BaseTickCount
    Hasted,        \* dots with affectedByCastSpeed or affectedByRealHaste
    Shortened,     \* dots with hasteReducesDuration
    Channels,      \* dots with isChanneled
    GroupOf(_),    \* the rank group a dot joined, or Nil
    RankOf(_),     \* Dot.rank, 0 for a ground effect
    Extended,      \* dots whose spell calls DurationExtend on them while they run
    Refreshed,     \* dots whose spell refreshes the aura alone while they run
    Speeds,        \* haste factors of a caster
    Horizon,       \* the end of the iteration
    MaxOps,        \* bound: what happens to dots in an iteration from outside
    Never,         \* NeverExpires
    Nil            \* no group, no channel, no action

Ranks(d) == {e \in Dots : CasterOf(e) = CasterOf(d) /\ GroupOf(e) = GroupOf(d)}
\* A member of a rank group and the ranks beside it on the same unit.
Rivals(d) == {e \in Ranks(d) : UnitOf(e) = UnitOf(d)}

\* Duration.Round and math.RoundToEven
RoundUp(a, b) == (2 * a + b) \div (2 * b)
RoundEven(a, b) ==
    LET q == a \div b
        r == 2 * (a % b)
    IN  IF r > b \/ (r = b /\ q % 2 = 1) THEN q + 1 ELSE q

CalcTickPeriod(d, s) == IF d \in Hasted THEN RoundUp(LengthOf(d), s) ELSE LengthOf(d)
\* The ticks of period p in the base duration.
TickCount(d, p) == RoundEven(CountOf(d) * LengthOf(d), p)
FreshCount(d, p) == IF d \in Hasted \ Shortened THEN TickCount(d, p) ELSE CountOf(d)

ASSUME DotsAssumption ==
    /\ \A d \in Dots : CasterOf(d) \in Casters /\ UnitOf(d) \in Units
    /\ \A d \in Dots : LengthOf(d) \in Nat \ {0} /\ CountOf(d) \in Nat \ {0}
    /\ Channels \subseteq Dots /\ Extended \subseteq Dots \ Channels
    /\ Refreshed \subseteq Dots \ (Channels \cup Extended)
    \* createDots: channels join no group
    /\ \A d \in Dots : GroupOf(d) # Nil => d \notin Channels /\ RankOf(d) \in Nat
    /\ Speeds \subseteq Nat \ {0} /\ 1 \in Speeds
    /\ \A d \in Dots, s \in Speeds :
          CalcTickPeriod(d, s) > 0 /\ FreshCount(d, CalcTickPeriod(d, s)) > 0
    /\ Horizon \in Nat /\ MaxOps \in Nat /\ Never \in Nat /\ Never > Horizon
    /\ IsFiniteSet(Dots) /\ Nil \notin Dots

VARIABLES
    now,      \* Simulation.CurrentTime
    speed,    \* the caster's haste
    dot,      \* the dots: the aura's active, expires and Duration, then tickPeriod,
              \* remainingTicks, ticksDone and tickAction.NextActionAt
    queue,    \* Simulation.pendingActions, the next one first: whose and when
    channel,  \* Unit.ChanneledDot
    ops,
    last,     \* history: when a dot last ticked or was applied
    strays,   \* history: dots that ticked out of time at this instant
    twice     \* history: dots that their own tick ended at this instant

vars == <<now, speed, dot, queue, channel, ops, last, strays, twice>>

\* An inactive dot: its old numbers are written anew before they are read.
Idle == [active |-> FALSE, expires |-> 0, duration |-> 0, period |-> 0,
         left |-> 0, done |-> 0, tickAt |-> Nil]

Init ==
    /\ now = 0 /\ ops = 0
    /\ speed = [c \in Casters |-> 1]
    /\ dot = [d \in Dots |-> Idle]
    /\ queue = <<>>
    /\ channel = [c \in Casters |-> Nil]
    /\ last = [d \in Dots |-> 0]
    /\ strays = {} /\ twice = {}

-----------------------------------------------------------------------------
(* What the dots' methods make of a state S of them at time t *)

State == [dot |-> dot, queue |-> queue, channel |-> channel, last |-> last, strays |-> strays]
Becomes(S) ==
    /\ dot' = S.dot /\ queue' = S.queue /\ channel' = S.channel
    /\ last' = S.last /\ strays' = S.strays

\* AddPendingAction of the dot's action: after those due by then, for all have one priority.
AddAction(S, d, at) ==
    LET ahead == {i \in DOMAIN S.queue : S.queue[i].at <= at}
    IN  [S EXCEPT !.queue = InsertAt(@, Cardinality(ahead) + 1, [dot |-> d, at |-> at]),
                  !.dot[d].tickAt = at]

\* Mutant: the action of a dot that ended stays on the queue.
MutCancel(S, d) == S

Cancel(S, d) == [S EXCEPT !.queue = RemoveFirst(@, [dot |-> d, at |-> S.dot[d].tickAt])]

Ticked(r) == [r EXCEPT !.left = @ - 1, !.done = @ + 1]

\* A tick and the count of it. In time is one period after the tick or the application before
\* it, or after an extension at any later time.
OnTime(S, d, t) ==
    IF d \in Extended THEN t > S.last[d] ELSE t = S.last[d] + S.dot[d].period
TickOnce(S, d, t) ==
    [S EXCEPT !.dot[d] = Ticked(@),
              !.last[d] = t,
              !.strays = IF OnTime(S, d, t) THEN @ ELSE @ \cup {d}]

StopTicking(S, d) == [Cancel(S, d) EXCEPT !.dot[d].tickAt = Never]

\* Mutant: the end of an aura ticks once more whatever the time.
MutLastTick(S, d, t) == TickOnce(S, d, t)

\* The end of the dot's aura: a tick due at this very instant is done before the action goes.
LastTick(S, d, t) == IF S.dot[d].tickAt = t THEN TickOnce(S, d, t) ELSE S
Deactivate(S, d, t) ==
    IF ~S.dot[d].active THEN S
    ELSE [Cancel(LastTick(S, d, t), d) EXCEPT
             !.dot[d] = Idle,
             !.channel[CasterOf(d)] = IF d \in Channels THEN Nil ELSE @]
DeactivateAll(S, ds, t) == FoldSet(LAMBDA d, R : Deactivate(R, d, t), S, ds)
\* Mutant: the channel ends with its action still due.
MutCut(S, d, t) == Deactivate(S, d, t)

\* Interrupt, and every other end of a channel before its time
Cut(S, d, t) == Deactivate(StopTicking(S, d), d, t)

\* Mutant: the channel is taken before the running one ends.
MutTakeChannel(S, d, t) ==
    LET c == CasterOf(d)
        taken == [S EXCEPT !.channel[c] = d]
    IN  IF d \notin Channels THEN S
        ELSE IF S.channel[c] = Nil THEN taken ELSE Cut(taken, S.channel[c], t)

\* The OnGain of a channel: the running one ends first, then this one is the caster's.
TakeChannel(S, d, t) ==
    LET c == CasterOf(d)
        free == IF S.channel[c] = Nil THEN S ELSE Cut(S, S.channel[c], t)
    IN  IF d \in Channels THEN [free EXCEPT !.channel[c] = d] ELSE S

Activate(S, d, t, p, n) ==
    LET up == [S EXCEPT !.dot[d] = [active |-> TRUE, expires |-> t + p * n, duration |-> p * n,
                                    period |-> p, left |-> n, done |-> 0, tickAt |-> Nil],
                        !.last[d] = t]
    IN  TakeChannel(AddAction(up, d, t + p), d, t)

-----------------------------------------------------------------------------
(* What happens to the dots from outside *)

Acts == ops < MaxOps /\ ops' = ops + 1 /\ UNCHANGED <<now, twice>>

HigherRankActive(d) ==
    /\ RankOf(d) < Max({RankOf(e) : e \in Ranks(d)})
    /\ \E e \in Rivals(d) : dot[e].active /\ RankOf(e) > RankOf(d)

\* replaceOtherRanks, once no higher rank keeps the dot out
Replaced(d) == IF GroupOf(d) = Nil THEN {} ELSE Rivals(d)

\* Dot.Apply. A rank that a higher one keeps out changes nothing, nor does one on an immune unit.
Apply(d) ==
    LET p == CalcTickPeriod(d, speed[CasterOf(d)])
    IN  /\ Acts
        /\ GroupOf(d) # Nil => ~HigherRankActive(d)
        /\ Becomes(Activate(DeactivateAll(State, Replaced(d) \cup {d}, now), d, now,
                            p, FreshCount(d, p)))
        /\ UNCHANGED speed

\* Dot.DurationExtend by the base duration: the timer goes on, at least one more instant away.
Extend(d) ==
    LET was == dot[d]
        by == CountOf(d) * LengthOf(d)
        p == CalcTickPeriod(d, speed[CasterOf(d)])
        next == Max({was.tickAt - was.period + p, now + 1})
        total == Min({was.expires - now + by, p * (TickCount(d, p) - 1) + next - now})
        n == RoundEven(total - (next - now), p) + 1
        duration == next - now + (n - 1) * p
        S == [Cancel(State, d) EXCEPT !.dot[d] =
                [was EXCEPT !.period = p, !.left = n, !.duration = duration,
                            !.expires = now + duration]]
    IN  /\ Acts
        /\ d \in Extended /\ was.active
        /\ Becomes(AddAction(S, d, next))
        /\ UNCHANGED speed

\* Aura.Refresh alone: the ticks keep their timer and their count.
Refresh(d) ==
    /\ Acts
    /\ d \in Refreshed /\ dot[d].active
    /\ dot' = [dot EXCEPT ![d].expires = now + dot[d].duration]
    /\ UNCHANGED <<speed, queue, channel, last, strays>>

\* A spell or a trigger that uses the dot up ends its aura.
Consume(d) ==
    /\ Acts
    /\ dot[d].active /\ d \notin Channels
    /\ Becomes(Deactivate(State, d, now))
    /\ UNCHANGED speed

\* Unit.Interrupt
Interrupt(c) ==
    /\ Acts
    /\ channel[c] # Nil
    /\ Becomes(Cut(State, channel[c], now))
    /\ UNCHANGED speed

\* DoNextAction while channeling: a channel without ticks ends, another may be interrupted.
LookAtChannel(c) ==
    /\ Acts
    /\ channel[c] # Nil
    /\ Becomes(IF dot[channel[c]].left = 0 THEN Deactivate(State, channel[c], now)
                                           ELSE Cut(State, channel[c], now))
    /\ UNCHANGED speed

\* Target.Disable: the channels on the target end first, with no tick.
On(u) == {d \in Dots : UnitOf(d) = u}
Running(u) == {d \in On(u) : d \in Channels /\ channel[CasterOf(d)] = d}
Disable(u) ==
    /\ Acts
    /\ LET cut == FoldSet(LAMBDA d, R : Cut(R, d, now), State, Running(u))
       IN  Becomes(DeactivateAll(cut, On(u), now))
    /\ UNCHANGED speed

ChangeSpeed(c) ==
    /\ Acts
    /\ \E s \in Speeds \ {speed[c]} : speed' = [speed EXCEPT ![c] = s]
    /\ UNCHANGED <<dot, queue, channel, last, strays>>

-----------------------------------------------------------------------------
(* The event loop *)

\* The dots, at an instant at which none has ticked yet.
Afresh == [State EXCEPT !.strays = {}]

\* Time moves on to what comes next, which nothing on the queue is before, and the auras whose
\* time is up end. Between two events no aura ends, so one may be late.
Advance(t) ==
    /\ now < t
    /\ queue # <<>> => t <= Head(queue).at
    /\ now' = t
    /\ Becomes(DeactivateAll(Afresh, {d \in Dots : dot[d].expires <= t}, t))
    /\ twice' = {}
    /\ UNCHANGED <<speed, ops>>

\* Mutant: the next tick comes after the period a dot cast now would have.
MutNextTick(S, d) == now + CalcTickPeriod(d, speed[CasterOf(d)])

NextTick(S, d) == now + S.dot[d].period

\* periodicTick. Class code in the tick may end the dot's aura: the action, which is off the
\* queue, still reads this instant, so OnExpire ticks a second time. It may also end a channel
\* as an interruption does, and so may periodicTick after the tick. Otherwise the action is due
\* again one period later, unless the dot is over.
PeriodicTick ==
    /\ queue # <<>> /\ Head(queue).at = now
    /\ LET d == Head(queue).dot
           S == TickOnce([State EXCEPT !.queue = Tail(@)], d, now)
           on == S.dot[d].active /\ (d \in Channels => S.dot[d].left > 0)
       IN  \/ Becomes(IF on THEN AddAction(S, d, NextTick(S, d)) ELSE S) /\ UNCHANGED twice
           \/ d \in Channels /\ Becomes(Cut(S, d, now)) /\ UNCHANGED twice
           \/ Becomes(Deactivate(S, d, now)) /\ twice' = twice \cup {d}
    /\ UNCHANGED <<now, speed, ops>>

\* Cleanup ends every aura at the iteration's last instant; the next iteration starts afresh.
EndIteration ==
    /\ \A i \in DOMAIN queue : queue[i].at > Horizon
    /\ dot' = DeactivateAll(Afresh, Dots, Horizon).dot
    /\ strays' = DeactivateAll(Afresh, Dots, Horizon).strays /\ twice' = {}
    /\ now' = 0 /\ ops' = 0
    /\ speed' = [c \in Casters |-> 1]
    /\ queue' = <<>>
    /\ channel' = [c \in Casters |-> Nil]
    /\ last' = [d \in Dots |-> 0]

Next ==
    \/ \E d \in Dots : Apply(d) \/ Extend(d) \/ Refresh(d) \/ Consume(d)
    \/ \E c \in Casters : Interrupt(c) \/ LookAtChannel(c) \/ ChangeSpeed(c)
    \/ \E u \in Units : Disable(u)
    \/ \E t \in 1..Horizon : Advance(t)
    \/ PeriodicTick
    \/ EndIteration

Spec == Init /\ [][Next]_vars

-----------------------------------------------------------------------------
(* Properties *)

Active == {d \in Dots : dot[d].active}
EntriesOf(d) == {i \in DOMAIN queue : queue[i].dot = d}

TypeOK ==
    /\ now \in 0..Horizon /\ ops \in 0..MaxOps
    /\ speed \in [Casters -> Speeds]
    /\ DOMAIN dot = Dots
    /\ \A d \in Dots :
          /\ dot[d].active \in BOOLEAN
          /\ \A f \in {"expires", "duration", "period", "done"} : dot[d][f] \in Nat
          /\ dot[d].left \in Int /\ dot[d].tickAt \in Nat \cup {Nil}
    /\ queue \in Seq([dot : Dots, at : Nat])
    /\ channel \in [Casters -> Dots \cup {Nil}]
    /\ last \in [Dots -> 0..Horizon]
    /\ strays \subseteq Dots /\ twice \subseteq Dots

\* Every variable has its type, and a dot and its action keep together: a dot that is up has
\* exactly one tick on the queue, due at the time the dot knows and not in the past, and one
\* that is down has none, whatever ended, replaced or moved it (dot.go: OnGain, OnExpire,
\* durationExtendInternal, stopTicking, periodicTick).
OneTickQueued ==
    /\ TypeOK
    /\ \A d \in Active :
          \E i \in DOMAIN queue :
              EntriesOf(d) = {i} /\ queue[i].at = dot[d].tickAt /\ queue[i].at >= now
    /\ \A d \in Dots \ Active : EntriesOf(d) = {} /\ dot[d].tickAt = Nil

\* remainingTicks is true: the ticks to come, one a period, reach to the very end of the aura, so
\* that the damage not yet done (OutstandingDmg, which an extension spreads anew) is what the
\* remaining ticks would do. A dot that nothing extends counts its ticks done to the full
\* number of its duration. A dot whose aura is refreshed alone promises neither.
RemainingIsTrue ==
    \A d \in Active \ Refreshed :
        /\ dot[d].left >= 1
        /\ dot[d].expires = dot[d].tickAt + (dot[d].left - 1) * dot[d].period
        /\ d \notin Extended => (dot[d].done + dot[d].left) * dot[d].period = dot[d].duration

\* No tick is done twice or between the beats: each comes one period after the tick or the
\* application before it, at an expiry, a replacement or a refresh as well, and never two at one
\* instant after an extension (the last tick that OnExpire does, and periodicTick). The one
\* exception: a dot that class code ends in its own tick ticks twice at that instant, for the
\* action still reads it when OnExpire looks (dot.go:361, 420).
TicksKeepTime == strays \subseteq twice

\* A caster keeps one rank of a periodic on a unit: the ranks replaced are down before the new one
\* is up, and a rank below one that is up does not land (replaceOtherRanks, higherRankActive). And
\* ChanneledDot is the one channel of the caster that is up, also when one channel starts over
\* another, whose end clears it (newDot's OnGain and OnExpire).
OnePerCaster ==
    /\ \A d, e \in Active : (GroupOf(d) # Nil /\ e \in Rivals(d)) => d = e
    /\ \A c \in Casters :
          {d \in Active \cap Channels : CasterOf(d) = c} = {channel[c]} \ {Nil}

\* "Starting a channel ends the unit's running one with no further tick": nor does a channel tick
\* that is interrupted, or whose target goes away at the instant it was due.
CutWithoutTick ==
    [][\A c \in Casters :
          LET d == channel[c]
          IN  (d # Nil /\ channel'[c] # d /\ ops' > ops) => last'[d] = last[d]]_vars
=============================================================================
