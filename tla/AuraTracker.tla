------------------------------ MODULE AuraTracker ------------------------------
(***************************************************************************)
(* Aura tracking (sim/core/aura.go, and the tracker part of sim/core/      *)
(* sim.go): every unit keeps the auras that may expire in one unordered    *)
(* list and those that listen to an event in a list per event, with the    *)
(* position in each list kept in the aura itself; it caches the earliest   *)
(* expiry of its list, and the simulation caches the earliest of the       *)
(* caches.                                                                 *)
(*                                                                         *)
(* An aura that is gained, fades or hears an event runs class code, which  *)
(* gains and ends other auras, fires events and dismisses or summons pets, *)
(* in the middle of the loop that is expiring or notifying auras.  In the  *)
(* code such a callback is the last thing Activate and Deactivate do, so a *)
(* nest of them is a sequence of calls; the loops are not: each loop under *)
(* way is a frame on `stack', and a frame's `calling' says that class code *)
(* runs from it.  The bottom frame is the event loop's.                    *)
(***************************************************************************)
EXTENDS Integers, Sequences, SequencesExt

CONSTANTS
    Units,         \* units with a tracker
    Pets,          \* those whose tracker is listed only while they are enabled
    Targets,       \* the enemies, which can be disabled too but stay listed
    ResetOrder,    \* the order in which units are reset (targets, owners, pets)
    FinishOrder,   \* the order in which they are finished (pets, owners, targets)
    Auras,
    Permanent,     \* auras whose Duration is NeverExpires
    Events,        \* callback lists: onCastComplete, onSpellHitDealt, ... (all alike)
    HomeOf(_),     \* Aura.Unit
    HearersOf(_),  \* the auras with a callback for an event
    Durations,     \* the lengths an aura that expires may be given
    Horizon,       \* the end of the iteration
    Never,         \* NeverExpires
    Nil,           \* an unused slot
    Capacity,      \* capacity of sim.trackers (it is warm: no append reallocates)
    MaxOps,        \* bound: calls made by class code
    MaxDepth,      \* bound: frames on the stack
    MaxIterations, \* bound: iterations of the simulation
    Resummon       \* whether class code run by one advance may dismiss a pet
                   \* and then summon one (no class does)

ASSUME TrackerAssumption ==
    /\ Pets \subseteq Units /\ Targets \subseteq Units /\ Pets \cap Targets = {}
    /\ ResetOrder \in Seq(Units) /\ FinishOrder \in Seq(Units)
    /\ \A u \in Units : \E i \in 1..Len(ResetOrder) : ResetOrder[i] = u
    /\ \A u \in Units : \E i \in 1..Len(FinishOrder) : FinishOrder[i] = u
    /\ \A i, j \in 1..Len(ResetOrder) : ResetOrder[i] = ResetOrder[j] => i = j
    /\ Permanent \subseteq Auras
    /\ \A a \in Auras : HomeOf(a) \in Units
    /\ \A e \in Events : HearersOf(e) \subseteq Auras
    /\ "expiring" \notin Events
    /\ Horizon \in Nat /\ Never \in Nat /\ Durations \subseteq Nat \ {0}
    /\ \A d \in Durations : Horizon + d < Never
    /\ Nil \notin Units
    /\ Capacity \in Nat /\ MaxOps \in Nat /\ MaxIterations \in Nat
    /\ MaxDepth \in Nat /\ MaxDepth >= 2
    /\ Resummon \in BOOLEAN

Lists == Events \cup {"expiring"}

\* The lists an aura joins when it is gained.
Joins(a, l) == IF l = "expiring" THEN a \notin Permanent ELSE a \in HearersOf(l)

VARIABLES
    now,        \* sim.CurrentTime
    pc,         \* "resetting", "running" or "finishing"
    turn,       \* place in ResetOrder or FinishOrder of the unit under way
    active,     \* Aura.active
    expires,    \* Aura.expires
    list,       \* auraTracker.activeAuras and the callback lists, per unit
    index,      \* Aura.activeIndex, onCastCompleteIndex, ...; 0 is Inactive
    minExpires, \* auraTracker.minExpires
    enabled,    \* Unit.enabled
    trackers,   \* backing array of sim.trackers
    listed,     \* its length
    minTracker, \* sim.minTrackerTime
    buffers,    \* auraTracker.dispatchBuffers
    depth,      \* auraTracker.dispatchDepth
    stack,      \* loops under way
    removed,    \* a tracker left the list since the advance under way began
    ops,        \* calls made by class code so far
    iter        \* iteration under way

auraVars == <<active, expires, list, index>>
simVars  == <<enabled, trackers, listed, minTracker, removed>>
sendVars == <<buffers, depth>>
runVars  == <<now, pc, turn, iter>>
vars == <<runVars, auraVars, minExpires, simVars, sendVars, stack, ops>>

-----------------------------------------------------------------------------
(* Lists with their positions *)

Earlier(s, t) == IF t < s THEN t ELSE s

\* Mutant: the place is filled and the slice keeps its length.
MutSwapRemove(s, i) == [s EXCEPT ![i] = s[Len(s)]]

\* removeBySwappingToBack.
SwapRemove(s, i) == [j \in 1..(Len(s) - 1) |-> IF j = i THEN s[Len(s)] ELSE s[j]]

\* The positions after a joins the lists it belongs to, and after it leaves them.
Joined(a) ==
    [list EXCEPT ![HomeOf(a)] =
        [l \in Lists |-> IF Joins(a, l) THEN Append(@[l], a) ELSE @[l]]]

IndexJoined(a) ==
    [index EXCEPT ![a] =
        [l \in Lists |-> IF Joins(a, l) THEN Len(list[HomeOf(a)][l]) + 1 ELSE @[l]]]

Left(a) ==
    [list EXCEPT ![HomeOf(a)] =
        [l \in Lists |-> IF index[a][l] = 0 THEN @[l] ELSE SwapRemove(@[l], index[a][l])]]

\* Mutant: the aura that took the place keeps its old position.
MutIndexLeft(a) == [index EXCEPT ![a] = [l \in Lists |-> 0]]

IndexLeft(a) ==
    [b \in Auras |-> [l \in Lists |->
        LET s == list[HomeOf(a)][l]
            i == index[a][l]
        IN CASE b = a -> 0
             [] b # a /\ i # 0 /\ i < Len(s) /\ b = s[Len(s)] -> i
             [] OTHER -> index[b][l]]]

-----------------------------------------------------------------------------
(* What class code calls *)

Frame == Last(stack)
Pop == SubSeq(stack, 1, Len(stack) - 1)
Push(f) == stack' = Append(stack, f)
Calls(b) == stack' = [stack EXCEPT ![Len(stack)].calling = b]

Call == Frame.calling /\ ops < MaxOps /\ ops' = ops + 1 /\ UNCHANGED runVars

InWalk == \E i \in 1..Len(stack) : stack[i].type = "advance"

\* While units are reset, and while they are finished, class code leaves the
\* auras of the others alone: those not yet reset, those already finished.
WithinReach(u) ==
    /\ pc = "resetting" => \E i \in 1..turn : ResetOrder[i] = u
    /\ pc = "finishing" => \E i \in turn..Len(FinishOrder) : FinishOrder[i] = u

End(a, d) == IF a \in Permanent THEN Never ELSE now + d

\* Mutant: the refresh lowers the unit's cache and not the simulation's.
MutRefresh(a, t) ==
    /\ expires' = [expires EXCEPT ![a] = t]
    /\ minExpires' = [minExpires EXCEPT ![HomeOf(a)] = Earlier(@, t)]
    /\ UNCHANGED minTracker

\* Aura.Refresh: the caches are lowered to the new end, never raised to it.
Refresh(a, t) ==
    /\ expires' = [expires EXCEPT ![a] = t]
    /\ minExpires' = [minExpires EXCEPT ![HomeOf(a)] = Earlier(@, t)]
    /\ minTracker' = IF t < minExpires[HomeOf(a)] THEN Earlier(minTracker, t) ELSE minTracker

\* Aura.Activate; an aura that is active already is only refreshed.
Activate(a, d) ==
    /\ Call
    /\ WithinReach(HomeOf(a))
    /\ Refresh(a, End(a, d))
    /\ IF active[a]
         THEN UNCHANGED <<active, list, index>>
         ELSE /\ active' = [active EXCEPT ![a] = TRUE]
              /\ list' = Joined(a)
              /\ index' = IndexJoined(a)
    /\ UNCHANGED <<enabled, trackers, listed, removed, sendVars, stack>>

\* Aura.Deactivate of an active aura: it leaves its lists; no cache is touched.
Fade(a) ==
    /\ active' = [active EXCEPT ![a] = FALSE]
    /\ expires' = [expires EXCEPT ![a] = 0]
    /\ list' = Left(a)
    /\ index' = IndexLeft(a)

Deactivate(a) ==
    /\ Call
    /\ active[a]
    /\ Fade(a)
    /\ UNCHANGED <<minExpires, simVars, sendVars, stack>>

\* Mutant: the nested event takes the buffer of the event it is fired from.
MutFire(u, e) ==
    /\ Call
    /\ list[u][e] # <<>> /\ Len(stack) < MaxDepth
    /\ depth' = [depth EXCEPT ![u] = @ + 1]
    /\ buffers' = [buffers EXCEPT ![u][1] = list[u][e]]
    /\ Push([type |-> "event", unit |-> u, slot |-> 1, next |-> 1,
             heard |-> list[u][e], calling |-> FALSE])
    /\ UNCHANGED <<auraVars, minExpires, simVars>>

\* OnCastComplete, OnSpellHitDealt, ...: beginDispatch copies the list into the
\* buffer of this depth.  (An event nobody hears does nothing.)
Fire(u, e) ==
    /\ Call
    /\ list[u][e] # <<>> /\ Len(stack) < MaxDepth
    /\ depth' = [depth EXCEPT ![u] = @ + 1]
    /\ buffers' = [buffers EXCEPT ![u][depth[u] + 1] = list[u][e]]
    /\ Push([type |-> "event", unit |-> u, slot |-> depth[u] + 1, next |-> 1,
             heard |-> list[u][e], calling |-> FALSE])
    /\ UNCHANGED <<auraVars, minExpires, simVars>>

\* Pet.Disable, Target.Disable with expireAuras: class code runs first, then
\* expireAll.
Dismiss(u) ==
    /\ Call
    /\ enabled[u] /\ Len(stack) < MaxDepth
    /\ enabled' = [enabled EXCEPT ![u] = FALSE]
    /\ Push([type |-> "expireAll", unit |-> u, calling |-> TRUE])
    /\ UNCHANGED <<auraVars, minExpires, trackers, listed, minTracker, removed, sendVars>>

\* Pet.Enable, with addTracker and rescheduleTracker; Target.Enable, whose
\* tracker never left.
Summon(u) ==
    /\ Call
    /\ u \in Pets \cup Targets /\ ~enabled[u] /\ WithinReach(u)
    /\ enabled' = [enabled EXCEPT ![u] = TRUE]
    /\ IF u \in Pets
         THEN /\ removed => Resummon
              /\ listed < Capacity
              /\ trackers' = [trackers EXCEPT ![listed + 1] = u]
              /\ listed' = listed + 1
              /\ minTracker' = Earlier(minTracker, minExpires[u])
         ELSE UNCHANGED <<trackers, listed, minTracker>>
    /\ UNCHANGED <<auraVars, minExpires, removed, sendVars, stack>>

ClassCode ==
    \/ \E a \in Auras, d \in Durations : Activate(a, d)
    \/ \E a \in Auras : Deactivate(a)
    \/ \E u \in Units, e \in Events : Fire(u, e)
    \/ \E u \in Pets \cup Targets : Dismiss(u)
    \/ \E u \in Units : Summon(u)

-----------------------------------------------------------------------------
(* The loops *)

\* The next aura of the event's copy: it hears the event if it is active now.
HearNext ==
    /\ Frame.type = "event" /\ Frame.next <= Len(Frame.heard)
    /\ LET a == buffers[Frame.unit][Frame.slot][Frame.next] IN
         stack' = [stack EXCEPT ![Len(stack)].next = @ + 1,
                                ![Len(stack)].calling = active[a]]
    /\ UNCHANGED <<runVars, auraVars, minExpires, simVars, sendVars, ops>>

\* endDispatch.
EventEnds ==
    /\ Frame.type = "event" /\ Frame.next > Len(Frame.heard)
    /\ depth' = [depth EXCEPT ![Frame.unit] = @ - 1]
    /\ stack' = Pop
    /\ UNCHANGED <<runVars, auraVars, minExpires, simVars, buffers, ops>>

\* sim.advance: the clock moves, and the trackers are walked if one of them has
\* an aura to expire.
Advance(t) ==
    /\ Len(stack) = 1 /\ pc = "running" /\ t > now
    /\ now' = t
    /\ IF t >= minTracker
         THEN /\ minTracker' = Never
              /\ removed' = FALSE
              /\ Push([type |-> "advance", unit |-> Nil, next |-> 1, size |-> listed, calling |-> FALSE])
         ELSE UNCHANGED <<minTracker, removed, stack>>
    /\ UNCHANGED <<pc, turn, iter, auraVars, minExpires, enabled, trackers, listed, sendVars, ops>>

IsEarliest(m, times) == m \in times \cup {Never} /\ \A t \in times \cup {Never} : m <= t

\* The tracker the walk is at: its range variable was set when it got there.
Walked == IF Frame.calling THEN Frame.unit ELSE trackers[Frame.next]
Expiring(u) == list[u]["expiring"]
Overdue(u, i) == expires[Expiring(u)[i]] <= now
ExpiresOf(u, n) == {expires[Expiring(u)[i]] : i \in 1..n}

\* tryAdvance on a tracker with nothing to expire: it reports its cache.
TrackerPasses ==
    /\ Frame.type = "advance" /\ Frame.next <= Frame.size /\ ~Frame.calling
    /\ now < minExpires[Walked]
    /\ minTracker' = Earlier(minTracker, minExpires[Walked])
    /\ stack' = [stack EXCEPT ![Len(stack)].next = @ + 1]
    /\ UNCHANGED <<runVars, auraVars, minExpires, enabled, trackers, listed, removed, sendVars, ops>>

\* auraTracker.advance, started or restarted after a callback.
Scans == Frame.type = "advance" /\ Frame.next <= Frame.size
         /\ (Frame.calling \/ now >= minExpires[Walked])

\* The first aura of the list that is due ends, and the scan will start again.
AuraExpires ==
    /\ Scans
    /\ \E i \in 1..Len(Expiring(Walked)) :
         /\ Overdue(Walked, i)
         /\ \A j \in 1..(i - 1) : ~Overdue(Walked, j)
         /\ \E m \in ExpiresOf(Walked, i - 1) \cup {Never} :
               /\ IsEarliest(m, ExpiresOf(Walked, i - 1))
               /\ minExpires' = [minExpires EXCEPT ![Walked] = m]
         /\ Fade(Expiring(Walked)[i])
    /\ stack' = [stack EXCEPT ![Len(stack)].unit = Walked, ![Len(stack)].calling = TRUE]
    /\ UNCHANGED <<runVars, simVars, sendVars, ops>>

\* Mutant: the scan ends after one expiry instead of starting again.
MutScanEnds ==
    /\ Scans
    /\ Frame.calling \/ \A i \in 1..Len(Expiring(Walked)) : ~Overdue(Walked, i)
    /\ \E m \in ExpiresOf(Walked, Len(Expiring(Walked))) \cup {Never} :
         /\ IsEarliest(m, ExpiresOf(Walked, Len(Expiring(Walked))))
         /\ minExpires' = [minExpires EXCEPT ![Walked] = m]
         /\ minTracker' = Earlier(minTracker, m)
    /\ stack' = [stack EXCEPT ![Len(stack)].next = @ + 1, ![Len(stack)].calling = FALSE]
    /\ UNCHANGED <<runVars, auraVars, enabled, trackers, listed, removed, sendVars, ops>>

\* Nothing is due any more: the cache is the list's earliest end.
ScanEnds ==
    /\ Scans
    /\ \A i \in 1..Len(Expiring(Walked)) : ~Overdue(Walked, i)
    /\ \E m \in ExpiresOf(Walked, Len(Expiring(Walked))) \cup {Never} :
         /\ IsEarliest(m, ExpiresOf(Walked, Len(Expiring(Walked))))
         /\ minExpires' = [minExpires EXCEPT ![Walked] = m]
         /\ minTracker' = Earlier(minTracker, m)
    /\ stack' = [stack EXCEPT ![Len(stack)].next = @ + 1, ![Len(stack)].calling = FALSE]
    /\ UNCHANGED <<runVars, auraVars, enabled, trackers, listed, removed, sendVars, ops>>

AdvanceEnds ==
    /\ Frame.type = "advance" /\ Frame.next > Frame.size
    /\ stack' = Pop
    /\ removed' = FALSE
    /\ UNCHANGED <<runVars, auraVars, minExpires, enabled, trackers, listed, minTracker, sendVars, ops>>

\* expireAll: the first aura of the list ends, whatever its time.
ExpireAllStep ==
    /\ Frame.type = "expireAll" /\ Expiring(Frame.unit) # <<>>
    /\ Fade(Expiring(Frame.unit)[1])
    /\ Calls(TRUE)
    /\ UNCHANGED <<runVars, minExpires, simVars, sendVars, ops>>

\* removeTracker: the last tracker of the list takes the place.
Delist(u) ==
    IF u \in Pets /\ \E i \in 1..listed : trackers[i] = u
      THEN /\ \E i \in 1..listed :
                /\ trackers[i] = u /\ \A j \in 1..(i - 1) : trackers[j] # u
                /\ trackers' = [trackers EXCEPT ![i] = trackers[listed]]
           /\ listed' = listed - 1
           /\ removed' = (removed \/ InWalk)
      ELSE UNCHANGED <<trackers, listed, removed>>

ExpireAllEnds ==
    /\ Frame.type = "expireAll" /\ Expiring(Frame.unit) = <<>>
    /\ minExpires' = [minExpires EXCEPT ![Frame.unit] = Never]
    /\ Delist(Frame.unit)
    /\ stack' = Pop
    /\ UNCHANGED <<runVars, auraVars, enabled, minTracker, sendVars, ops>>

-----------------------------------------------------------------------------
(* Iterations *)

Base(b) == [type |-> "loop", calling |-> b]

Init ==
    /\ now = 0 /\ pc = "resetting" /\ turn = 0 /\ iter = 1 /\ ops = 0
    /\ active = [a \in Auras |-> FALSE]
    /\ expires = [a \in Auras |-> 0]
    /\ list = [u \in Units |-> [l \in Lists |-> <<>>]]
    /\ index = [a \in Auras |-> [l \in Lists |-> 0]]
    /\ minExpires = [u \in Units |-> Never]
    /\ enabled = [u \in Units |-> u \in Targets]
    /\ trackers = [i \in 1..Capacity |-> Nil] /\ listed = 0 /\ minTracker = Never
    /\ removed = FALSE
    /\ buffers = [u \in Units |-> [d \in 1..MaxDepth |-> <<>>]]
    /\ depth = [u \in Units |-> 0]
    /\ stack = <<Base(FALSE)>>

\* A unit's reset has run its callbacks: its tracker is listed, unless it is a pet.
Settled ==
    IF turn = 0 \/ ResetOrder[turn] \in Pets
      THEN UNCHANGED <<trackers, listed, minTracker>>
      ELSE /\ trackers' = [trackers EXCEPT ![listed + 1] = ResetOrder[turn]]
           /\ listed' = listed + 1
           /\ minTracker' = Earlier(minTracker, minExpires[ResetOrder[turn]])

\* Unit.reset, auraTracker.reset: the lists are emptied, then class code runs.
ResetUnit ==
    /\ pc = "resetting" /\ Len(stack) = 1 /\ turn < Len(ResetOrder)
    /\ listed < Capacity
    /\ Settled
    /\ turn' = turn + 1
    /\ LET u == ResetOrder[turn + 1] IN
         /\ list' = [list EXCEPT ![u] = [l \in Lists |-> <<>>]]
         /\ minExpires' = [minExpires EXCEPT ![u] = Never]
         /\ enabled' = [enabled EXCEPT ![u] = IF u \in Targets THEN @ ELSE u \notin Pets]
    /\ Calls(TRUE)
    /\ UNCHANGED <<now, pc, iter, active, expires, index, removed, sendVars, ops>>

ResetsEnd ==
    /\ pc = "resetting" /\ Len(stack) = 1 /\ turn = Len(ResetOrder)
    /\ listed < Capacity
    /\ Settled
    /\ pc' = "running"
    /\ Calls(TRUE)
    /\ UNCHANGED <<now, turn, iter, auraVars, minExpires, enabled, removed, sendVars, ops>>

\* Cleanup sets the clock to the end and finishes the units.
FinishBegins ==
    /\ pc = "running" /\ Len(stack) = 1
    /\ pc' = "finishing" /\ turn' = 1 /\ now' = Horizon
    /\ Calls(FALSE)
    /\ UNCHANGED <<iter, auraVars, minExpires, simVars, sendVars, ops>>

\* auraTracker.doneIteration: every active aura ends, the permanent ones too.
\* (It takes them in the order they were registered; any order is allowed here.)
FinishAura ==
    /\ pc = "finishing" /\ Len(stack) = 1 /\ turn <= Len(FinishOrder)
    /\ \E a \in Auras : HomeOf(a) = FinishOrder[turn] /\ active[a] /\ Fade(a)
    /\ Calls(TRUE)
    /\ UNCHANGED <<runVars, minExpires, simVars, sendVars, ops>>

\* Mutant: a unit is finished once the auras that may expire have ended.
MutFinishUnit ==
    /\ pc = "finishing" /\ Len(stack) = 1 /\ turn <= Len(FinishOrder)
    /\ LET u == FinishOrder[turn] IN
         /\ \A a \in Auras \ Permanent : HomeOf(a) = u => ~active[a]
         /\ IF u \in Pets /\ enabled[u]
              THEN /\ enabled' = [enabled EXCEPT ![u] = FALSE]
                   /\ stack' = <<Base(FALSE), [type |-> "expireAll", unit |-> u, calling |-> TRUE]>>
              ELSE Calls(FALSE) /\ UNCHANGED enabled
    /\ turn' = turn + 1
    /\ UNCHANGED <<now, pc, iter, auraVars, minExpires, trackers, listed, minTracker, removed,
                   sendVars, ops>>

\* None is left; a pet that is still enabled is dismissed.
FinishUnit ==
    /\ pc = "finishing" /\ Len(stack) = 1 /\ turn <= Len(FinishOrder)
    /\ LET u == FinishOrder[turn] IN
         /\ \A a \in Auras : HomeOf(a) = u => ~active[a]
         /\ IF u \in Pets /\ enabled[u]
              THEN /\ enabled' = [enabled EXCEPT ![u] = FALSE]
                   /\ stack' = <<Base(FALSE), [type |-> "expireAll", unit |-> u, calling |-> TRUE]>>
              ELSE Calls(FALSE) /\ UNCHANGED enabled
    /\ turn' = turn + 1
    /\ UNCHANGED <<now, pc, iter, auraVars, minExpires, trackers, listed, minTracker, removed,
                   sendVars, ops>>

\* Simulation.reset: the trackers are delisted and the units reset.
NextIteration ==
    /\ pc = "finishing" /\ Len(stack) = 1 /\ turn > Len(FinishOrder)
    /\ iter < MaxIterations
    /\ iter' = iter + 1 /\ pc' = "resetting" /\ turn' = 0 /\ now' = 0
    /\ listed' = 0 /\ minTracker' = Never
    /\ UNCHANGED <<auraVars, minExpires, enabled, trackers, removed, sendVars, stack, ops>>

LoopStep ==
    \/ HearNext \/ EventEnds
    \/ TrackerPasses \/ AuraExpires \/ ScanEnds \/ AdvanceEnds
    \/ ExpireAllStep \/ ExpireAllEnds
    \/ ResetUnit \/ ResetsEnd \/ FinishBegins \/ FinishAura \/ FinishUnit \/ NextIteration

Next == ClassCode \/ LoopStep \/ \E t \in 1..Horizon : Advance(t)

\* One goroutine runs every loop to its end, and class code returns.
Spec == Init /\ [][Next]_vars /\ WF_vars(LoopStep)
-----------------------------------------------------------------------------
(* Properties *)

FrameTypes ==
         [type : {"loop"}, calling : BOOLEAN]
    \cup [type : {"event"}, unit : Units, slot : 1..MaxDepth, next : Nat \ {0},
          heard : Seq(Auras), calling : BOOLEAN]
    \cup [type : {"advance"}, unit : Units \cup {Nil}, next : Nat \ {0}, size : 0..Capacity, calling : BOOLEAN]
    \cup [type : {"expireAll"}, unit : Units, calling : BOOLEAN]

\* The types of the state, the depth of the nested events among them: endDispatch
\* gives back what beginDispatch took, or the depth runs away.
TypeOK ==
    /\ now \in Nat /\ pc \in {"resetting", "running", "finishing"}
    /\ turn \in Nat /\ iter \in Nat /\ ops \in 0..MaxOps
    /\ active \in [Auras -> BOOLEAN] /\ expires \in [Auras -> Nat]
    /\ list \in [Units -> [Lists -> Seq(Auras)]]
    /\ index \in [Auras -> [Lists -> Nat]]
    /\ minExpires \in [Units -> Nat] /\ minTracker \in Nat
    /\ enabled \in [Units -> BOOLEAN]
    /\ trackers \in [1..Capacity -> Units \cup {Nil}] /\ listed \in 0..Capacity
    /\ removed \in BOOLEAN
    /\ buffers \in [Units -> [1..MaxDepth -> Seq(Auras)]]
    /\ depth \in [Units -> 0..(MaxDepth - 1)]
    /\ stack \in Seq(FrameTypes) /\ stack # <<>> /\ Len(stack) <= MaxDepth

\* Whatever callbacks gained and ended in between, an aura is in a list exactly
\* at the position it remembers, and it is in the lists it belongs to exactly
\* while it is active: the swap-removals never misplace another aura.
IndexesAgree ==
    /\ \A u \in Units, l \in Lists : \A i \in 1..Len(list[u][l]) :
          LET a == list[u][l][i] IN HomeOf(a) = u /\ index[a][l] = i
    /\ \A a \in Auras, l \in Lists :
          /\ index[a][l] # 0 <=> active[a] /\ Joins(a, l)
          /\ index[a][l] \in 0..Len(list[HomeOf(a)][l])

\* The advance under way has still to take in u's cache: it is expiring u's auras,
\* or u's tracker stands in a place it comes to.
StillWalked(u) == \E f \in 1..Len(stack) : stack[f].type = "advance" /\
    \/ stack[f].calling /\ stack[f].unit = u
    \/ \E j \in (stack[f].next + 1)..stack[f].size : trackers[j] = u
    \/ ~stack[f].calling /\ stack[f].next <= stack[f].size /\ trackers[stack[f].next] = u
Listed(u) == \E i \in 1..listed : trackers[i] = u

\* The two caches never run late ("might be stale (too low)", aura.go): a unit's
\* cache is no later than the end of any of its auras, and the simulation's is no
\* later than that of any listed tracker, except where the advance under way has
\* yet to come.  A cache that is late keeps an aura alive after its time.
CacheNeverLate ==
    \A u \in Units : StillWalked(u) \/
        /\ \A i \in 1..Len(Expiring(u)) : minExpires[u] <= expires[Expiring(u)[i]]
        /\ Listed(u) => minTracker <= minExpires[u]

\* When an advance ends, no aura of a unit that was listed all along (one that is
\* not a pet) is left past its time, however the callbacks of the auras that
\* expired ended and prolonged others.
AdvanceLeavesNoneOverdue ==
    [][AdvanceEnds => \A u \in Units \ Pets : \A i \in 1..Len(Expiring(u)) :
                          expires[Expiring(u)[i]] > now]_vars

\* Every variable has its type, with no more events under way than there are
\* buffers, and an event reaches the auras its list held when it was fired,
\* whatever events were fired while it was handled: none takes its buffer.
DispatchIntact ==
    /\ TypeOK
    /\ \A f \in 1..Len(stack) : stack[f].type = "event" =>
          \A i \in stack[f].next..Len(stack[f].heard) :
              /\ Len(buffers[stack[f].unit][stack[f].slot]) >= i
              /\ buffers[stack[f].unit][stack[f].slot][i] = stack[f].heard[i]

\* No aura is active when its unit is reset: the end of the iteration has ended
\* all of them, also those its own callbacks gained ("Active aura during reset").
ResetFindsNoneActive ==
    pc = "resetting" =>
        \A i \in (turn + 1)..Len(ResetOrder), a \in Auras :
            HomeOf(a) = ResetOrder[i] => ~active[a] /\ \A l \in Lists : index[a][l] = 0

\* Every loop that expires or notifies auras comes to its end: none starts again
\* forever on an aura it cannot get rid of.
LoopsEnd == []<>(Len(stack) = 1)
=============================================================================
