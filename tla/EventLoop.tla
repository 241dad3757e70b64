------------------------------- MODULE EventLoop -------------------------------
(***************************************************************************)
(* The event loop of one simulation (sim/core/sim.go, pending_action.go):  *)
(* the queue of pending actions, the two lists the loop walks (weapon      *)
(* attacks and resource tasks), each behind a cached earliest time, and    *)
(* the clock that jumps from event to event.                               *)
(*                                                                         *)
(* One goroutine runs all of it.  What makes it hard is re-entrancy: an    *)
(* action, a swing, a task or an aura expiring inside sim.advance runs     *)
(* arbitrary class code, and that code calls back into the queue and into  *)
(* the very list that is being walked.  The model therefore stops between  *)
(* any two statements at which such a callback may call the engine: pc is  *)
(* "advance", "visit" or "action" while a callback runs, and every engine  *)
(* entry point (Arm, ArmPooled, Withdraw, Enlist, Delist, MoveDue) is an   *)
(* action of its own that a running callback may take, MaxOps times.       *)
(*                                                                         *)
(* A Go slice is kept as the code keeps it: a backing array (arr) and a    *)
(* length (len).  `for _, wa := range list' fixes the length once (span)   *)
(* and reads the array live, so removeBySwappingToBack and append, called  *)
(* by a callback, change what the rest of the walk sees.  The history      *)
(* variable missed holds the entries a walk did not come to because of it. *)
(***************************************************************************)
EXTENDS Integers, Sequences, SequencesExt

CONSTANTS
    Owned,         \* pending actions their owner keeps and re-arms (rotationAction, ...)
    Pooled,        \* pending actions handed out by pendingActionPool
    PullAction,    \* the action PrePull queues for the pull itself
    Prepull,       \* sequence of [action, at]: the prepull actions, sorted by time
    Sentinel,      \* sentinelPendingAction
    Swings,        \* weapon attacks
    Tasks,         \* resource tasks (mana, energy, focus)
    None,          \* nil
    Duration,      \* sim.Duration, the end of combat
    Never,         \* NeverExpires
    Delays,        \* how far ahead of the clock a callback schedules
    Periods,       \* how far ahead an entry's own next time lies
    Priorities,    \* ActionPriority values callbacks use
    Capacity,      \* capacity of the two slices (they are warm: no append reallocates)
    MaxOps,        \* bound: engine calls callbacks make in one run of the model
    MaxIterations  \* bound: iterations of the simulation

PrepullActions == {Prepull[i].action : i \in 1..Len(Prepull)}
Actions == Owned \cup Pooled \cup PrepullActions \cup {PullAction}
Kinds == {"swing", "task"}
Entries == Swings \cup Tasks
EntriesOf(k) == IF k = "swing" THEN Swings ELSE Tasks

ASSUME ConstantsAssumption ==
    /\ Sentinel \notin Actions /\ None \notin Actions \cup Entries
    /\ Swings \cap Tasks = {}
    /\ Owned \cap Pooled = {}
    /\ PullAction \notin Owned \cup Pooled \cup PrepullActions
    /\ PrepullActions \cap (Owned \cup Pooled) = {}
    /\ Duration \in Nat /\ Never \in Nat /\ Duration < Never
    /\ Delays \subseteq Nat /\ Periods \subseteq Nat \ {0}
    /\ Priorities \subseteq Int
    /\ Capacity \in Nat /\ MaxOps \in Nat /\ MaxIterations \in Nat
    /\ Prepull \in Seq([action : PrepullActions, at : Int])
    /\ \A d \in Delays \cup Periods : Duration + d < Never
    /\ \A i \in 1..Len(Prepull) : Prepull[i].at < 0
    /\ \A i, j \in 1..Len(Prepull) : i < j => Prepull[i].at <= Prepull[j].at
    /\ \A i, j \in 1..Len(Prepull) : i # j => Prepull[i].action # Prepull[j].action

VARIABLES
    now,        \* sim.CurrentTime
    pending,    \* sim.pendingActions: sorted, the next action is the last
    at,         \* PendingAction.NextActionAt
    prio,       \* PendingAction.Priority
    cancelled,  \* PendingAction.cancelled
    consumed,   \* PendingAction.consumed
    pool,       \* pooled actions that are not handed out
    arr,        \* backing arrays of sim.weaponAttacks and sim.tasks
    len,        \* their lengths
    dueAt,      \* WeaponAttack.swingAt, the bars' next tick
    minAt,      \* sim.minWeaponAttackTime, sim.minTaskTime
    pc,         \* where the loop stands
    cur,        \* the pending action taken off the queue, while it runs
    kind,       \* the list under walk
    cursor,     \* index the walk has reached
    span,       \* length the walk's range statement fixed
    ent,        \* the entry whose swing or task runs
    missed,     \* history: entries a walk did not come to (Forgotten)
    ops,        \* engine calls made by callbacks so far
    iter        \* iteration under way

queueVars == <<pending, at, prio, cancelled, consumed, pool>>
listVars  == <<arr, len, dueAt, minAt>>
walkVars  == <<kind, cursor, span, ent, missed>>
vars == <<now, queueVars, listVars, pc, cur, walkVars, ops, iter>>

-----------------------------------------------------------------------------
(* The queue *)

Queued == {pending[i] : i \in 1..Len(pending)}
Top == Last(pending)

\* v, already queued, runs before a new action due at t with priority pr.
GoesFirst(v, t, pr) == at[v] < t \/ (at[v] = t /\ prio[v] >= pr)

\* Mutant: the scan passes every action that is not due later, whatever its priority.
MutInsertPoint(q, t, pr, k) ==
    /\ \A i \in k..Len(q) : at[q[i]] <= t
    /\ k = 2 \/ at[q[k - 1]] > t

\* Where AddPendingAction's scan from the end stops: below every action that
\* goes first, never below the sentinel.
InsertPoint(q, t, pr, k) ==
    /\ \A i \in k..Len(q) : GoesFirst(q[i], t, pr)
    /\ k = 2 \/ ~GoesFirst(q[k - 1], t, pr)

AddPendingAction(q, p, t, pr) ==
    /\ \E k \in 2..(Len(q) + 1) :
          InsertPoint(q, t, pr, k) /\ pending' = InsertAt(q, k, p)
    /\ at' = [at EXCEPT ![p] = t]
    /\ prio' = [prio EXCEPT ![p] = pr]
    /\ consumed' = [consumed EXCEPT ![p] = FALSE]
    /\ cancelled' = [cancelled EXCEPT ![p] = FALSE]

\* The queue after PendingAction.Cancel: nothing happens to an action that is
\* cancelled already; otherwise it leaves the queue, if it is on it.
WithoutCancelled(p) ==
    IF cancelled[p] \/ p \notin Queued
      THEN pending
      ELSE RemoveAt(pending, CHOOSE i \in 1..Len(pending) : pending[i] = p)

\* dispose returns a pooled action to the pool once it is consumed.
Dispose(p, isConsumed) == pool' = IF p \in Pooled /\ isConsumed THEN pool \cup {p} ELSE pool

-----------------------------------------------------------------------------
(* The lists *)

Live(k) == {arr[k][i] : i \in 1..len[k]}
Earlier(s, t) == IF t < s THEN t ELSE s

\* Entries the walk under way has yet to come to, as the slice's array stands at a.
ToCome(a) == {a[i] : i \in (cursor + 1)..span}

\* What an append to list k hides from the walk that runs the callback.  An entry moved
\* behind the walk by a removal still stands at its old place, past the end of the list,
\* and the walk comes to it there, unless an append has written over that place.
Forgotten(k) ==
    IF pc = "visit" /\ kind = k THEN (ToCome(arr[k]) \ ToCome(arr'[k])) \ {ent} ELSE {}

-----------------------------------------------------------------------------
(* Engine entry points, called by whatever callback is running. *)

InCallback == pc \in {"reset", "advance", "visit", "action"}
Call == InCallback /\ ops < MaxOps /\ ops' = ops + 1
        /\ UNCHANGED <<now, pc, cur, kind, cursor, span, ent, iter>>

\* An owner re-arms its action: SetRotationTimer, newHardcastAction, InitiateQueue.
\* A still unconsumed one is cancelled first.
Arm(p, t, pr) ==
    /\ Call
    /\ AddPendingAction(IF consumed[p] THEN pending ELSE WithoutCancelled(p), p, t, pr)
    /\ UNCHANGED <<pool, listVars, missed>>

\* Mutant: the pool hands the action out and keeps it.
MutArmPooled(p, t, pr) ==
    /\ Call
    /\ p \in pool
    /\ AddPendingAction(pending, p, t, pr)
    /\ UNCHANGED <<pool, listVars, missed>>

\* Fire and forget: GetConsumedPendingActionFromPool, then AddPendingAction.
ArmPooled(p, t, pr) ==
    /\ Call
    /\ p \in pool
    /\ pool' = pool \ {p}
    /\ AddPendingAction(pending, p, t, pr)
    /\ UNCHANGED <<listVars, missed>>

\* PendingAction.Cancel, by an owner that does not look at consumed (CancelGCDTimer).
Withdraw(p) ==
    /\ Call
    /\ pending' = WithoutCancelled(p)
    /\ cancelled' = [cancelled EXCEPT ![p] = TRUE]
    /\ UNCHANGED <<at, prio, consumed, pool, listVars, missed>>

\* Mutant: the new entry's time does not reach the cache.
MutEnlist(k, e, t) ==
    /\ Call
    /\ e \in EntriesOf(k) \ Live(k)
    /\ len[k] < Capacity
    /\ arr' = [arr EXCEPT ![k][len[k] + 1] = e]
    /\ len' = [len EXCEPT ![k] = @ + 1]
    /\ dueAt' = [dueAt EXCEPT ![e] = t]
    /\ missed' = (missed \cup Forgotten(k)) \ {e}
    /\ UNCHANGED <<queueVars, minAt>>

\* addWeaponAttack + rescheduleWeaponAttack, AddTask + RescheduleTask.
Enlist(k, e, t) ==
    /\ Call
    /\ e \in EntriesOf(k) \ Live(k)
    /\ len[k] < Capacity
    /\ arr' = [arr EXCEPT ![k][len[k] + 1] = e]
    /\ len' = [len EXCEPT ![k] = @ + 1]
    /\ dueAt' = [dueAt EXCEPT ![e] = t]
    /\ minAt' = [minAt EXCEPT ![k] = Earlier(@, t)]
    /\ missed' = (missed \cup Forgotten(k)) \ {e}
    /\ UNCHANGED queueVars

\* removeWeaponAttack, RemoveTask (which also parks the tick at NeverExpires):
\* the last element takes the removed one's place.
Delist(k, e) ==
    /\ Call
    /\ \E i \in 1..len[k] :
         /\ arr[k][i] = e
         /\ arr' = [arr EXCEPT ![k][i] = arr[k][len[k]]]
    /\ len' = [len EXCEPT ![k] = @ - 1]
    /\ dueAt' = IF k = "task" THEN [dueAt EXCEPT ![e] = Never] ELSE dueAt
    /\ UNCHANGED <<queueVars, minAt, missed>>

\* Mutant: the time moves and the cache does not hear of it.
MutMoveDue(k, e, t) ==
    /\ Call
    /\ e \in EntriesOf(k)
    /\ dueAt' = [dueAt EXCEPT ![e] = t]
    /\ missed' = missed \ {e}
    /\ UNCHANGED <<queueVars, minAt, arr, len>>

\* StopMeleeUntil, DelayMeleeBy, PauseMeleeBy, rescaleSwing, ResetEnergyTick, ...:
\* the entry's time moves and the cache is lowered to it, never raised.
MoveDue(k, e, t) ==
    /\ Call
    /\ e \in EntriesOf(k)
    /\ dueAt' = [dueAt EXCEPT ![e] = t]
    /\ minAt' = [minAt EXCEPT ![k] = Earlier(@, t)]
    /\ missed' = missed \ {e}
    /\ UNCHANGED <<queueVars, arr, len>>

CallbackCall ==
    \/ \E p \in Owned, d \in Delays, pr \in Priorities : Arm(p, now + d, pr)
    \/ \E p \in Pooled, d \in Delays, pr \in Priorities : ArmPooled(p, now + d, pr)
    \/ \E p \in Owned : Withdraw(p)
    \/ \E k \in Kinds, e \in Entries, d \in Delays : Enlist(k, e, now + d)
    \/ \E k \in Kinds, e \in Entries : Delist(k, e)
    \/ \E k \in Kinds, e \in Entries, d \in Delays : MoveDue(k, e, now + d)

-----------------------------------------------------------------------------
(* runOnce: reset, PrePull, the loop, Cleanup *)

Init ==
    /\ now = 0
    /\ pending = <<Sentinel>>
    /\ at = [p \in Actions \cup {Sentinel} |-> IF p = Sentinel THEN Never ELSE 0]
    /\ prio = [p \in Actions \cup {Sentinel} |-> 0]
    /\ cancelled = [p \in Actions \cup {Sentinel} |-> FALSE]
    /\ consumed = [p \in Actions \cup {Sentinel} |-> FALSE]
    /\ pool = Pooled
    /\ arr = [k \in Kinds |-> [i \in 1..Capacity |-> None]]
    /\ len = [k \in Kinds |-> 0]
    /\ dueAt = [e \in Entries |-> Never]
    /\ minAt = [k \in Kinds |-> Never]
    /\ pc = "reset" /\ cur = None
    /\ kind = "swing" /\ cursor = 1 /\ span = 0 /\ ent = None /\ missed = {}
    /\ ops = 0 /\ iter = 1

\* The resets are over: PrePull starts the clock at the first prepull action.
BeginPrePull ==
    /\ pc = "reset"
    /\ pc' = "prepull"
    /\ now' = IF Prepull = <<>> THEN now ELSE Prepull[1].at
    /\ cursor' = 1
    /\ UNCHANGED <<queueVars, listVars, cur, kind, span, ent, missed, ops, iter>>

\* ActionPriorityPrePull is 10: earlier prepull actions go first at the same time.
QueuePrepull ==
    /\ pc = "prepull"
    /\ cursor <= Len(Prepull)
    /\ AddPendingAction(pending, Prepull[cursor].action, Prepull[cursor].at,
                        10 + Len(Prepull) - (cursor - 1))
    /\ cursor' = cursor + 1
    /\ UNCHANGED <<now, pool, listVars, pc, cur, kind, span, ent, missed, ops, iter>>

QueuePull ==
    /\ pc = "prepull"
    /\ cursor > Len(Prepull)
    /\ AddPendingAction(pending, PullAction, 0, 10 + Len(Prepull) + 1)
    /\ pc' = "step"
    /\ UNCHANGED <<now, pool, listVars, cur, walkVars, ops, iter>>

\* Mutant: an action due at the same time as a swing goes ahead of it.
MutSwingsNext == at[Top] > minAt["swing"] /\ minAt["swing"] <= minAt["task"]

\* The clock after Step turned to an event due at t: it only moves forward.
ClockAt(t) == IF t > now THEN t ELSE now

\* Where Step goes: weapon attacks win ties over tasks, tasks over pending actions.
SwingsNext == at[Top] >= minAt["swing"] /\ minAt["swing"] <= minAt["task"]
TasksNext  == ~SwingsNext /\ at[Top] >= minAt["task"]

\* Mutant: an event due exactly at the end of combat is dropped.
MutStepEnds(k) ==
    /\ minAt[k] >= Duration
    /\ pc' = "done"
    /\ UNCHANGED <<now, queueVars, listVars, cur, walkVars, ops, iter>>

\* The list's earliest time lies past the end of combat: Step reports the end.
StepEnds(k) ==
    /\ minAt[k] > Duration
    /\ pc' = "done"
    /\ UNCHANGED <<now, queueVars, listVars, cur, walkVars, ops, iter>>

\* Mutant: the cache keeps its old value across the walk.
MutStartWalk(k) ==
    /\ UNCHANGED minAt
    /\ kind' = k /\ cursor' = 1 /\ span' = len[k] /\ ent' = None
    /\ missed' = missed \ EntriesOf(k)
    /\ pc' = "walk"

\* advanceWeaponAttacks, advanceTasks: the clock moves if it has to (and auras
\* expire under way); the cache is emptied and the walk begins.
StartWalk(k) ==
    /\ minAt' = [minAt EXCEPT ![k] = Never]
    /\ kind' = k /\ cursor' = 1 /\ span' = len[k] /\ ent' = None
    /\ missed' = missed \ EntriesOf(k)
    /\ pc' = "walk"

StepAdvances(k) ==
    /\ minAt[k] <= Duration
    /\ UNCHANGED <<queueVars, arr, len, dueAt, cur, ops, iter>>
    /\ now' = ClockAt(minAt[k])
    /\ IF minAt[k] > now
         THEN /\ pc' = "advance" /\ kind' = k
              /\ UNCHANGED <<minAt, cursor, span, ent, missed>>
         ELSE StartWalk(k)

StepSwings == pc = "step" /\ SwingsNext /\ (StepEnds("swing") \/ StepAdvances("swing"))
StepTasks  == pc = "step" /\ TasksNext /\ (StepEnds("task") \/ StepAdvances("task"))

\* The next pending action: taken off the queue, then run, unless it is
\* cancelled or due past the end of combat.
StepPending ==
    /\ pc = "step" /\ ~SwingsNext /\ ~TasksNext
    /\ LET p == Top IN
         /\ pending' = SubSeq(pending, 1, Len(pending) - 1)
         /\ consumed' = [consumed EXCEPT ![p] = TRUE]
         /\ IF cancelled[p] \/ at[p] > Duration
              THEN /\ Dispose(p, TRUE)
                   /\ pc' = IF cancelled[p] THEN "step" ELSE "done"
                   /\ UNCHANGED <<now, cur>>
              ELSE /\ cur' = p
                   /\ now' = ClockAt(at[p])
                   /\ pc' = IF at[p] > now THEN "advance" ELSE "action"
                   /\ UNCHANGED pool
    /\ UNCHANGED <<at, prio, cancelled, listVars, walkVars, ops, iter>>

\* Mutant: Step does not look again whether the action was cancelled meanwhile.
MutAdvanceReturns ==
    /\ pc = "advance"
    /\ UNCHANGED <<now, pending, at, prio, cancelled, consumed, arr, len, dueAt, ops, iter>>
    /\ IF cur = None
         THEN StartWalk(kind) /\ UNCHANGED <<cur, pool>>
         ELSE pc' = "action" /\ UNCHANGED <<minAt, walkVars, cur, pool>>

\* sim.advance returns, auras have expired: back to the walk or to the action,
\* which a callback may have cancelled meanwhile.
AdvanceReturns ==
    /\ pc = "advance"
    /\ UNCHANGED <<now, pending, at, prio, cancelled, consumed, arr, len, dueAt, ops, iter>>
    /\ IF cur = None
         THEN StartWalk(kind) /\ UNCHANGED <<cur, pool>>
         ELSE /\ UNCHANGED <<minAt, walkVars>>
              /\ IF cancelled[cur]
                   THEN /\ Dispose(cur, consumed[cur])
                        /\ pc' = "step" /\ cur' = None
                   ELSE pc' = "action" /\ UNCHANGED <<cur, pool>>

ActionReturns ==
    /\ pc = "action"
    /\ Dispose(cur, consumed[cur])
    /\ pc' = "step" /\ cur' = None
    /\ UNCHANGED <<now, pending, at, prio, cancelled, consumed, listVars, walkVars, ops, iter>>

\* trySwing, RunTask on an entry that is not due: it only reports its time.
WalkPasses ==
    /\ pc = "walk" /\ cursor <= span
    /\ LET e == arr[kind][cursor] IN
         /\ now < dueAt[e]
         /\ minAt' = [minAt EXCEPT ![kind] = Earlier(@, dueAt[e])]
    /\ cursor' = cursor + 1
    /\ UNCHANGED <<now, queueVars, arr, len, dueAt, pc, cur, kind, span, ent, missed, ops, iter>>

\* An entry that is due.  A swing sets its next time before it lands (NeverExpires
\* when a ranged auto is blocked); a tick sets it after.
WalkFires ==
    /\ pc = "walk" /\ cursor <= span
    /\ LET e == arr[kind][cursor] IN
         /\ now >= dueAt[e]
         /\ ent' = e
         /\ IF kind = "swing"
              THEN \E t \in {now + d : d \in Periods} \cup {Never} :
                       dueAt' = [dueAt EXCEPT ![e] = t]
              ELSE UNCHANGED dueAt
    /\ pc' = "visit"
    /\ UNCHANGED <<now, queueVars, arr, len, minAt, cur, kind, cursor, span, missed, ops, iter>>

\* The swing or tick returns the time it is due next, as it stands after its
\* callbacks, and the cache takes it in.
VisitReturns ==
    /\ pc = "visit"
    /\ IF kind = "swing"
         THEN UNCHANGED dueAt
         ELSE \E d \in Periods : dueAt' = [dueAt EXCEPT ![ent] = now + d]
    /\ minAt' = [minAt EXCEPT ![kind] = Earlier(@, dueAt'[ent])]
    /\ cursor' = cursor + 1
    /\ pc' = "walk" /\ ent' = None
    /\ UNCHANGED <<now, queueVars, arr, len, cur, kind, span, missed, ops, iter>>

WalkEnds ==
    /\ pc = "walk" /\ cursor > span
    /\ pc' = "step"
    /\ UNCHANGED <<now, queueVars, listVars, cur, walkVars, ops, iter>>

\* Cleanup, and the reset that starts the next iteration.  What is still queued
\* is dropped from the queue, its flags left as they are.
NextIteration ==
    /\ pc = "done" /\ iter < MaxIterations
    /\ iter' = iter + 1
    /\ pc' = "reset" /\ now' = 0
    /\ pending' = <<Sentinel>>
    /\ len' = [k \in Kinds |-> 0]
    /\ dueAt' = [e \in Entries |-> Never]
    /\ minAt' = [k \in Kinds |-> Never]
    /\ UNCHANGED <<at, prio, cancelled, consumed, pool, arr, cur, walkVars, ops>>

LastCleanup ==
    /\ pc = "done" /\ iter = MaxIterations
    /\ pc' = "over" /\ now' = Duration
    /\ UNCHANGED <<queueVars, listVars, cur, walkVars, ops, iter>>

LoopStep ==
    \/ BeginPrePull \/ QueuePrepull \/ QueuePull
    \/ StepSwings \/ StepTasks \/ StepPending
    \/ AdvanceReturns \/ ActionReturns
    \/ WalkPasses \/ WalkFires \/ VisitReturns \/ WalkEnds
    \/ NextIteration \/ LastCleanup

Next == CallbackCall \/ LoopStep

\* One goroutine runs the loop to its end; a callback returns after finitely
\* many calls (MaxOps).
Spec == Init /\ [][Next]_vars /\ WF_vars(LoopStep)
-----------------------------------------------------------------------------
(* Properties *)

TypeOK ==
    /\ now \in Int
    /\ pending \in Seq(Actions \cup {Sentinel}) /\ pending # <<>>
    /\ at \in [Actions \cup {Sentinel} -> Int]
    /\ prio \in [Actions \cup {Sentinel} -> Int]
    /\ cancelled \in [Actions \cup {Sentinel} -> BOOLEAN]
    /\ consumed \in [Actions \cup {Sentinel} -> BOOLEAN]
    /\ pool \subseteq Pooled
    /\ arr \in [Kinds -> [1..Capacity -> Entries \cup {None}]]
    /\ len \in [Kinds -> 0..Capacity]
    /\ dueAt \in [Entries -> Int]
    /\ minAt \in [Kinds -> Int]
    /\ pc \in {"reset", "prepull", "step", "advance", "walk", "visit", "action", "done", "over"}
    /\ cur \in Actions \cup {None}
    /\ kind \in Kinds
    /\ cursor \in Nat /\ span \in 0..Capacity
    /\ ent \in Entries \cup {None}
    /\ missed \subseteq Entries
    /\ ops \in 0..MaxOps /\ iter \in Nat

\* Every variable has its type, and the queue AddPendingAction's scan and Cancel's
\* removal keep between them is in order: the
\* sentinel at the bottom, every action above the ones that run after it, no
\* action twice, and none on it that is cancelled, consumed or back in the pool.
QueueOrdered ==
    /\ TypeOK
    /\ pending[1] = Sentinel
    /\ \A i, j \in 1..Len(pending) :
          i < j => pending[i] # pending[j] /\ GoesFirst(pending[j], at[pending[i]], prio[pending[i]])
    /\ \A i \in 2..Len(pending) :
          ~cancelled[pending[i]] /\ ~consumed[pending[i]] /\ pending[i] \notin pool

\* Between events the cached earliest time of a list is never later than the time of
\* an entry on it, whatever callbacks did to the list during the walk that computed it:
\* rescheduleWeaponAttack and RescheduleTask only lower it.  The one exception: an entry
\* removeBySwappingToBack moved behind the walk, and whose old place, which the walk
\* would still have read, an append of the same walk wrote over (sim.go:89-111, 554).
\* The walk does not come to it (missed), and the cache waits for the list's next walk.
CacheNeverLate ==
    pc \in {"step", "prepull", "reset"} =>
        \A k \in Kinds : \A e \in Live(k) \ missed : minAt[k] <= dueAt[e]

\* The clock moves forward only to the next event: when it moves to t, no queued
\* action and no entry on either list was due before t, but for the entries the last
\* walk missed: the clock may pass those.
ClockPassesNoWork ==
    [][now' > now /\ pc = "step" =>
          /\ \A i \in 1..Len(pending) : at[pending[i]] >= now'
          /\ \A k \in Kinds : \A e \in Live(k) \ missed : dueAt[e] >= now']_vars

\* Inside an iteration the clock never goes back, even though callbacks may leave
\* work due in the past (swingAt below CurrentTime after a held swing).
ClockMonotone == [][pc \notin {"reset", "done"} => now' >= now]_vars

\* RunAfterCurrentEvent's promise (sim.go:632-633): an action due now runs after any
\* swing or task due then, but for those the walk missed, which are still due.
ActionsAfterSwings ==
    [][pc = "step" /\ pc' = "action" =>
          \A k \in Kinds : \A e \in Live(k) \ missed : dueAt[e] > now]_vars

\* An action cancelled while the clock was advancing to it does not run, and one
\* that runs was not on the queue past the end of combat.
CancelledNeverRuns ==
    [][pc # "action" /\ pc' = "action" => ~cancelled[cur'] /\ now' <= Duration]_vars

\* A pooled action is handed out to one user at a time: while it is on the queue
\* or running it is not in the pool.
PoolNeverAliases == pool \cap (Queued \cup {cur}) = {}

\* When an iteration ends, nothing that was due by the end of combat is left over, but
\* for the entries the last walk missed.
EndDropsNothing ==
    pc = "done" =>
        /\ \A i \in 1..Len(pending) : at[pending[i]] > Duration
        /\ \A k \in Kinds : \A e \in Live(k) \ missed : dueAt[e] > Duration

\* The loop ends: no walk leaves behind a cached time that brings the loop back
\* to the same instant for ever.
IterationsEnd == <>(pc = "over")

=============================================================================
