# A TLA+ model of the WoW Forever simulator

The repository simulates fights of an online game: a discrete-event engine in Go
(`sim/core`) runs thousands of iterations of an encounter, spread over
goroutines; a web server starts, reports and aborts such runs; a bulk sim runs
thousands of gear sets through stages of them. This directory holds TLA+
modules of the parts whose correctness depends on *order*: what callbacks do to
the loop that called them, what goroutines do to each other, what an abort, a
failure or a lost connection finds under way. TLC checks each on small
instances, and for each TLAPS proves the safety properties that matter most for every
value of the constants.

All paths below are relative to `src/`.

## 1. The system

### Components, their state and operations

| Component | State | Operations | Talks to |
|---|---|---|---|
| Event loop (`sim/core/sim.go`, `pending_action.go`, swings of `attack.go`) | the sorted queue `pendingActions`, the pool of actions, the lists `weaponAttacks` and `tasks`, each behind a cached earliest time, the clock | `PrePull`, `Step`, `advance`, the two walks, `AddPendingAction`, `Cancel`, `dispose`, adding, removing and rescheduling an attack or a task, `Cleanup` | calls class code; that code calls back in the middle of a step |
| Aura tracking (`aura.go`) | per unit: active auras and a list per event, each aura's position in each, the cached earliest expiry; in the simulation: the list of trackers and the earliest of their caches | `Activate`, `Refresh`, `UpdateExpires`, `Deactivate`, `advance`, the `On...` dispatches, enabling and disabling a unit, `reset`, `doneIteration` | the event loop advances it; auras run class code, which gains and ends auras |
| Exclusive effects (`exclusive_effect.go`) | per category: which effects are enabled, which applies, every bid | `Activate`, `Deactivate`, `SetPriority` | called in the middle of an aura's gain and end |
| Rotation, GCD, spell queue (`gcd.go`, `spell_queueing.go`, `apl.go`) | the rotation's action and timer, the hardcast, the queued spell | `SetRotationTimer`, `SetGCDTimer`, `QueueSpell`, the pick at a cast end, `Interrupt` | actions on the event loop |
| Major cooldowns (`major_cooldown.go`, `cooldown.go`) | a list sorted by ready time, the cached earliest; timers that spells share | autocast, `UpdateMajorCooldowns`, casts that move timers | the rotation; casts; class code |
| Dots (`dot.go`) | an aura and a queued tick each, the ticks done and to come, the period; a caster's rank groups and its channel | apply, extend, refresh, tick, replace, cut, end | the event loop's queue, the aura tracker, the rotation (channels) |
| Periodic actions, shields, deferred procs | an action each, a tick count, a free list | start, tick, cancel, clean-up | the event loop |
| Concurrent simulation (`sim_concurrent.go`, `runSim`, `simsignals/signals.go`) | a thread and a bounded channel per split, the parent's counts, the abort signal | split, run, report, forward, combine, trigger | the caller's channel |
| Web server (`sim/web/main.go`, `bulk.go`, `simsignals/api.go`) | the registry of abort signals, a cached latest progress per request, a reader goroutine per request | start a request, poll, abort, time out | the concurrent and the bulk sim; HTTP clients |
| Bulk sim (`sim/core/bulk`) | stage, candidates, carried results, worker pool, abort signal | stages, adaptive passes, finalist rounds | many concurrent or single simulations |
| The page's queue of sims (`ui/sim/wasm/sim.ts`, `ui/sim/workers`, `sim_signal_manager.ts`) | the next sim and split, the promises of split requests, results, the pool of web workers | claim, send, finish, abort, resize | web workers, which run the same Go code |
| Everything else | damage formulas, metrics, stat weights, class packages, encounters, siml, reforging, the user interface, tools | | see section 7 |

### What is hard

* **Re-entrancy in the engine.** One goroutine runs an iteration, but every
  swing, tick, action, expiring aura and event runs class code that calls the
  engine again: it changes the queue while an action runs, the list of attacks
  while that list is walked, the auras of a tracker that is being advanced. Go's
  `range` reads the slice as it was, removal swaps the last element in and
  caches are computed on the way: what is right for each call alone need not be
  right for the walk around it.
* **Goroutines.** Threads, parent, reader, client and workers meet on bounded
  channels and one abort signal that any of them may trigger.
* **Failure and aborts.** A thread may panic, a user may cancel, a client may
  go away, at any moment; each has to end with exactly one outcome, and a
  cancelled or failed run must not be taken for a complete one.
* **Instants.** A dot's aura ends before the tick due at the same instant, a
  channel starts inside the end of another, a cooldown's ready time is moved by a
  cast that landed for another spell: state that is kept in step by hand has to be
  right at every tie.
* **Awaits.** The page's loops read shared state, await a split or a sim, and go
  on with what they read.
* **Timeouts.** The server gives a silent run up, while it may still report.

`PROJECT.json` lists the hazards line by line with the property that would
catch each.

### What makes each component correct

* Event loop: nothing due is passed over or dropped, nothing cancelled runs,
  the clock goes forward, ties run swings and ticks before actions, a pooled
  action has one user, an iteration ends.
* Aura tracking: caches never hide an expiry, the positions in the lists agree
  with the lists, an event reaches those that were listening when it was fired
  and no buffer is shared by two events, every loop ends, a reset finds nothing
  active.
* Exclusive effects: what applies in a category is the highest bid of the
  active auras and is applied exactly once, a single category holds one aura, a
  refused gain leaves no trace.
* Concurrent simulation: the reader hears growing progress, then one outcome;
  a success stands for every iteration and for disjoint seeds; no goroutine is
  left behind that could go on.
* Web server: the registry is exactly the live requests, an outcome is not lost
  with a connection, an abort ends the run it was sent to.
* Rotation and spell queue: a look of the rotation is always coming and in time,
  a hardcast lands once and at its end, the spell queued after it goes first.
* Dots: an active dot has one tick queued, at the time it says; the ticks to come
  and the aura end together; none comes twice or off the beat, but by a dot that
  its own tick ends; one rank and one
  channel; a channel that is cut does not tick.
* Major cooldowns: the cached time hides no cooldown that is due, and autocast
  takes them in the order of ready time and priority.
* The page's queue: every sim is handed over once and whole or an error is told, an
  abort ends the queue, nothing is left running on a worker.
* Bulk sim: the segments a result is merged from follow each other, what is
  shown is complete, a failed or cancelled run is never shown as complete, and
  it ends.

## 2. The modules

| Module | Models | Kind |
|---|---|---|
| `EventLoop` | the event loop | state machine |
| `EventLoopProofs` | theorems about it | proofs |
| `AuraTracker` | aura tracking | state machine |
| `AuraTrackerProofs` | theorems about its lists and stack, and about its cached times | proofs |
| `ExclusiveEffects` | categories and bids | state machine |
| `ExclusiveProofs` | theorems about it | proofs |
| `SimRequest` | what the reader of a request's channel is promised | abstract specification |
| `SpellQueue` | a player's rotation, GCD, hardcasts and queued spell | state machine |
| `QueueProofs` | theorems about `SimQueue` and about `SpellQueue` | proofs |
| `Dots` | periodics: auras, ticks, ranks and channels | state machine |
| `DotsProofs` | theorems about it | proofs |
| `MajorCooldowns` | the list of major cooldowns, its cached time, and what moves the timers | state machine |
| `CooldownProofs` | theorems about it | proofs |
| `ConcurrentSim` | a request run on goroutines; implements `SimRequest` | state machine, refinement |
| `ConcurrentProofs` | theorems about it, the refinement among them | proofs |
| `WebAsync` | registry, reader, polls, aborts; the run behind it does what `SimRequest` promises | state machine |
| `BulkSim` | stages, batches and workers of the bulk sim | state machine |
| `RequestProofs` | theorems about `WebAsync` and about `BulkSim` | proofs |
| `SimQueue` | the page's queue of sims on web workers | state machine |
| `MC...` | the values TLC gives the constants | instances |

`RequestProofs` and `QueueProofs` each extend two components that share nothing. So that
the two can be read beside each other, the specification's own names start with `Web` in
`WebAsync` (`WebInit`, `WebNext`, `WebSpec`, `WebTypeOK`) and with `Rotation` in `SpellQueue`.

### EventLoop

`pending`, `at`, `prio`, `cancelled`, `consumed` and `pool` are the queue and the
fields of `PendingAction`; `arr` and `len` are the backing array and length of
`sim.weaponAttacks` and `sim.tasks`, because `for _, wa := range list` fixes the
length once and then reads the array live while `removeBySwappingToBack` and
`append` write it. `minAt` holds the two cached times and `dueAt` the next time
of each attack or task.

The model stops wherever class code runs: `pc` is `"advance"` while auras expire,
`"visit"` while an attack swings or a task ticks, `"action"` while an action runs.
There a callback may call `Arm`, `ArmPooled`, `Withdraw`, `Enlist`, `Delist` and
`MoveDue`, the engine's entry points, up to `MaxOps` times in a behaviour. `Step...`
are the branches of `Step`, `Walk...` the two walks (one set of actions for both
lists, which run the same code), `QueuePrepull` and `QueuePull` are `PrePull`,
`NextIteration` is `Cleanup` and the next `reset`.

A callback may take an entry off the list under walk and then put one on it. The
removal moves the last entry to the freed place, which may lie behind the walk; the
walk still comes to that entry at its old place, past the new end of the list, unless
the append writes that place over (`Forgotten`). Then the walk does not come to the
entry and the cached time does not know of it. The history variable `missed` holds
such entries until the list's next walk, or until a call reschedules them;
`CacheNeverLate`, `ClockPassesNoWork`, `ActionsAfterSwings` and `EndDropsNothing` say
what holds for every other entry, and each names the exception. Without it TLC finds
each of the four violated.

### AuraTracker

Each loop under way is a frame on `stack` (the event loop, an `advance`, an event's
dispatch, a reset, an end of iteration) and its `calling` says that class code runs
from it. In the code a callback is the last thing `Activate` and `Deactivate` do, so
a nest of them is a sequence of calls and needs no frame. A dispatch copies its
audience into a buffer per depth. `trackers` and `listed` keep the slice of trackers
with its backing array, for the same reason as in `EventLoop`. `Resummon = FALSE`
means that one advance does not dismiss a pet and summon one. Auras do not die while their tracker is reset; what callbacks do at a
reset or at the end of an iteration stays within the units whose turn has come,
as the resets in the class packages do. An aura that ends and is gained again while
an event is handled hears that event when its turn comes; the module follows the
code there, although the comment at `aura.go:1012` reads otherwise.

### ExclusiveEffects

`cat` keeps, per category, the enabled effects, the active one, every bid and what
is applied: the `OnGain` and `OnExpire` of the repository's own tests, which add and
take away the bid, stand for those of the classes. A gain bids in its categories one
after another, one step each. Three things of the code's callers are assumptions:
callbacks of a category gain and end no auras in the middle of a bid; the one effect
with `YieldsTies` (Dark Inspiration) bids in a category of many; and a second
single-aura category that an aura joins (`joinSharedCategory`,
`generated_support.go:112`) refuses nobody, as its auras bid nothing and never expire
(a refusal there would not put back what the first knocked out).

### SpellQueue

`timers` are the unit's three actions on the queue, in order: the rotation's look,
the landing of the hardcast, the queued spell. `gcdAt`, `lookAt` and `cdAt` are the
timers of the same names, `hc` is `Unit.Hardcast` while it runs, `queued` the
`QueuedSpell` while its action is pending and `pressed` says that `QueueInitiatedAt`
is now. A cast's effects are class code, which may call `ReactToEvent`, `Interrupt`
or `ExtendGCDUntil` and thereby start a look inside what is under way: the calls
under way are the frames on `stack`, and a step either pushes, pops or works in the
top one. `RotationLooks`, `HardcastLands` and `QueuedFires` are the actions' callbacks,
`PickBegins` to `PickEnds` are `pickAtCastEnd`, `LookBegins` to `LookEnds` are a pass
of `DoNextAction`. Which action of the priority list is taken is open, within what
`IsReady`, `CanCast`, `CanQueue` and the waits let through; so is whether a cast that
could start is refused for its cost or its target.

What happens to the unit from outside, at multiples of `Beat`, also covers pushback.
The unit is a player's, in combat; channels, moving, the wand, sequences, haste, the
time before the pull and interactive sims are left out, as is the record of which
cast is the rotation's (`rotationCast`), which decides no step here. Major cooldowns
are neither reactive nor in a sequence.

### Dots

`dot` keeps, per dot, what `Dot` and its aura hold: `active`, `expires` and
`duration` of the aura, `period`, `left` (`remainingTicks`), `done` and the time of
the queued tick; `queue` is the part of `pendingActions` that belongs to dots. Every
operation is an operator from state to state, in the order of the calls in `dot.go`:
`Apply` ends rivals, `Activate` takes the channel, `Deactivate` does the last tick if it
is due now. `Advance` is the clock, which expires auras before any tick of that
instant. `strays` records a tick that did not come one period after what it follows.

`PeriodicTick` has three outcomes: the action is due again or the dot is over, the channel
is cut, or the tick's effect, class code, ends the very dot that ticks (a hit whose trigger
uses the dot up, a target that goes away). In the last, the action is off the queue and
still reads this instant, so `OnExpire` ticks once more (`dot.go:361`, `:420`); `twice` keeps
those dots, and `TicksKeepTime` names them as its exception. What a tick may not do in the
model is cast or extend its own dot: `periodicTick` would then queue the action a second
time after the tick. The weapon effect that comes closest rules it out for itself
(`sim/common/forever/items_weapons.go:119`).

Haste is a factor of the caster; durations and periods are rounded as in the code.
`CopyDotAndApply`, `RestoreState` and `AddTick`, which nothing calls, the wand's tick
and a channel's clipping conditions beyond `Interrupt` are left out.

### MajorCooldowns

`timer` are the timers of all spells, listed or not, which own and shared cooldowns
point to; `order` and `minReady` are the list and its cache. `Cast`, `Completed` and
`TriggerCooldown` follow `makeCastFunc`: an instant completes at once, a hardcast when
it lands, unless it is interrupted or may no longer complete. `Autocast` is the
rotation's action: `FirstReady` is `getFirstReadyMCD`, `Due` and `Fits` its conditions.
`CastOwn` is a cast of the rotation's own. `heard` is history: the ready times when
`UpdateMajorCooldowns` last could see them; it states what a cast that resets others'
cooldowns without calling it can and cannot do.

`ShouldActivate` is true or false as it likes (`Conditional`, `ChangeMind`), which also
stands for HP thresholds, forms and costs. Charges are left out. A look of the
rotation may come at any instant; that it does come is `SpellQueue`'s `NeverAsleep`.

### SimQueue

Each action of a loop is the code between two `await`s of `runConcurrentSimQueue`:
`Claim` up to the message with the sim, `Send` after the claim's promise resolved,
`SimEnds` when the answer comes. A web worker takes its messages in order and answers
an abort while it runs one sim, not while it runs two (the comment at
`worker_pool.ts:175`, `sim.ts:296`). The pool may change its size; a worker that left it
ends what it has but refuses calls, aborts included. `Trigger` runs the callbacks that
the awaited requests have registered (`Awaited`), all of them in one piece of the page's
code; `Begun` is the loops' first pieces, which `Promise.all` runs one after the other.

### ConcurrentSim and SimRequest

`tpc`, `ran`, `chan`, `closed` are the threads and their channels, `ppc` the place of
`runSimConcurrent`, `open` its live select cases, `out` the request's channel.
`Trigger` is two steps: look at the channel, close it; the parent's and the client's
may meet, and then the parent's close panics and its recover sends an error behind
the outcome. A thread polls the signal at its iterations, reports, may fail, and sends
its final message. `Totals` are the running sums of the loops over the threads, for the
first seed of each and for the count that is reported. `SimRequest` says what a reader
may rely on: `Safety`, what is told and in which order, and that the request ends at
some time; `KeepsPromise` is
`ConcurrentSim => SimRequest` under the mapping *told* and *outcome* = count and result
of the last message on the request's channel up to the first final one, where its
readers stop, *over* = that channel closed. The request is not a test one and has a
progress channel.

### WebAsync

`registry` is `trackedIds`, a registration is a request and the number of its
`RegisterWithId`; `triggered` are the registrations whose signal is closed. `rpc` is
the request's goroutine, from its registration (with the second one of a bulk sim)
to its end; `reading`, `entries`, `latest` are the reader goroutine and its cache of
progress; `cpc` is a client that polls, may lose the answer and asks again. The
client of a bulk sim whose candidates are being generated may abort it.
A reader times out only when at most one message waits for it.

### BulkSim

`pc` and `stage` are the place of `runBulkSim`; a result is which segments of
iterations it was merged from (`runs`) or how it failed. The DPS is left out:
whether an error target is met, who survives and how the ranking goes is any choice
the code's bounds allow. `jobs`, `fed` and `worker` are the channel, feeder and
workers of one batch; a feeder that outlives its batch can only do so after an
abort, when nothing uses its channel again. Progress messages and the run without
candidates are not part of it.

## 3. The runs

Every passing run finishes within about two minutes. Its instance is chosen so that
each case the properties tell apart happens; the mutants listed in `PROJECT.json`,
one per property and each a plausible bug, show that the property can fail there.

| Run | Instance | Shows |
|---|---|---|
| `event_loop_run` | two swings, a task, a re-armed, a pooled and a prepull action, four engine calls by callbacks (the fewest with which a walk misses an entry), two iterations | the queue stays sorted and free of cancelled or pooled actions, caches and clock pass over nothing due although callbacks change the list under walk, actions come after swings and ticks, nothing cancelled runs, an iteration ends and drops nothing |
| `aura_run` | a hero, its pet and a boss, four auras, one of them permanent, five calls, nesting 3, two iterations | caches are never late, an advance leaves nothing overdue, positions agree with the lists, nested events keep their audience, a reset finds nothing active, every loop ends |
| `exclusive_run` | eight auras in seven categories: exclusive, shared, stacking, re-priced, yielding ties | the highest bid applies, once and at its price; knock-outs and refusals leave no trace |
| `spell_queue_run` | a cast that holds the rotation, one the GCD outlasts, an instant on cooldown, a spell off the GCD, a major cooldown | the rotation stays armed, casts land at their end, the queued spell goes first |
| `dots_run` | two ranks of a bleed, a channel on the target and one on the ground, a bleed that is extended, a poison that is refreshed; haste of 1 and 2, four operations, eight instants | one tick is queued per dot, ticks keep time and reach to the end, one rank and one channel, a cut channel does not tick |
| `major_cooldowns_run` | a long cooldown with a reset by another, an explosive with a cast time, a potion with a timing, an effect whose cooldown starts at its end; a brew and a reset of the rotation's own | nothing due is hidden by the cache, cooldowns go in turn |
| `concurrent_run` | two threads, five iterations, channels of one, either thread may fail, a client aborts | the reader hears one outcome even when two triggers meet, complete successes, growing progress, every goroutine ends but one on a full channel nobody reads; implements `SimRequest` |
| `web_poll` | a raid request, channel of three, lossy polls, aborts, timeouts | an outcome is not lost with a connection, an aborted request ends, a polling client hears the outcome |
| `web_registry` | a raid and a bulk request with one id | the registry is exactly the live requests |
| `sim_queue_run` | three workers, a sim split in three and one not split, a shrinking pool, a failure, an abort | what is returned is true and leaves nothing running, one split per worker, an abort ends the queue |
| `bulk_run` | three gear sets, a culling and a final stage, two workers, failures and a cancel | segments follow each other, what is shown is complete, no worker outlives its batch unseen, the request ends |
| `bulk_baseline` | two gear sets, the high stage alone | **violation**: the finalist stage reads an errored baseline |

The bounds and why they are enough:

* `MaxOps` bounds how many engine calls callbacks make in a behaviour; every mutant
  of `PROJECT.json` shows within it. The theorems of section 5 hold for any number.
* `Duration` and `Horizon` are 1 or 2 in the engine modules: every property relates
  an instant to the next, and delays of 0 and 1 give ties and strict order.
* `MaxIterations` is 2: what one iteration leaves behind meets the next.
* Two threads and five iterations make the remainder of the split (3 + 2) and
  progress from both; channels of one message block at once.
* `web_poll` needs a channel of three for an aborted run to meet a full channel; its
  run may report for ever, so nothing ends by running out. `web_registry` has
  channels of one, which is enough for two requests to overlap in every order.
* `bulk_run`: three candidates of which the culling stage keeps two; passes of one
  or two segments, two at most; two workers, so that one may be out when the other
  meets an error.
* `spell_queue_run`: the GCD is 20, the casts 25 and 10, so one outlasts the GCD
  and one does not; the cooldowns of 30 and 53 end within the queue window of a cast
  end; reaction time 5, window 9, one wait of 10. Two calls from outside or from
  effects and 55 units of time let two hardcasts follow each other with a queued
  spell between them. Calls from outside come at multiples of 20, so none falls one
  nanosecond after a cast began.

* `dots_run`: eight instants hold two full bleeds of four and an extension; periods of 2
  and 3 and a haste of 2 make odd halves that have to be rounded; four operations let a
  dot be applied, moved, replaced and cut.
* `major_cooldowns_run`: from one before the pull to 5, with cooldowns of 3 to 5, so
  that every cooldown comes up again; two casts of the rotation's own or interruptions.
* `sim_queue_run`: three workers are the fewest where two wait for a split a third
  takes. The pool starts with its three workers, so its one resize is a shrink under way;
  that it may grow again is left to the theorems, which hold for any number of resizes.

Runs whose `.cfg` says `CHECK_DEADLOCK FALSE` model programs that stop: an iteration,
a request or a fight ends.

Each module has one type invariant (`TypeOK`, `WebTypeOK`, `RotationTypeOK`), which is the
first conjunct of one of its checked properties.

### The violation, and other disagreements met

`bulk_baseline` is a disagreement of the code with a comment of its own: the finalist
stage reads the metrics of an errored baseline (`stage.go:284` against `:174`), which
`PROJECT.json` quotes.

The others below were met while modelling and have no run. The modules follow the
code, and where a property would fail because of one, its statement says so.

* An attack that an earlier swing of the walk cancelled still swings in that walk
  (`sim.go:554`: `trySwing` does not ask whether it is enabled; against
  `attack.go:836`). `EventLoop` visits it.
* A walk misses an entry moved behind it (`missed`, above): a callback that takes two
  attacks off the list and puts them back, as cancelling and enabling a unit's auto
  attacks does (`attack.go:838-846`), can make the walk pass over another unit's attack,
  which is then late, runs after actions due with it (against `sim.go:632-633`), or is
  left due when combat ends.
* Two goroutines that trigger the abort signal at once both close its channel
  (`simsignals/signals.go:7-13`); the second panics, in `runSimConcurrent` behind the
  outcome, in the abort handler as a failed request.
* An abort after a bulk sim's last look at its signal and before its second registration
  is answered as triggered and lost (`web/bulk.go:76`). `AbortEnds` is checked for a raid.
* An aura gained again while an event is handled hears it (`aura.go:1045`, against the
  comment at `:1012`).
* A Wait's earlier wake, which `gcd.go:100` says a queued spell keeps, is lost when that
  spell is an instant: its tail sets the next look to now (`spell_queueing.go:52`), that
  look finds the Wait still blocking and moves the timer to the end of the GCD
  (`apl.go:595`), unless the rotation has a move. `NeverAsleep` therefore says that a look that
  is still to come is not put off while a Wait holds; the instant's early look is due at once
  and may then move the wake.
* A pushback can bring the end of a hardcast to the very instant a spell is queued for,
  one nanosecond after the old end or after a cooldown (`spell_queueing.go`). That spell's
  action is the older one and goes first, and if it takes time it replaces the hardcast before it
  lands. It needs a hit that is off by exactly one nanosecond, which the run's `Beat` leaves
  out; `CastsLand` is proved but for that (section 5).
* A dot that class code ends in its own tick ticks twice at that instant: its action still
  reads the instant when `OnExpire` looks (`dot.go:361`, `:420`). `TicksKeepTime` leaves out
  exactly those dots.
* A poison whose aura is refreshed alone may do one more tick at its end, after the
  ticks it was given, if no event lies between (`dot.go:419`, `rogue/poisons.go:121`).
  `RemainingIsTrue` leaves those dots out.
* `Preparation` finishes cooldowns without `UpdateMajorCooldowns`
  (`rogue/talents_subtlety.go:181-203`, against `major_cooldown.go:404`). Used by
  autocast this does no harm, as autocast updates afterwards; cast by the rotation, the
  cooldowns left to autocast stay hidden until their old ready time. `NothingHeldBack`
  states exactly that.
* A worker that left the page's pool refuses aborts: its sim runs to its end, and the
  queue waits for it.

## 4. Fairness

* `EventLoop`, `AuraTracker`: the loop's own steps are weakly fair. It is one
  goroutine and callbacks return, so it goes on; engine calls are never forced.
  `MaxOps` bounds how often a callback calls the engine, which is what "callbacks do
  not re-arm at the same instant for ever" comes to.
* `ConcurrentSim`: every thread, the parent, the client's half-done trigger and the
  reader are weakly fair: the Go scheduler runs what can run. Threads always report,
  abort or fail; aborting and failing are never forced.
* `WebAsync`: the run, the reader, the client's load and delete and an abort under
  way are weakly fair; writing an answer is strongly fair, which says that not every
  answer is lost. A run is not forced to end, only an aborted one is.
* `SimQueue`: the page's loops and the web workers' message handling are weakly fair. A
  sim that an abort reached ends; no other is made to end, but for those no abort can
  reach (two on one worker, or on a worker that left the pool), which must run out for
  the queue to end: a sim has finitely many iterations.
* `ExclusiveEffects`, `SpellQueue`, `Dots` and `MajorCooldowns` state safety only and assume no fairness.
* `BulkSim`: the main goroutine, the feeder and each worker are weakly fair, and
  every sim returns.

## 5. What is proved

`EventLoopProofs` proves, for all sets of actions, attacks and tasks, all delays,
priorities, capacities and bounds:

| Theorem | States |
|---|---|
| `TypeCorrect` | `[]TypeOK` |
| `QueueCorrect` | `[]QueueOrdered` |
| `PoolCorrect` | `[]PoolNeverAliases` |
| `ClockForward` | `ClockMonotone`: the clock never goes back inside an iteration (stated for the proof; no run checks it) |
| `CancelledCorrect` | `CancelledNeverRuns` |
| `CacheCorrect` | `[]CacheNeverLate` |
| `ClockCorrect` | `ClockPassesNoWork` |
| `EndCorrect` | `[]EndDropsNothing` |
| `ActionsLast` | `ActionsAfterSwings` |

None of these is inductive alone. `QueueOrdered` needs to know that an action on
the queue has its flags clear and that one being run is off it (`QueueInv`), that
times stay below `Never` so that the sentinel stays at the bottom (`LoopInv`), that
pooled actions are not on the queue when they are handed out (`PoolInv`) and that
prepull actions are queued once each (`PrepullInv`); with the shape of the lists
(`ListInv`) their conjunction `LoopIndInv` is inductive. The lemmas `InsertSorts` and
`RemoveSorts` carry the argument of the insertion scan. `CacheInv` adds, for every place of a walk, that an entry of the
list is covered by the time computed so far, still ahead of the walk in the backing
array, or `missed`. A removal hides nothing: the entry it moves also stays at its old
place, where the walk comes to it. An append hides at most what stood only at the place
it writes over, which is what `Forgotten` collects, and its own entry's time goes into
the cache. `DueInv` says that no
queued action lies in the past, from which the clock and the order of ties follow.

The assumptions are `ConstantsAssumption` of `EventLoop`, which the event-loop run
evaluates: distinct kinds of actions, natural durations, delays that end before
`Never`, sorted prepull times before zero.

### Aura tracking

`AuraTrackerProofs`, for any units, pets, auras, events, nesting
and bounds:

| Theorem | States |
|---|---|
| `IndexesCorrect` | `[]IndexesAgree` |
| `DispatchCorrect` | `[]DispatchIntact` |
| `ResetCorrect` | `[]ResetFindsNoneActive` |
| `CacheCorrect` | `[]CacheNeverLate`, if `Resummon = FALSE` |
| `AdvanceCorrect` | `AdvanceLeavesNoneOverdue`, if `Resummon = FALSE` |

The inductive invariant of the first three is `TrackerInv`. `IndexesAgree` says that the
positions kept by the auras lead into the lists; `removeBySwappingToBack` trusts more than
that, so `PlaceInv` says that the list holds *the aura* at its position, and that an
aura is on a list exactly if its position says so. `StackInv` describes the loops under
way: which may run inside which, that every frame but the top one is calling, and
(`EventInv`) that the nested events of a unit use its buffers 1 to its depth, one each,
so that none overwrites the audience of another. `QuietInv` follows a reset and an end of
iteration through the units: only those whose turn has not come, or is over, have
active auras. `WalkInv` is the array under the slice of trackers that an advance walks.

For the caches, `CacheInv` adds where a cached time may be late for the moment: a tracker whose
`advance` has a callback running recomputes its time afterwards (`Scanned`), and one
the walk of the event loop has not passed is computed when it comes (`StillWalked`).
That a removal moves an unvisited tracker only onto the place being visited, and that
nothing is added behind the walk, is where `Resummon = FALSE` is used. `DueInv` says
that an advance has left nothing overdue behind it.

The assumptions are those of `TrackerAssumption`: pets and targets are distinct units,
each unit is reset and finished, an aura's duration is positive and ends before
`Never`, and events may nest at least once.

### Exclusive effects

`ExclusiveProofs`, for any auras, categories, bids and lengths:

| Theorem | States |
|---|---|
| `HighestCorrect` | `[]HighestApplies` |
| `AppliedCorrect` | `[]AppliedIsBid` |
| `BlockedCorrect` | `BlockedLeavesNoTrace` |

`ExclusiveInv` says of each category that the active effect is one that is enabled and
tops the bids of the enabled, and that what is applied is its bid. That
`GetHighestPrioActiveEffect` returns such an effect (`ScanFindsBest`) is shown on
the code's loop over the enabled effects, by the least place at which it would not.
`BlockedCorrect` compares a refused gain with the state before it: `SinceInv` says that until
the gaining aura has bid in a category of one, its own bids are all that has changed,
and `FreeInv` that in the second such category nothing is refused. The assumptions are
those of `ExclusiveAssumption` named in section 2.

### Dots

`DotsProofs`, for any casters, units, dots, periods, ranks, channels, haste factors and
length of the iteration:

| Theorem | States |
|---|---|
| `OneTickCorrect` | `[]OneTickQueued` |
| `RemainingCorrect` | `[]RemainingIsTrue` |
| `TicksCorrect` | `[]TicksKeepTime` |
| `OnePerCasterCorrect` | `[]OnePerCaster` |
| `CutCorrect` | `CutWithoutTick` |

One operation may end several dots, cut a channel and start another, so `DotsInv` is stated
of a record like `State` and each method is followed from record to record: `X` are the
dots that have no action for the moment (the one that ticks, the one that is cut), `Y` the
channel that is up and not yet the caster's. Its parts: the queue is sorted and holds one
action for each dot that is up, at the time the dot has noted (`Queued`; `RemoveFirst` looks
for that time, so a stale one would leave the action behind); the numbers of a dot that
is up agree (`Timed`), in particular the next tick is one period after the last (`OnBeat`), which is
why the tick that the end of an aura does is never a second one, unless the end comes from the
dot's own tick; the caster's channel and
the channels that are up are the same (`ChannelInv`); one rank is up (`GroupInv`). Between two
steps each aura that is up has time left (`Alive`), so that a tick is never the last unless the
aura's end does it. It follows that here `DoNextAction` never meets a channel that has no
ticks left, the case its branch at `apl.go:516-521` is for (`LookStep`).

`DotsInv` says nothing of `strays`: what the end of a dot adds to them is followed apart
(`Ended`, `LastTicked`). An end from outside a tick adds none, a dot's own tick adds at most
itself, and the inductive invariant is `DotsInv` with `strays \subseteq twice`.

What the end of one dot keeps (`DeactivateKeeps`, `CutKeeps`) is carried to sets of them along
the function that `FoldSet` defines: that it exists (`EndsExist`) and what it keeps
(`EndsKeep`) are shown by the smallest set that would fail. The arithmetic of an
extension (`ExtendNumbers`) is that the time left, the base duration added, is never less than
the time to the next tick, so at least one tick remains; it rests on a hasted period being
at most the base one (`RoundUpFacts`). The assumptions are those of `DotsAssumption`: there
are finitely many dots, their base lengths and tick counts are positive and no haste factor
rounds either to zero, a channel joins no rank group and is neither extended nor refreshed
while it runs, and `Never` lies beyond the iteration's end.

### Web requests

`RequestProofs`, for any requests, ids and capacities:

| Theorem | States |
|---|---|
| `RegistryCorrect` | `[]RegistryIsExact` |
| `ResultKept` | `[]FinalNotLost` |
| `OutcomeNeverNowhere` | `[]OutcomeKept`: a sent outcome is on its way, in the cache or with the client (stated for the proof; it is what `OutcomeHeard` rests on) |

`RegistryInv` ties the registry to what each request's goroutine holds, whose second
registration under an id may come before the first is gone; `ReaderInv` says, for each
place of that goroutine, that the channel and the reader's cache together hold
progress and then at most one outcome; `CacheInv` what a client may have loaded. The
reader's timeout is the one way to lose an outcome, and each statement leaves the timed-out
requests out.

### A concurrent run

`ConcurrentProofs`, for any number of threads and iterations and any capacities:

| Theorem | States |
|---|---|
| `SuccessCorrect` | `[]SuccessIsComplete` |
| `PromiseKept` | `Spec => Promise!Safety`: the run implements `SimRequest` but for its liveness |

`RunInv` follows a count on its way: a thread's channel holds growing counts that are
at most what it ran, then at most one outcome, which is true of the thread (`ThreadInv`);
the parent's counts are behind those (`CountInv`); the outcome the parent has taken from
a thread is true of it (`HeldInv`); and what the request was told are growing totals, no
outcome before the parent's end and one there, behind which only the error of a
second trigger may come (`SaidInv`). That totals of growing counts grow, and that the shares add up to
the iterations, follows from `Totals` by least counterexample (`TotalsGrow`,
`SharesTotal`); that the splits' seeds meet without overlap is `SeedsCover`. The refinement
then needs one step per action: a send by the parent is a step of `SimRequest`, the
closing of the channel its end, and everything else a stutter. The assumptions are those
of `ConcurrencyAssumption`: there are iterations, splits and room in every channel.

### The page's queue

`QueueProofs`, for any sims, splits, workers, failures and sizes of the pool:

| Theorem | States |
|---|---|
| `OutcomeCorrect` | `[]OutcomeIsTrue` |
| `OneSplitCorrect` | `[]OneSplitEach` |

One piece of a loop may claim a split, ask for the next sim's and post to a worker, or
trigger the abort of all the others. `QueueInv` is therefore stated of a record like
`State`, so that a piece can be followed from call to call inside it. Its parts: the turn
is at a split that exists (`TurnInv`); no two loops have the same split, and a loop leaves
without an error only when nothing is left to claim (`LoopInv`); a sim's split requests are
asked for once, and no split is claimed before they are answered (`PromiseInv`); an
error has triggered the signal, and an error or an abort told has its cause (`StopInv`,
`CauseInv`, `AbortInv`); what runs on a worker or is on its way there is awaited by a loop from
that worker, once (`OnWorkerInv`); and a split that has been claimed is with a loop or
back, unless the queue is stopped (`BackInv`), from which it follows that a
queue without errors returns when every sim is whole. While the pool keeps its size each
loop's split is on its own worker (`OwnInv`), which with `OnWorkerInv` is `OneSplitEach`.
That the loops start with an invariant state each (`BegunFacts`) is shown by the least loop at
which it would fail. The assumptions are those of `SimQueueAssumption`: there are
sims and workers, a sim has between one split and one per worker, and the outcome `Nil` is
none of the others.

### The rotation and the spell queue

`QueueProofs`, for any spells, GCDs, cast times, cooldowns, windows and waits:

| Theorem | States |
|---|---|
| `RotationNeverAsleep` | `NeverAsleep` |
| `RotationPickGoesFirst` | `PickGoesFirst` |
| `RotationCastsLand` | `CastsLand`, if `[]NoTie` |

That the next look is armed is not inductive: while calls are under way it need not be. `RotationInv`
therefore says that it is on the queue at the time of `RotationTimer`, *or* it is due and a look is
under way, whose end arms it again (`LookComes`), and that it is not too late (`InTime`). For that
the calls on the stack must be in a shape that returns (`Stacked`: a hardcast completes once, with
its picks on top of it or nothing; a press is carried out before anything else), a completion may be under
way only of a hardcast that is due, and the queue holds each of the unit's actions once
(`Timed`), so that arming one replaces it. `WakeKept` is the wake of a Wait, step by step.
`PickGoesFirst` follows action by action: while the pick waits nothing completes and nothing is
pressed (`PickFacts`), and what the rotation casts or queues went past `HeldByQueuedSpell`.

`CastsLand` needs more (`LandInv`): the queue is in order and nothing on it lies in the past
(`Ordered`, which `AddPendingAction`'s place keeps, `ArmOrder`); while a hardcast runs its landing
is on the queue at its end, so that the clock cannot pass it; and once it is due, whatever is under way
completes it first (`Ends`), so that no press or look finds it still there. One case breaks that, the tie
of section 3: `NoTie` says that no queued spell is due at the very end of the hardcast. It is a
hypothesis about the behaviour, since for some values of the constants it fails; on the run's
instance it is an invariant. The assumptions are those of `SpellQueueAssumption`:
times are natural, reaction time, `Beat` and Waits are positive, a spell that takes no time has a cooldown.

### Major cooldowns

`CooldownProofs`, for any list of cooldowns, timers, cast times, resets, timings and bounds:

| Theorem | States |
|---|---|
| `CooldownsNothingHeldBack` | `[]NothingHeldBack` |
| `CooldownsPickInTurn` | `[]PicksInTurn` |

`IndInv` adds to them what makes the list trustworthy: it holds each cooldown once (`Whole`), in the order of
the ready times as `UpdateMajorCooldowns` last saw them and of priority (`InOrder`), the cached
time is no later than the first of those that autocast may use (`Cached`), and a cast that is
under way has not been passed by the clock (`Casting`). The real ready times are only compared
with the ones last heard of: a timer that a cast sets moves forward and the cast updates the
list, and a reset by a spell of the rotation's own is the one thing that moves a time back behind the
list's back, which is the exception `NothingHeldBack` names. The assumptions are those of
`MajorCooldownsAssumption`: the list holds each cooldown once, what is reset and what starts at an effect's
end has a timer, lengths are natural, and `Never` lies beyond the iteration's end.

### The bulk sim

`RequestProofs`, for any candidates, workers, stages, passes and numbers of results:

| Theorem | States |
|---|---|
| `BulkSegmentsFollow` | `[]SegmentsFollow` |
| `BulkOkIsComplete` | `[]OkIsComplete` |

A result is extended by whoever finds it, so each place of `runBulkSim` must say how far every result
reaches. `BulkInv` does: the baseline covers what it has simmed, from the first iteration on
(`BaseInv`); a candidate's result is none, an error or covers exactly what the baseline does
(`ResultsInv`), which is why a segment that starts there follows; what a stage carries over to the next is
whole and covers no more than has been simmed (`CarryInv`). The pool works on the candidates of
the stage and only while `runBulkSim` waits (`PoolInv`); an error found there is on its way to
the signal (`AbortInv`), so a batch that lost a candidate between feeder and worker was
aborted (`LeftInv`, with `Fed` for the batch under way), and what is shown as a success
(`OkInv`) is complete. `StageInv` says where the final stage begins. How many iterations segments add
up to (`Total`) and which candidates are kept in their order (`Kept`) are recursive functions; what
the proof needs of them is shown by the least length at which it would fail. The assumptions
are those of `BulkAssumption`: candidates and workers are finite sets and not empty, there is a
stage, each sims at least one iteration on at least one worker, culling leaves no fewer candidates
than are shown, and the last stage culls none.

### Only model-checked

* All liveness: `AbortEnds` of `WebAsync` and `SimQueue`, `OutcomeHeard`, `RunEnds` of `BulkSim`,
  that loops and threads end, that a request is over at some time. TLAPS does not prove
  liveness under fairness.
* That `NoTie`, the hypothesis of `RotationCastsLand`, holds: it depends on the values of the constants.

## 6. Plan

In order:

1. Done: `EventLoop` with its theorems, `AuraTracker`, `ExclusiveEffects`, `SpellQueue`,
   `Dots`, `MajorCooldowns`, `ConcurrentSim` with `SimRequest`, `WebAsync`, `BulkSim`,
   `SimQueue`.
2. Done: the theorems of section 5, each with its strengthening checked by TLC first. No
   safety property of a passing run is left to TLC alone; `CastsLand` is proved but for the tie of section 3.
3. Channels and strict sequences over the queued spell in `SpellQueue`.
4. Periodic actions (ticks counted against the number asked for, one cancelled from its
   own tick) and deferred procs (a free list that must agree with its users), as actions
   of `EventLoop`'s queue; progress messages as part of `BulkSim`'s workers.

## 7. Not modelled

Damage, hit tables, resources and metrics are floating-point arithmetic along one
path, which unit tests and recorded results of the repository cover. Class packages,
encounters and items are clients of the engine: the engine modules let callbacks do
anything the engine offers. siml, the reforge optimizer, candidate generation, data
pipelines and assets are pure functions or data. Of the user interface the queue of sims is `SimQueue` and the polling loop is the
client of `WebAsync`; pages and components are left out. `PROJECT.json` names each with its reason.
