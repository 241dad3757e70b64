------------------------------- MODULE SimQueue -------------------------------
(***************************************************************************)
(* The queue of sims that the web page runs on its pool of web workers     *)
(* (runConcurrentSimQueue of ui/sim/wasm/sim.ts, the pool and the calls of *)
(* ui/sim/workers/, the abort signal of ui/sim/sim_signal_manager.ts).     *)
(*                                                                         *)
(* The page's code runs on one thread, a piece at a time: each action of a *)
(* loop is what runs between two awaits, and the loops, one per worker of  *)
(* the pool when the queue starts, interleave there. A web worker takes    *)
(* the messages posted to it in order; the page only sees the answers.     *)
(* A call to it (ui/worker/worker_interface.ts) is answered while it runs  *)
(* one sim and held while it runs two, an abort ends the sim it names if   *)
(* that sim runs and is lost otherwise.                                    *)
(***************************************************************************)
EXTENDS Integers, Sequences, FiniteSets, SequencesExt, FiniteSetsExt

CONSTANTS
    Workers,      \* splitCount: the workers of the pool when the queue starts
    Sims,         \* how many sims are queued
    SplitsOf(_),  \* splitsDone: into how many requests a sim is split
    MaxResizes,   \* bound: changes of the pool's size
    MaxFailures,  \* bound: sims and split requests that fail
    Nil

Loops == 1..Workers
Splits == {<<s, i>> : s \in 1..Sims, i \in 1..Workers}

ASSUME SimQueueAssumption ==
    /\ Workers \in Nat \ {0} /\ Sims \in Nat \ {0}
    /\ \A s \in 1..Sims : SplitsOf(s) \in 1..Workers
    /\ MaxResizes \in Nat /\ MaxFailures \in Nat
    /\ Nil \notin {"ok", "failed", "aborted"}

VARIABLES
    pool,      \* how many workers the pool has; it refuses calls to the others (shouldDestroy)
    box,       \* what is posted to each web worker and not yet taken by it
    running,   \* the splits each web worker runs
    hit,       \* the running splits whose abort their worker has taken
    refused,   \* splits whose abort was refused, as their worker had left the pool
    triggered, \* signals.abort
    aborted,   \* whether the user did it
    errors,    \* the kinds of the errors
    memo,      \* the sims whose promise of split requests is kept in splits
    promise,   \* what became of a sim's promise of split requests
    nextSim, nextSplit,
    loop,      \* where each loop stands, with its sim, split and the worker it was sent to
    results,   \* the splits of a sim that came back
    returned,  \* how many did
    finished,  \* how often a sim's onResult ran
    outcome,   \* what the queue returned
    resizes, failures

vars == <<pool, box, running, hit, refused, triggered, aborted, errors, memo, promise, nextSim,
          nextSplit, loop, results, returned, finished, outcome, resizes, failures>>
web == <<box, running, hit, refused>>

At(where, s, i, k) == [at |-> where, sim |-> s, split |-> i, worker |-> k]
Call(what, of) == [call |-> what, of |-> of]
SplitOf(w) == <<loop[w].sim, loop[w].split>>

Init ==
    /\ pool = Workers
    /\ box = [k \in Loops |-> <<>>]
    /\ running = [k \in Loops |-> {}]
    /\ hit = {} /\ refused = {}
    /\ triggered = FALSE /\ aborted = FALSE /\ errors = {}
    /\ memo = {}
    /\ promise = [s \in 1..Sims |-> "none"]
    /\ nextSim = 1 /\ nextSplit = 1
    /\ loop = [w \in Loops |-> At("begin", 0, 0, 0)]
    /\ results = [s \in 1..Sims |-> {}]
    /\ returned = [s \in 1..Sims |-> 0]
    /\ finished = [s \in 1..Sims |-> 0]
    /\ outcome = Nil
    /\ resizes = 0 /\ failures = 0

-----------------------------------------------------------------------------
(* The calls a piece of the page's code makes, on a state S of what they change *)

State == [box |-> box, refused |-> refused, triggered |-> triggered, errors |-> errors,
          memo |-> memo, promise |-> promise, nextSim |-> nextSim, nextSplit |-> nextSplit,
          loop |-> loop]
Becomes(S) ==
    /\ box' = S.box /\ refused' = S.refused /\ triggered' = S.triggered /\ errors' = S.errors
    /\ memo' = S.memo /\ promise' = S.promise /\ nextSim' = S.nextSim
    /\ nextSplit' = S.nextSplit /\ loop' = S.loop
Post(S, k, m) == [S EXCEPT !.box[k] = Append(@, m)]

\* The workers getLeastBusyWorker may pick: what is left of other sims is not told apart.
Idle(k) == box[k] = <<>> /\ running[k] = {}
LeastBusy ==
    LET idle == {k \in 1..pool : Idle(k)}
    IN  IF idle = {} THEN 1..pool ELSE idle

\* The splits that were posted to worker k and are still awaited.
Awaited(S, k) ==
    {<<S.loop[w].sim, S.loop[w].split>> :
        w \in {v \in Loops : S.loop[v].at = "sim" /\ S.loop[v].worker = k}}

\* trigger: an abort for each sim still awaited; a worker that left the pool refuses it.
Trigger(S) ==
    IF S.triggered THEN S
    ELSE [S EXCEPT !.triggered = TRUE,
                   !.box = [k \in Loops |->
                               IF k <= pool
                               THEN @[k] \o SetToSeq({Call("abort", of) : of \in Awaited(S, k)})
                               ELSE @[k]],
                   !.refused = @ \cup UNION {Awaited(S, k) : k \in (pool + 1)..Workers}]

Done(S, w) == [S EXCEPT !.loop[w] = At("done", 0, 0, 0)]
\* The loop ends with an error, which aborts what the others run.
Fail(S, w, error) == Trigger([Done(S, w) EXCEPT !.errors = @ \cup {error}])

\* Mutant: an abort is left to the sims to hear.
MutStopped(S) == S.errors # {}

\* stopped()
Stopped(S) == S.errors # {} \/ S.triggered
Stop(S, w) == IF S.errors # {} THEN Done(S, w) ELSE Fail(S, w, "aborted")

\* splitOf(sim): asked once and kept. k is the worker that is asked.
SplitRequest(S, s, k) ==
    IF s \in S.memo THEN S
    ELSE Post([S EXCEPT !.memo = @ \cup {s}, !.promise[s] = "asked"], k, Call("split", <<s, 0>>))

\* The head of claim's loop: wait for the split of the sim in turn, or leave with nothing.
AwaitSplit(S, w, k) ==
    IF S.nextSim > Sims THEN Done(S, w)
    ELSE [SplitRequest(S, S.nextSim, k) EXCEPT !.loop[w] = At("split", S.nextSim, 0, 0)]

\* The head of a worker's loop
NextRound(S, w, k) == IF Stopped(S) THEN Stop(S, w) ELSE AwaitSplit(S, w, k)

\* The rest of claim: take the split in turn and ask for the next sim's as this one starts.
Take(S, w, k) ==
    LET s == S.nextSim
        i == S.nextSplit
        last == i = SplitsOf(s)
        T == [S EXCEPT !.loop[w] = At("claimed", s, i, 0),
                       !.memo = IF last THEN @ \ {s} ELSE @,
                       !.nextSim = IF last THEN s + 1 ELSE s,
                       !.nextSplit = IF last THEN 1 ELSE i + 1]
    IN  IF i = 1 /\ s < Sims THEN SplitRequest(T, s + 1, k) ELSE T

-----------------------------------------------------------------------------
(* The page *)

Quiet == UNCHANGED <<pool, aborted, outcome, resizes, failures>>
NoResult == UNCHANGED <<results, returned, finished>>

\* The loops run up to their first await, one after the other.
Begun(k) ==
    LET upTo[w \in 0..Workers] == IF w = 0 THEN State ELSE NextRound(upTo[w - 1], w, k)
    IN  upTo

\* The queue starts.
Start ==
    /\ \A w \in Loops : loop[w].at = "begin"
    /\ \E k \in LeastBusy : Becomes(Begun(k)[Workers])
    /\ UNCHANGED <<running, hit>> /\ Quiet /\ NoResult

\* Mutant: a loop that waited takes its split without looking whose turn it is.
MutInTurn(w) == nextSim <= Sims

\* Whether no other loop has taken the last split of the sim this one waited for.
InTurn(w) == loop[w].sim = nextSim

\* A loop that waited for a sim's split requests goes on.
Claim(w) ==
    /\ loop[w].at = "split"
    /\ \E k \in LeastBusy :
          \/ /\ promise[loop[w].sim] = "failed"
             /\ Becomes(Fail(State, w, "failed"))
          \/ /\ promise[loop[w].sim] = "ok"
             /\ Becomes(IF InTurn(w) THEN Take(State, w, k) ELSE AwaitSplit(State, w, k))
    /\ UNCHANGED <<running, hit>> /\ Quiet /\ NoResult

\* Mutant: a split goes to the least busy worker, as other calls do.
MutTargets(w) == LeastBusy

Targets(w) == IF w <= pool THEN {w} ELSE LeastBusy

\* Once a split is claimed the loop looks again whether the queue is stopped; then raidSimAsync
\* subscribes to the abort and posts the sim, to the loop's own worker while the pool has it.
Send(w) ==
    /\ loop[w].at = "claimed"
    /\ IF Stopped(State) THEN Becomes(Stop(State, w))
       ELSE \E k \in Targets(w) :
               Becomes(Post([State EXCEPT !.loop[w] = [@ EXCEPT !.at = "sim", !.worker = k]],
                            k, Call("sim", SplitOf(w))))
    /\ UNCHANGED <<running, hit>> /\ Quiet /\ NoResult

\* A split comes back: an error ends the loop, and the last result of a sim finishes the sim.
SimEnds(w, result) ==
    LET s == loop[w].sim
        i == loop[w].split
        k == loop[w].worker
        forget == [State EXCEPT !.refused = @ \ {<<s, i>>}]
    IN  /\ loop[w].at = "sim" /\ <<s, i>> \in running[k]
        /\ result = "aborted" <=> <<s, i>> \in hit
        /\ running' = [running EXCEPT ![k] = @ \ {<<s, i>>}]
        /\ hit' = hit \ {<<s, i>>}
        /\ IF result = "ok"
           THEN /\ results' = [results EXCEPT ![s] = @ \cup {i}]
                /\ returned' = [returned EXCEPT ![s] = @ + 1]
                /\ finished' = [finished EXCEPT ![s] = IF returned'[s] = SplitsOf(s) THEN @ + 1 ELSE @]
                /\ \E j \in LeastBusy : Becomes(NextRound(forget, w, j))
                /\ UNCHANGED failures
           ELSE /\ result = "failed" => failures < MaxFailures
                /\ failures' = IF result = "failed" THEN failures + 1 ELSE failures
                /\ Becomes(Fail(forget, w, result))
                /\ NoResult
        /\ UNCHANGED <<pool, aborted, outcome, resizes>>

\* The user cancels: abortType triggers the signals of the run.
Abort ==
    /\ ~triggered /\ outcome = Nil
    /\ aborted' = TRUE
    /\ Becomes(Trigger(State))
    /\ UNCHANGED <<pool, running, hit, outcome, resizes, failures>> /\ NoResult

\* The user changes the number of workers. One that leaves the pool ends what it has been given.
Resize(n) ==
    /\ resizes < MaxResizes /\ n # pool
    /\ pool' = n
    /\ resizes' = resizes + 1
    /\ UNCHANGED <<web, triggered, aborted, errors, memo, promise, nextSim, nextSplit, loop,
                   outcome, failures>>
    /\ NoResult

Settled == \A w \in Loops : loop[w].at = "done"

\* A failure is preferred to the aborts it sets off.
Return ==
    /\ outcome = Nil /\ Settled
    /\ outcome' = IF errors = {} THEN "ok" ELSE IF "failed" \in errors THEN "failed" ELSE "aborted"
    /\ UNCHANGED <<pool, web, triggered, aborted, errors, memo, promise, nextSim, nextSplit,
                   loop, resizes, failures>>
    /\ NoResult

-----------------------------------------------------------------------------
(* The web workers *)

\* The next message, unless two sims run. A sim starts, an abort is heard by the sim it names.
TakeMessage(k) ==
    /\ box[k] # <<>> /\ Cardinality(running[k]) < 2
    /\ LET m == Head(box[k])
       IN  /\ box' = [box EXCEPT ![k] = Tail(@)]
           /\ running' = IF m.call = "sim" THEN [running EXCEPT ![k] = @ \cup {m.of}] ELSE running
           /\ hit' = IF m.call = "abort" THEN hit \cup ({m.of} \cap running[k]) ELSE hit
           /\ IF m.call = "split"
              THEN \/ promise' = [promise EXCEPT ![m.of[1]] = "ok"] /\ UNCHANGED failures
                   \/ /\ failures < MaxFailures /\ failures' = failures + 1
                      /\ promise' = [promise EXCEPT ![m.of[1]] = "failed"]
              ELSE UNCHANGED <<promise, failures>>
    /\ UNCHANGED <<pool, refused, triggered, aborted, errors, memo, nextSim, nextSplit, loop,
                   outcome, resizes>>
    /\ NoResult

Over == outcome # Nil /\ UNCHANGED vars

Next ==
    \/ Start
    \/ \E w \in Loops : Claim(w) \/ Send(w)
    \/ \E w \in Loops, result \in {"ok", "failed", "aborted"} : SimEnds(w, result)
    \/ Abort
    \/ \E n \in 1..Workers : Resize(n)
    \/ Return
    \/ \E k \in Loops : TakeMessage(k)
    \/ Over

\* Nothing says how long a sim takes, so none need end by itself, but for those no abort can
\* reach: of two on a worker one ends at some time, and so does one whose worker refused.
Unreachable(w) ==
    Cardinality(running[loop[w].worker]) > 1 \/ SplitOf(w) \in refused

Fairness ==
    /\ WF_vars(Start) /\ WF_vars(Return)
    /\ \A w \in Loops : WF_vars(Claim(w)) /\ WF_vars(Send(w))
    /\ \A w \in Loops : WF_vars(SimEnds(w, "aborted"))
    /\ \A w \in Loops : WF_vars(SimEnds(w, "ok") /\ Unreachable(w))
    /\ \A k \in Loops : WF_vars(TakeMessage(k))

Spec == Init /\ [][Next]_vars /\ Fairness

-----------------------------------------------------------------------------
(* Properties *)

TypeOK ==
    /\ pool \in 1..Workers /\ resizes \in 0..MaxResizes /\ failures \in 0..MaxFailures
    /\ \A k \in Loops : \A i \in DOMAIN box[k] :
          box[k][i] \in [call : {"sim", "abort"}, of : Splits]
                          \cup [call : {"split"}, of : (1..Sims) \X {0}]
    /\ running \in [Loops -> SUBSET Splits] /\ hit \cup refused \subseteq Splits
    /\ triggered \in BOOLEAN /\ aborted \in BOOLEAN /\ errors \subseteq {"failed", "aborted"}
    /\ memo \subseteq 1..Sims
    /\ promise \in [1..Sims -> {"none", "asked", "ok", "failed"}]
    /\ nextSim \in 1..Sims + 1 /\ nextSplit \in 1..Workers
    /\ \A w \in Loops : loop[w].at \in {"begin", "split", "claimed", "sim", "done"}
    /\ results \in [1..Sims -> SUBSET Loops]
    /\ returned \in [1..Sims -> Nat] /\ finished \in [1..Sims -> Nat]
    /\ outcome \in {"ok", "failed", "aborted", Nil}

Holds(k) == running[k] \cup {box[k][i].of : i \in {j \in DOMAIN box[k] : box[k][j].call = "sim"}}

\* Every variable has its type, and a queue that returns has every sim's splits handed over once
\* and in full, unless it returns an error: then a sim or a split request failed or the user
\* aborted, and a failure without the user's abort is told. A sim is only ever handed over
\* with all its splits (claim, finish and the choice of the error). It returns with nothing of it
\* left on a worker, whatever failed and however the pool changed: a new run finds them free.
OutcomeIsTrue ==
    /\ TypeOK
    /\ \A s \in 1..Sims :
          finished[s] = IF results[s] = 1..SplitsOf(s) THEN 1 ELSE 0
    /\ outcome = "ok" => \A s \in 1..Sims : finished[s] = 1
    /\ outcome = "failed" => failures > 0
    /\ outcome = "aborted" => aborted
    /\ outcome # Nil /\ failures > 0 /\ ~aborted => outcome = "failed"
    /\ outcome # Nil => \A k \in Loops : Holds(k) = {}

\* "No worker runs two at once: a worker running two holds every call to it": while the pool keeps
\* its size a worker has at most one split, on its way or running, so an abort is heard.
OneSplitEach == resizes = 0 => \A k \in Loops : Cardinality(Holds(k)) <= 1

\* An abort ends the run even though no sim ends by itself: "an abort sent before its sim starts
\* never reaches the sim", so a loop that has claimed a split must look once more.
AbortEnds == triggered ~> outcome # Nil
===============================================================================
