-------------------------------- MODULE BulkSim --------------------------------
(***************************************************************************)
(* A bulk sim (sim/core/bulk): many gear sets are simmed in stages, each of *)
(* which sims more iterations of fewer sets.  A stage first sims the        *)
(* baseline gear, then hands the candidates to worker goroutines; it may    *)
(* add adaptive passes while the error is above its target.  The finalist   *)
(* stage adds rounds until the shown ranking is separated.  Iterations      *)
(* already simmed are carried over: a segment sims only the rest, with its  *)
(* seeds starting where the carried ones end.                               *)
(*                                                                         *)
(* The DPS is left out: what it decides (whether the error target is met,   *)
(* who survives and how the ranking goes) is any choice the code can make.  *)
(* A result keeps which iterations it covers.  Sims run for as long as they *)
(* like, and one may fail.  Progress messages are left out.                 *)
(***************************************************************************)
EXTENDS Integers, Sequences, FiniteSetsExt, SequencesExt

CONSTANTS
    Candidates,     \* gear sets asked for
    Workers,        \* worker goroutines a batch may start
    Stages,         \* BulkSimStageConfigs: minimum, survivors kept (0: all), workers, UseConcurrentSim
    TopResults,     \* results shown
    Extra,          \* bound: iterations an error target may ask for above what was simmed
    Passes,         \* BulkSimMaxAdaptivePasses
    FinalFactor,    \* BulkSimFinalistMaxExtraIterationMultiplier
    Nil

\* What a sim returns, and what the next segment finds of the stage before.
Runs == Seq([from : Nat, n : Nat \ {0}])
Simulated == [is : {"done", "failed", "aborted"}, runs : Runs]
ResultType == Simulated \cup {Nil}
CarryOvers == [covered : Nat, baseline : ResultType, by : [Candidates -> ResultType]]

ASSUME BulkAssumption ==
    /\ Candidates # {} /\ IsFiniteSet(Candidates) /\ Workers # {} /\ IsFiniteSet(Workers)
    /\ Stages # <<>>
    /\ Stages \in Seq([min : Nat \ {0}, keep : Nat, workers : 1..Cardinality(Workers),
                       concurrent : BOOLEAN])
    \* "culling never leaves fewer candidates than the run shows"
    /\ \A i \in 1..Len(Stages) : Stages[i].keep = 0 \/ Stages[i].keep >= TopResults
    \* the high stage does not cull
    /\ Stages[Len(Stages)].keep = 0
    /\ TopResults \in Nat \ {0} /\ Extra \subseteq Nat \ {0} /\ Passes \in Nat /\ FinalFactor \in Nat
    /\ Nil \notin Candidates \cup {"ok", "failed", "aborted"} /\ Nil \notin Simulated /\ Nil \notin CarryOvers

VARIABLES
    pc,        \* where runBulkSim is
    stage,     \* index of its stage; Len(Stages) + 1 is the finalist stage
    left,      \* the stage's candidates, in order
    carry,     \* bulkSimStageCarryOver: iterations, baseline, byCandidate
    baseline,  \* the baseline's result
    results,   \* resultsByPosition, by candidate
    covered,   \* iterations every result of the stage covers, once its batch is done
    base,      \* iterations simmed before the finalist stage
    pass,      \* adaptive passes, or rounds of the finalist stage, begun
    segment,   \* the iterations being simmed now: first and count
    jobs,      \* the jobs channel: positions and whether it is closed
    fed,       \* candidates the feeder has sent
    worker,    \* per worker its stage and its task
    abort,     \* signals.Abort
    outcome,   \* what the request ends with
    wanted,    \* the user cancelled (for the properties)
    failed     \* a sim has failed (for the properties)

vars == <<pc, stage, left, carry, baseline, results, covered, base, pass, segment,
          jobs, fed, worker, abort, outcome, wanted, failed>>
pool == <<results, jobs, fed, worker>>

Final == Len(Stages) + 1
Config == IF stage = Final THEN [min |-> 0, keep |-> 0, workers |-> 1, concurrent |-> TRUE]
          ELSE Stages[stage]
Least(m, n) == IF m < n THEN m ELSE n
Most(m, n) == IF m > n THEN m ELSE n

\* What of the sequence q lies in S, in its order.
Kept(q, S) ==
    LET kept[i \in 0..Len(q)] ==
            IF i = 0 THEN <<>> ELSE IF q[i] \in S THEN Append(kept[i - 1], q[i]) ELSE kept[i - 1]
    IN  kept[Len(q)]

Errored(r) == r # Nil /\ r.is # "done"
NoResults == [c \in Candidates |-> Nil]
Off == [w \in Workers |-> [at |-> "off", task |-> Nil]]

\* mergeBulkSimCandidateResults: what a segment adds to what is carried.
Merge(carried, r) ==
    CASE carried = Nil -> r
      [] carried # Nil /\ Errored(carried) -> carried
      [] carried # Nil /\ ~Errored(carried) /\ Errored(r) -> r
      [] OTHER -> [is |-> "done", runs |-> carried.runs \o r.runs]

\* What one sim of the segment may end as; an aborted sim needs the signal.
Verdicts == {"done", "failed"} \cup IF abort THEN {"aborted"} ELSE {}
Result(v) == [is |-> v, runs |-> IF v = "done" THEN <<segment>> ELSE <<>>]

Init ==
    /\ pc = "stages" /\ stage = 1 /\ left = SetToSeq(Candidates)
    /\ carry = Nil /\ baseline = Nil /\ results = NoResults /\ covered = 0 /\ base = 0
    /\ pass = 0 /\ segment = [from |-> 0, n |-> 0]
    /\ jobs = [queue |-> <<>>, closed |-> TRUE] /\ fed = 0 /\ worker = Off
    /\ abort = FALSE /\ outcome = Nil /\ wanted = FALSE /\ failed = FALSE

\* Once simmed, a candidate's result is what the next segment extends.
CarryOver == [covered |-> covered, baseline |-> baseline, by |-> results]
Carried == IF carry = Nil THEN 0 ELSE carry.covered

\* All of them or none: "the stage falls back to running the full count".
Covers == carry # Nil /\ \A i \in 1..Len(left) : carry.by[left[i]] # Nil

-----------------------------------------------------------------------------
(* runBulkSim and its stages *)

Finish(o) == outcome' = o /\ pc' = "finished"

\* The stage loop stops at an abort, and skips a stage that would not cull.
NextStage ==
    /\ pc = "stages" /\ stage <= Len(Stages)
    /\ \/ /\ abort /\ Finish("aborted")
          /\ UNCHANGED <<stage, left, carry, baseline, covered, base, pass, segment>>
       \/ /\ ~abort /\ Config.keep > 0 /\ Len(left) <= Config.keep
          /\ stage' = stage + 1
          /\ UNCHANGED <<pc, left, carry, baseline, covered, base, pass, segment, outcome>>
       \/ /\ ~abort /\ (Config.keep = 0 \/ Len(left) > Config.keep)
          /\ LET had == IF Covers THEN Carried ELSE 0
                 probe == Most(0, Config.min - had)
             IN  /\ carry' = IF Covers THEN carry ELSE Nil
                 /\ baseline' = IF Covers THEN carry.baseline ELSE Nil
                 /\ segment' = [from |-> had, n |-> probe]
                 /\ covered' = had + probe
                 /\ pc' = IF probe > 0 THEN "probe" ELSE "target"
          /\ pass' = 0
          /\ UNCHANGED <<stage, left, base, outcome>>
    /\ UNCHANGED <<pool, abort, wanted, failed>>

\* The iterations the probe's error asks for; the baseline sims the ones it lacks.
SetTarget ==
    /\ pc = "target"
    /\ \E more \in Extra \cup {0} :
          LET target == Most(Config.min + more, covered)
          IN  /\ segment' = [from |-> covered, n |-> target - covered]
              /\ covered' = target
              /\ pc' = IF target > covered THEN "rest" ELSE "batch"
    /\ UNCHANGED <<stage, left, carry, baseline, base, pass, outcome, pool, abort, wanted, failed>>

\* Where the baseline is simmed, while it is, and what comes after.
Basing == {"probe", "rest", "again"}
Simming == [probe |-> "probing", rest |-> "resting", again |-> "extending"]
BaselineNext == [probe |-> "target", rest |-> "batch", again |-> "batch"]

\* runBulkSimBaselineSegment: an errored segment is returned as it is.  In the
\* finalist stage it becomes the baseline the stage's metrics are read from.
BaselineErrs(v) ==
    IF stage = Final
      THEN /\ baseline' = Result(v) /\ pc' = "metrics"
           /\ UNCHANGED outcome
      ELSE Finish(v) /\ UNCHANGED baseline

\* A segment begun after an abort does not sim at all.
BaselineRefused ==
    /\ pc \in Basing /\ abort
    /\ BaselineErrs("aborted")
    /\ UNCHANGED <<stage, left, carry, covered, base, pass, segment, pool, abort, wanted, failed>>

BaselineStarts ==
    /\ pc \in Basing /\ ~abort
    /\ pc' = Simming[pc]
    /\ UNCHANGED <<stage, left, carry, baseline, covered, base, pass, segment, outcome, pool, abort, wanted, failed>>

BaselineEnds ==
    /\ \E where \in Basing : pc = Simming[where] /\
          \E v \in Verdicts :
             /\ IF v = "done"
                  THEN /\ baseline' = Merge(baseline, Result(v)) /\ pc' = BaselineNext[where]
                       /\ UNCHANGED outcome
                  ELSE BaselineErrs(v)
             /\ failed' = (failed \/ v = "failed")
             \* a failing thread of a concurrent sim triggers the signal
             /\ abort' = (abort \/ (v = "failed" /\ Config.concurrent))
    /\ UNCHANGED <<stage, left, carry, covered, base, pass, segment, pool, wanted>>

\* A batch sims what the candidates lack, unless they lack nothing.
StartBatch ==
    /\ pc = "batch"
    /\ IF covered = Carried
         THEN /\ results' = [c \in Candidates |-> IF c \in Range(left) THEN carry.by[c] ELSE Nil]
              /\ pc' = "collected"
              /\ UNCHANGED <<segment, jobs, fed, worker>>
         ELSE /\ results' = NoResults /\ pc' = "waiting"
              /\ segment' = [from |-> Carried, n |-> covered - Carried]
              /\ jobs' = [queue |-> <<>>, closed |-> FALSE] /\ fed' = 0
              /\ \E on \in SUBSET Workers :
                    /\ Cardinality(on) = Most(1, Least(Config.workers, Len(left)))
                    /\ worker' = [w \in Workers |-> [at |-> IF w \in on THEN "take" ELSE "off",
                                                     task |-> Nil]]
    /\ UNCHANGED <<stage, left, carry, baseline, covered, base, pass, outcome, abort, wanted, failed>>

\* wg.Wait returns.
BatchEnds ==
    /\ pc = "waiting" /\ \A w \in Workers : worker[w].at = "off"
    /\ pc' = IF stage = Final THEN "final" ELSE "adapt"
    /\ UNCHANGED <<stage, left, carry, baseline, covered, base, pass, segment, outcome, pool, abort, wanted, failed>>

StageFailed == Errored(baseline) \/ \E c \in Candidates : Errored(results[c])

\* Mutant: an adaptive pass starts its seeds where the stage did.
MutExtend(n) ==
    /\ segment' = [from |-> 0, n |-> n] /\ covered' = covered + n
    /\ carry' = CarryOver
    /\ pass' = pass + 1 /\ pc' = "again"

\* rerunBulkSimStageAdditionalIterations: what was simmed so far is carried.
Extend(n) ==
    /\ segment' = [from |-> covered, n |-> n] /\ covered' = covered + n
    /\ carry' = CarryOver
    /\ pass' = pass + 1 /\ pc' = "again"

\* adaptBulkSimStageIterations.
Adapt ==
    /\ pc = "adapt"
    /\ \/ /\ pc' = "collected" /\ UNCHANGED <<covered, carry, pass, segment>>
       \/ /\ pass < Passes /\ ~abort /\ ~StageFailed
          /\ \E n \in Extra : Extend(n)
    /\ UNCHANGED <<stage, left, baseline, base, outcome, pool, abort, wanted, failed>>

Collected == Kept(left, {c \in Candidates : results[c] # Nil})
FirstError == CHOOSE i \in 1..Len(Collected) :
                 /\ Errored(results[Collected[i]])
                 /\ \A j \in 1..(i - 1) : ~Errored(results[Collected[j]])

\* The first errored result ends the run; else the survivors go on.
StageEnds ==
    /\ pc = "collected"
    /\ IF \E c \in Candidates : Errored(results[c])
         THEN /\ Finish(results[Collected[FirstError]].is)
              /\ UNCHANGED <<carry, stage, left>>
         ELSE /\ carry' = CarryOver
              /\ stage' = stage + 1
              /\ pc' = IF stage = Len(Stages) THEN "ranked" ELSE "stages"
              /\ IF Config.keep = 0 \/ Len(Collected) <= Config.keep
                   THEN left' = Collected
                   \* selectBulkSimSurvivors: at least the ones shown, at most twice the cap
                   ELSE \E on \in SUBSET Range(Collected) :
                          /\ Cardinality(on) >= Least(TopResults, Len(Collected))
                          /\ Cardinality(on) <= 2 * Config.keep
                          /\ left' = Kept(Collected, on)
              /\ UNCHANGED outcome
    /\ UNCHANGED <<baseline, covered, base, pass, segment, pool, abort, wanted, failed>>

-----------------------------------------------------------------------------
(* The finalist stage and the result *)

\* The results shown; a run cut short is not shown.
Ranked ==
    /\ pc = "ranked"
    /\ \/ /\ abort /\ Finish("aborted") /\ UNCHANGED left
       \/ /\ ~abort
          /\ \E on \in SUBSET Range(Collected) :
                /\ Cardinality(on) = Least(TopResults, Len(Collected))
                /\ left' = Kept(Collected, on)
          /\ pc' = "finalists" /\ UNCHANGED outcome
    /\ UNCHANGED <<stage, carry, baseline, covered, base, pass, segment, pool, abort, wanted, failed>>

\* The iterations of the first segments, for each number of them.
Total(runs) == LET sum[i \in 0..Len(runs)] == IF i = 0 THEN 0 ELSE sum[i - 1] + runs[i].n
               IN  sum
Simmed(r) == Total(r.runs)[Len(r.runs)]

\* The finalist stage runs when two results are shown that their iterations do
\* not tell apart, and all were simmed in lockstep.
Finalists ==
    /\ pc = "finalists"
    /\ \/ pc' = "shown"
       \/ /\ Len(left) > 1 /\ Simmed(baseline) > 0
          /\ \A i \in 1..Len(left) : Simmed(results[left[i]]) = Simmed(baseline)
          /\ pc' = "final"
    /\ base' = covered /\ pass' = 0
    /\ UNCHANGED <<stage, left, carry, baseline, covered, segment, outcome, pool, abort, wanted, failed>>

\* Each round doubles the sample, within the budget.
Round ==
    /\ pc = "final"
    /\ \/ /\ covered < base * (FinalFactor + 1) /\ ~abort /\ ~StageFailed
          /\ Extend(Least(covered, base * (FinalFactor + 1) - covered))
       \* separated, out of budget, or cut short
       \/ /\ pass > 0 \/ abort
          /\ pc' = "metrics"
          /\ UNCHANGED <<covered, carry, pass, segment>>
    \* topBulkSimResults drops a finalist that has failed
    /\ left' = Kept(left, {c \in Candidates : results[c] # Nil /\ ~Errored(results[c])})
    /\ UNCHANGED <<stage, baseline, base, outcome, pool, abort, wanted, failed>>

\* bulkSimStageMetrics reads the baseline's metrics, which an errored one has not.
Metrics ==
    /\ pc = "metrics"
    /\ pc' = IF Errored(baseline) THEN "crashed" ELSE "shown"
    /\ UNCHANGED <<stage, left, carry, baseline, covered, base, pass, segment, outcome, pool,
                   abort, wanted, failed>>

\* Mutant: the abort is not looked at again.
MutShow ==
    /\ pc = "shown" /\ Finish("ok")
    /\ UNCHANGED <<stage, left, carry, baseline, covered, base, pass, segment, pool, abort, wanted, failed>>

Show ==
    /\ pc = "shown" /\ Finish(IF abort THEN "aborted" ELSE "ok")
    /\ UNCHANGED <<stage, left, carry, baseline, covered, base, pass, segment, pool, abort, wanted, failed>>

-----------------------------------------------------------------------------
(* runBulkSimCandidateBatch: the feeder and the workers *)

flow == <<pc, stage, left, carry, baseline, covered, base, pass, segment, outcome, wanted>>

FeedNext ==
    /\ ~jobs.closed /\ ~abort /\ fed < Len(left)
    /\ jobs' = [jobs EXCEPT !.queue = Append(@, left[fed + 1])]
    /\ fed' = fed + 1
    /\ UNCHANGED <<flow, results, worker, abort, failed>>

\* Mutant: an aborted feeder leaves the channel open.
MutFeedStops ==
    /\ ~jobs.closed /\ ~abort /\ fed = Len(left)
    /\ jobs' = [jobs EXCEPT !.closed = TRUE]
    /\ UNCHANGED <<flow, results, fed, worker, abort, failed>>

FeedStops ==
    /\ ~jobs.closed /\ (abort \/ fed = Len(left))
    /\ jobs' = [jobs EXCEPT !.closed = TRUE]
    /\ UNCHANGED <<flow, results, fed, worker, abort, failed>>

\* After an abort the task taken is dropped and its candidate never starts.
Take(w) ==
    /\ worker[w].at = "take" /\ jobs.queue # <<>>
    /\ jobs' = [jobs EXCEPT !.queue = Tail(@)]
    /\ worker' = [worker EXCEPT ![w] = IF abort THEN [at |-> "off", task |-> Nil]
                                       ELSE [at |-> "sim", task |-> Head(jobs.queue)]]
    /\ UNCHANGED <<flow, results, fed, abort, failed>>

Leave(w) ==
    /\ worker[w].at = "take" /\ jobs.queue = <<>> /\ jobs.closed
    /\ worker' = [worker EXCEPT ![w].at = "off"]
    /\ UNCHANGED <<flow, results, jobs, fed, abort, failed>>

\* The sim returns and its result is written at the candidate's position.
SimEnds(w) ==
    /\ worker[w].at = "sim"
    /\ \E v \in Verdicts :
          LET c == worker[w].task
              r == Merge(IF carry = Nil THEN Nil ELSE carry.by[c], Result(v))
          IN  /\ results' = [results EXCEPT ![c] = r]
              /\ worker' = [worker EXCEPT ![w] = [at |-> IF Errored(r) THEN "trigger" ELSE "take",
                                                 task |-> Nil]]
              /\ failed' = (failed \/ v = "failed")
              /\ abort' = (abort \/ (v = "failed" /\ Config.concurrent))
    /\ UNCHANGED <<flow, jobs, fed>>

\* "if candidateResult.Error != nil { signals.Abort.Trigger() }"
Trigger(w) ==
    /\ worker[w].at = "trigger"
    /\ abort' = TRUE
    /\ worker' = [worker EXCEPT ![w].at = "take"]
    /\ UNCHANGED <<flow, results, jobs, fed, failed>>

\* AbortById.
Cancel ==
    /\ pc \notin {"finished", "crashed"} /\ ~wanted
    /\ abort' = TRUE /\ wanted' = TRUE
    /\ UNCHANGED <<pc, stage, left, carry, baseline, covered, base, pass, segment, outcome, pool, failed>>

Main ==
    \/ NextStage \/ SetTarget \/ BaselineRefused \/ BaselineStarts \/ BaselineEnds
    \/ StartBatch \/ BatchEnds \/ Adapt \/ StageEnds
    \/ Ranked \/ Finalists \/ Round \/ Metrics \/ Show
Feed == FeedNext \/ FeedStops
Work(w) == Take(w) \/ Leave(w) \/ SimEnds(w) \/ Trigger(w)

Next == Main \/ Feed \/ (\E w \in Workers : Work(w)) \/ Cancel

\* A goroutine that can run does, and every sim returns.
Spec == Init /\ [][Next]_vars /\ WF_vars(Main) /\ WF_vars(Feed) /\ \A w \in Workers : WF_vars(Work(w))
-----------------------------------------------------------------------------
(* Properties *)

\* Every variable has its type; an errored result carries no metrics.
TypeOK ==
    /\ stage \in 1..Final /\ Range(left) \subseteq Candidates
    /\ Cardinality(Range(left)) = Len(left)
    /\ baseline \in ResultType /\ results \in [Candidates -> ResultType]
    /\ Errored(baseline) => baseline.runs = <<>>
    /\ \A c \in Candidates : Errored(results[c]) => results[c].runs = <<>>
    /\ outcome \in {Nil, "ok", "failed", "aborted"} /\ (outcome # Nil <=> pc = "finished")

\* "Exactly equivalent to running the full count from scratch, because iteration
\* N always uses seed RandomSeed+N": whatever stages, passes and rounds a result
\* went through, its segments follow each other without a gap or an overlap.
Follow(runs) == \A i \in 1..Len(runs) : runs[i].from = Total(runs)[i - 1]
SegmentsFollow ==
    /\ baseline # Nil => Follow(baseline.runs)
    /\ \A c \in Candidates : results[c] # Nil => Follow(results[c].runs)

\* Every variable has its type, and what is shown is whole: the baseline and every
\* result shown cover the same iterations ("lockstep"), and as many are shown as were
\* asked for.  "A cancel that lands after the last stage's workers returned" is never
\* shown as a completed run, and neither is a run in which a sim failed, wherever the
\* failure was dropped on the way. While runBulkSim goes on after a batch none of the
\* batch's workers runs, so the results it reads are written.
OkIsComplete ==
    /\ TypeOK
    /\ pc # "waiting" => \A w \in Workers : worker[w].at = "off"
    /\ outcome = "ok" =>
          /\ ~failed
          /\ Len(left) = Least(TopResults, Cardinality(Candidates))
          /\ ~Errored(baseline) /\ Simmed(baseline) = covered
          /\ \A i \in 1..Len(left) :
                /\ results[left[i]] # Nil /\ ~Errored(results[left[i]])
                /\ Simmed(results[left[i]]) = covered

\* However it goes, the request ends.
RunEnds == <>(pc \in {"finished", "crashed"})

\* "An errored segment is returned as-is for the caller to check": no caller
\* reads the metrics of a baseline that has none.
ErroredBaselineIsChecked == pc # "crashed"
=============================================================================
