----------------------------- MODULE ConcurrentSim -----------------------------
(***************************************************************************)
(* One simulation request run on several goroutines                        *)
(* (runSimConcurrent, sim/core/sim_concurrent.go; runSim and               *)
(* Simulation.run, sim/core/sim.go; triggerSignal, sim/core/simsignals).   *)
(*                                                                         *)
(* Every thread runs its share of the iterations and reports on a bounded  *)
(* channel of its own.  The parent receives from whichever channel is      *)
(* ready, adds the reports up, forwards a fraction of them on the          *)
(* request's channel, and combines the final results.  A thread that fails *)
(* makes the parent trigger the abort signal the threads poll; a client    *)
(* may trigger it too.  Trigger looks whether the signal's channel is      *)
(* closed and then closes it, which are two steps.                         *)
(***************************************************************************)
EXTENDS Integers, Sequences, SequencesExt, FiniteSets, FiniteSetsExt

CONSTANTS
    SplitCount,    \* the number of CPUs
    Iterations,    \* SimOptions.Iterations
    Cap,           \* capacity of a thread's channel (20)
    OutCap,        \* capacity of the request's channel (100)
    Fallible,      \* threads that may fail
    ClientAborts,  \* whether a client triggers the signal
    Nil            \* no result, no message

ASSUME ConcurrencyAssumption ==
    /\ SplitCount \in Nat \ {0} /\ Iterations \in Nat \ {0}
    /\ Cap \in Nat \ {0} /\ OutCap \in Nat \ {0}
    /\ ClientAborts \in BOOLEAN
    /\ Nil \notin {"ok", "aborted", "error"}

-----------------------------------------------------------------------------
(* SplitSimRequestForConcurrency *)

Splits == IF SplitCount < Iterations THEN SplitCount ELSE Iterations
Threads == 1..Splits

\* The first thread runs the iterations the division leaves over.
Share(t) == (Iterations \div Splits) + IF t = 1 THEN Iterations % Splits ELSE 0

\* What the loops over the threads add up: the totals of f before and after each.
Totals(f) ==
    LET upTo[n \in 0..Splits] == IF n = 0 THEN 0 ELSE upTo[n - 1] + f[n]
    IN  upTo

\* Mutant: every split starts where the division would have it.
MutFirstSeed(t) == (t - 1) * (Iterations \div Splits)

\* nextStartSeed: the seed of a thread's first iteration, relative to the request's.
FirstSeed(t) == Totals([u \in Threads |-> Share(u)])[t - 1]

VARIABLES
    tpc,        \* where a thread stands
    ran,        \* iterations it has completed
    chan,       \* its channel (substituteChannels)
    closed,     \* whether the channel is closed
    ppc,        \* where the parent stands
    open,       \* threads whose select case is not nil; running is their number
    doneBy,     \* concurrentSimData.IterationsDone
    final,      \* concurrentSimData.FinalResults
    reports,    \* progressCounter, modulo the number of threads
    held,       \* the message the parent is sending
    out,        \* the request's channel
    outClosed,  \* whether it is closed
    consumed,   \* messages the reader of the request's channel has taken
    abort,      \* the signal: its channel is closed
    closing     \* "client", "parent": found the channel open and are about to close it

threadVars == <<tpc, ran, chan, closed>>
parentVars == <<ppc, open, doneBy, final, reports, held>>
outVars == <<out, outClosed, consumed>>
vars == <<threadVars, parentVars, outVars, abort, closing>>

Progress(n) == [kind |-> "progress", done |-> n, result |-> "none"]
Final(n, r) == [kind |-> "final", done |-> n, result |-> r]

Init ==
    /\ tpc = [t \in Threads |-> "start"]
    /\ ran = [t \in Threads |-> 0]
    /\ chan = [t \in Threads |-> <<>>]
    /\ closed = [t \in Threads |-> FALSE]
    /\ ppc = "select" /\ open = Threads
    /\ doneBy = [t \in Threads |-> 0]
    /\ final = [t \in Threads |-> Nil]
    /\ reports = 0 /\ held = Nil
    /\ out = <<>> /\ outClosed = FALSE /\ consumed = <<>>
    /\ abort = FALSE /\ closing = {}

-----------------------------------------------------------------------------
(* A thread: RunSim on its share, with a channel to report on *)

Goes(t, from, to) == tpc[t] = from /\ tpc' = [tpc EXCEPT ![t] = to]

Sends(t, msg) ==
    /\ Len(chan[t]) < Cap
    /\ chan' = [chan EXCEPT ![t] = Append(@, msg)]
    /\ UNCHANGED <<ran, closed, parentVars, outVars, abort, closing>>

StaysSilent == UNCHANGED <<chan, closed, parentVars, outVars, abort, closing>>

AnnouncePresim(t) == Goes(t, "start", "presim") /\ Sends(t, Progress(0))

\* The presims look at the signal too.
AbandonPresim(t) == abort /\ Goes(t, "presim", "quit") /\ UNCHANGED ran /\ StaysSilent

AnnounceRun(t) == Goes(t, "presim", "iterate") /\ Sends(t, Progress(0))

\* runOnce, the first time without a look at the signal.
Iterate(t) ==
    /\ Goes(t, "iterate", IF ran[t] + 1 = Share(t) THEN "succeed" ELSE "poll")
    /\ ran' = [ran EXCEPT ![t] = @ + 1]
    /\ StaysSilent

Poll(t) ==
    /\ Goes(t, "poll", IF abort THEN "quit" ELSE "report")
    /\ UNCHANGED ran /\ StaysSilent

\* A report is sent when 100 ms have passed since the last one: always the first time.
Report(t) == Goes(t, "report", "iterate") /\ Sends(t, Progress(ran[t]))
SkipReport(t) == ran[t] > 1 /\ Goes(t, "report", "iterate") /\ UNCHANGED ran /\ StaysSilent

\* A panic in NewSim, a presim that fails, a panic in an iteration: all end in a
\* final message with an error.
Fail(t) ==
    /\ t \in Fallible /\ tpc[t] \in {"start", "presim", "iterate"}
    /\ tpc' = [tpc EXCEPT ![t] = "fail"]
    /\ UNCHANGED ran /\ StaysSilent

Succeed(t) == Goes(t, "succeed", "close") /\ Sends(t, Final(Share(t), "ok"))
Quit(t) == Goes(t, "quit", "close") /\ Sends(t, Final(0, "aborted"))
FailFinally(t) == Goes(t, "fail", "close") /\ Sends(t, Final(0, "error"))

CloseChannel(t) ==
    /\ Goes(t, "close", "done")
    /\ closed' = [closed EXCEPT ![t] = TRUE]
    /\ UNCHANGED <<ran, chan, parentVars, outVars, abort, closing>>

ThreadStep(t) ==
    \/ AnnouncePresim(t) \/ AbandonPresim(t) \/ AnnounceRun(t) \/ Iterate(t) \/ Poll(t)
    \/ Report(t) \/ SkipReport(t) \/ Fail(t)
    \/ Succeed(t) \/ Quit(t) \/ FailFinally(t) \/ CloseChannel(t)

-----------------------------------------------------------------------------
(* The parent *)

TotalOf(f) == Totals(f)[Splits]

\* reflect.Select over the cases that are left: a message, or a closed channel.
Ready(t) == t \in open /\ (chan[t] # <<>> \/ closed[t])
Takes(t) == chan' = [chan EXCEPT ![t] = IF @ = <<>> THEN @ ELSE Tail(@)]

\* Mutant: the parent leaves without a word.
MutReceiveAborted(t) ==
    /\ ppc = "select" /\ Ready(t) /\ abort
    /\ Takes(t)
    /\ ppc' = "closeOut"
    /\ UNCHANGED <<tpc, ran, closed, open, doneBy, final, reports, held, outVars, abort, closing>>

\* The signal is looked at after every select, before what was received.
ReceiveAborted(t) ==
    /\ ppc = "select" /\ Ready(t) /\ abort
    /\ Takes(t)
    /\ held' = Final(0, "aborted")
    /\ ppc' = "sendLast"
    /\ UNCHANGED <<tpc, ran, closed, open, doneBy, final, reports, outVars, abort, closing>>

\* UpdateProgress with a report; one in as many as there are threads is forwarded.
ReceiveProgress(t) ==
    /\ ppc = "select" /\ Ready(t) /\ ~abort /\ chan[t] # <<>> /\ chan[t][1].kind = "progress"
    /\ Takes(t)
    /\ doneBy' = [doneBy EXCEPT ![t] = chan[t][1].done]
    /\ reports' = (reports + 1) % Cardinality(Threads)
    /\ IF reports' = 0 THEN held' = Progress(TotalOf(doneBy')) /\ ppc' = "send"
                       ELSE UNCHANGED <<held, ppc>>
    /\ UNCHANGED <<tpc, ran, closed, open, final, outVars, abort, closing>>

\* A closed channel closes the case.  UpdateProgress with a final result: an
\* error ends the run, a result closes the case.
ReceiveEnd(t) ==
    /\ ppc = "select" /\ Ready(t) /\ ~abort
    /\ Takes(t)
    /\ IF chan[t] = <<>>
         THEN open' = open \ {t} /\ UNCHANGED <<doneBy, final, held, ppc>>
         ELSE /\ chan[t][1].kind = "final"
              /\ doneBy' = [doneBy EXCEPT ![t] = chan[t][1].done]
              /\ final' = [final EXCEPT ![t] = chan[t][1].result]
              /\ IF chan[t][1].result = "ok"
                   THEN open' = open \ {t} /\ UNCHANGED <<held, ppc>>
                   ELSE held' = chan[t][1] /\ ppc' = "sendError" /\ UNCHANGED open
    /\ UNCHANGED <<tpc, ran, closed, reports, outVars, abort, closing>>

\* No case is left: the results are combined; one that is missing is a panic.
Combine ==
    /\ ppc = "select" /\ open = {}
    /\ IF \E t \in Threads : final[t] = Nil
         THEN held' = Final(0, "error") /\ ppc' = "sendPanic"
         ELSE held' = Final(TotalOf(doneBy), "ok") /\ ppc' = "sendLast"
    /\ UNCHANGED <<threadVars, open, doneBy, final, reports, outVars, abort, closing>>

\* Mutant: the outcome is sent, and the loop goes on.
MutAfterSend == IF ppc \in {"send", "sendLast"} THEN "select" ELSE "trigger"

\* What follows a send on the request's channel.
AfterSend == CASE ppc = "send" -> "select"
               [] ppc = "sendLast" -> "closeOut"
               [] ppc \in {"sendError", "sendPanic"} -> "trigger"

SendOut ==
    /\ ppc \in {"send", "sendLast", "sendError", "sendPanic"}
    /\ Len(out) < OutCap
    /\ out' = Append(out, held)
    /\ ppc' = AfterSend
    /\ held' = Nil
    /\ UNCHANGED <<threadVars, open, doneBy, final, reports, outClosed, consumed, abort, closing>>

\* Trigger, called by the parent: the look, then the close, which panics if
\* somebody closed the channel in between (and the recover sends that error).
ParentLooks ==
    /\ ppc = "trigger"
    /\ IF abort THEN ppc' = "closeOut" /\ UNCHANGED closing
                ELSE ppc' = "closeSignal" /\ closing' = closing \cup {"parent"}
    /\ UNCHANGED <<threadVars, open, doneBy, final, reports, held, outVars, abort>>

ParentTriggers ==
    /\ ppc = "closeSignal"
    /\ closing' = closing \ {"parent"}
    /\ IF abort THEN held' = Final(0, "error") /\ ppc' = "sendPanic"
                ELSE ppc' = "closeOut" /\ UNCHANGED held
    /\ abort' = TRUE
    /\ UNCHANGED <<threadVars, open, doneBy, final, reports, outVars>>

CloseOut ==
    /\ ppc = "closeOut"
    /\ outClosed' = TRUE /\ ppc' = "done"
    /\ UNCHANGED <<threadVars, open, doneBy, final, reports, held, out, consumed, abort, closing>>

ParentStep ==
    \/ \E t \in Threads : ReceiveAborted(t) \/ ReceiveProgress(t) \/ ReceiveEnd(t)
    \/ Combine \/ SendOut \/ ParentLooks \/ ParentTriggers \/ CloseOut

-----------------------------------------------------------------------------
(* The client, and the reader of the request's channel *)

\* AbortById, at any time; the request stays registered until the run returns.
ClientLooks ==
    /\ ClientAborts /\ ppc # "done" /\ ~abort /\ "client" \notin closing
    /\ closing' = closing \cup {"client"}
    /\ UNCHANGED <<threadVars, parentVars, outVars, abort>>

\* (A close that finds the channel closed panics in the client's own goroutine.)
ClientTriggers ==
    /\ "client" \in closing
    /\ closing' = closing \ {"client"}
    /\ abort' = TRUE
    /\ UNCHANGED <<threadVars, parentVars, outVars>>

\* The reader stops at the first final message.
Read ==
    /\ out # <<>>
    /\ consumed # <<>> => Last(consumed).kind # "final"
    /\ consumed' = <<out[1]>>
    /\ out' = Tail(out)
    /\ UNCHANGED <<threadVars, parentVars, outClosed, abort, closing>>

Next ==
    \/ \E t \in Threads : ThreadStep(t)
    \/ ParentStep \/ ClientLooks \/ ClientTriggers \/ Read

\* Goroutines that can run do; nothing forces a failure or an abort.
Fairness ==
    /\ \A t \in Threads : WF_vars(ThreadStep(t))
    /\ WF_vars(ParentStep) /\ WF_vars(ClientTriggers) /\ WF_vars(Read)

Spec == Init /\ [][Next]_vars /\ Fairness

-----------------------------------------------------------------------------
(* Correctness *)

Messages == {Progress(n) : n \in 0..Iterations}
                \cup {Final(n, r) : n \in 0..Iterations, r \in {"ok", "aborted", "error"}}

TypeOK ==
    /\ tpc \in [Threads -> {"start", "presim", "iterate", "poll", "report", "succeed",
                             "quit", "fail", "close", "done"}]
    /\ \A t \in Threads : ran[t] \in 0..Share(t)
    /\ \A t \in Threads : chan[t] \in Seq(Messages) /\ Len(chan[t]) <= Cap
    /\ closed \in [Threads -> BOOLEAN]
    /\ ppc \in {"select", "send", "sendLast", "sendError", "sendPanic", "trigger",
                "closeSignal", "closeOut", "done"}
    /\ open \subseteq Threads
    /\ doneBy \in [Threads -> 0..Iterations]
    /\ final \in [Threads -> {Nil, "ok", "aborted", "error"}]
    /\ reports \in 0..(Splits - 1)
    /\ held \in Messages \cup {Nil}
    /\ out \in Seq(Messages) /\ Len(out) <= OutCap
    /\ outClosed \in BOOLEAN /\ abort \in BOOLEAN
    /\ consumed \in Seq(Messages) /\ Len(consumed) <= 1
    /\ closing \subseteq {"client", "parent"}

\* What the reader has last taken and what is still in the channel.
Said == consumed \o out

(* Every variable has its type, and a result that reports success stands for *)
(* every iteration asked for, each on a seed of its own: whatever the split, no *)
(* thread was still running, stopped early or counted twice. *)
SeedsOf(t) == {FirstSeed(t) + i : i \in 0..(ran[t] - 1)}
SuccessIsComplete ==
    /\ TypeOK
    /\ \A i \in 1..Len(Said) :
          Said[i].result = "ok" =>
              /\ Said[i].done = Iterations
              /\ UNION {SeedsOf(t) : t \in Threads} = 0..(Iterations - 1)
              /\ \A t, u \in Threads : t # u => SeedsOf(t) \cap SeedsOf(u) = {}

(* Behind its channel the run is what SimRequest promises its reader: counts *)
(* that grow, one outcome, the end; and the end comes, whatever fails or aborts *)
(* (runSimConcurrent as handleAsyncAPI and its other readers see it: they stop *)
(* at the first final message). Two triggers that meet close the signal twice: *)
(* the parent's panic makes it send a second final message, behind the first. *)
Heard ==
    LET finals == {i \in DOMAIN Said : Said[i].kind = "final"}
    IN  IF finals = {} THEN Said ELSE SubSeq(Said, 1, Min(finals))
LastHeard == IF Heard = <<>> THEN Progress(0) ELSE Last(Heard)
Promise == INSTANCE SimRequest WITH
    told <- LastHeard.done,
    outcome <- LastHeard.result,
    over <- outClosed
KeepsPromise == Promise!Spec

(* A thread is only ever left behind on a full channel, after the parent has *)
(* stopped receiving: otherwise all of them end. *)
Stranded(t) == ppc = "done" /\ Len(chan[t]) = Cap
ThreadsEnd == <>[](\A t \in Threads : tpc[t] = "done" \/ Stranded(t))

=============================================================================
