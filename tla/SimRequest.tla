------------------------------ MODULE SimRequest -------------------------------
(***************************************************************************)
(* What the reader of a request's channel is promised, whatever goroutines *)
(* run behind it (the contract isFinalProgress, handleAsyncAPI and         *)
(* runSimConcurrent's own loop rely on): counts that only grow, then one   *)
(* outcome, then the channel closes.  A success reports every iteration;   *)
(* the outcome of a run that failed or was aborted reports none.           *)
(***************************************************************************)
EXTENDS Integers

CONSTANT Iterations

VARIABLES told, outcome, over

vars == <<told, outcome, over>>

Init == told = 0 /\ outcome = "none" /\ over = FALSE

Tell ==
    /\ outcome = "none"
    /\ told' \in told..Iterations
    /\ UNCHANGED <<outcome, over>>

Finish ==
    /\ outcome = "none"
    /\ \/ outcome' = "ok" /\ told' = Iterations
       \/ outcome' \in {"aborted", "error"} /\ told' = 0
    /\ UNCHANGED over

Close ==
    /\ outcome # "none" /\ ~over
    /\ over' = TRUE
    /\ UNCHANGED <<told, outcome>>

Next == Tell \/ Finish \/ Close

\* What it is never told, and that it is told in the end.
Safety == Init /\ [][Next]_vars
Spec == Safety /\ <>over

=============================================================================
