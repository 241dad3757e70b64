------------------------------- MODULE MCBulkSim -------------------------------
(* Small instances of BulkSim for TLC: a culling stage of two workers and a     *)
(* stage that sims one candidate at a time, as the high stage does.             *)
EXTENDS BulkSim

Low == [min |-> 1, keep |-> 1, workers |-> 2, concurrent |-> FALSE]
High == [min |-> 2, keep |-> 0, workers |-> 1, concurrent |-> TRUE]
LowMany == [Low EXCEPT !.keep = 2]

Culling == <<LowMany, High>>
HighAlone == <<High>>
=============================================================================
