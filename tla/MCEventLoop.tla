------------------------------ MODULE MCEventLoop ------------------------------
(* Small instances of EventLoop for TLC. *)
EXTENDS EventLoop

CONSTANTS rot, pooled, pre, pull, mh, pet, energy

OnePrepull == <<[action |-> pre, at |-> -1]>>
=============================================================================
