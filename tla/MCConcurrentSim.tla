---------------------------- MODULE MCConcurrentSim ----------------------------
(* Instances of ConcurrentSim for TLC. *)
EXTENDS ConcurrentSim

AllThreads == Threads

=============================================================================
