------------------------------ MODULE MCSimQueue ------------------------------
(* A small instance of SimQueue for TLC: three workers, a sim that is split    *)
(* among them all and one too short to split.                                  *)
EXTENDS SimQueue

MCSplitsOf(s) == IF s = 1 THEN 3 ELSE 1
===============================================================================
