------------------------------ MODULE MCWebAsync -------------------------------
(* Instances of WebAsync for TLC. *)
EXTENDS WebAsync

CONSTANTS raid, bulk, x

RaidAndBulk == {raid, bulk}
OneBulk == {bulk}
NoBulk == {}
OneRaid == {raid}
Nobody == {}
SameId(r) == x
OneId == {x}

=============================================================================
