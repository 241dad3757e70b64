----------------------------- MODULE MCSpellQueue ------------------------------
(* Instances of SpellQueue for TLC: a cast that holds the rotation, one the GCD *)
(* outlasts, an instant, a spell off the GCD and a major cooldown on the GCD. *)
EXTENDS SpellQueue

CONSTANTS bolt, quick, nuke, trinket, recklessness

MCGcd(s) == IF s = trinket THEN 0 ELSE 20
MCCastTime(s) == CASE s = bolt -> 25 [] s = quick -> 10 [] OTHER -> 0
\* The instant comes off cooldown within the window of a cast end.
MCCooldown(s) == CASE s = nuke -> 53 [] s \in {trinket, recklessness} -> 30 [] OTHER -> 0

=============================================================================
