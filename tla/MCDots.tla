-------------------------------- MODULE MCDots --------------------------------
(* A small instance of Dots for TLC: two ranks of a bleed on one target, two  *)
(* channels of one caster, on the target and on the ground around the caster, *)
(* a bleed that is extended and a poison that is refreshed.                   *)
EXTENDS Dots

CONSTANTS low, high, beam, rain, wound, poison, mage, boss, Bleed

MCCasterOf(d) == mage
MCUnitOf(d) == IF d = rain THEN mage ELSE boss
MCLengthOf(d) == IF d \in {beam, wound} THEN 3 ELSE 2
MCCountOf(d) == 2
MCGroupOf(d) == IF d \in {low, high} THEN Bleed ELSE Nil
MCRankOf(d) == CASE d = low -> 1 [] d = high -> 2 [] OTHER -> 0
===============================================================================
