----------------------------- MODULE MCAuraTracker -----------------------------
(* A small instance of AuraTracker for TLC: a hero, its pet and the boss they   *)
(* fight.                                                                      *)
EXTENDS AuraTracker

CONSTANTS hero, pet, boss, buff, proc, growl, curse

MCHomeOf(a) == CASE a = growl -> pet [] a = curse -> boss [] OTHER -> hero
MCHearersOf(e) == {buff, proc}
BossHeroPet == <<boss, hero, pet>>
PetHeroBoss == <<pet, hero, boss>>
=============================================================================
