--------------------------- MODULE MCMajorCooldowns ---------------------------
(* A small instance of MajorCooldowns for TLC: a long cooldown, an explosive   *)
(* with a cast time, a potion with a timing, another potion that the rotation  *)
(* drinks itself, an effect whose cooldown starts at its end, and a            *)
(* Preparation: one left to autocast, and the other the rotation's own.        *)
EXTENDS MajorCooldowns

CONSTANTS flurry, bomb, potion, mind, prep, brew, ruse,
          tFlurry, tCategory, tPotion, tMind, tPrep, tRuse

MCListed == <<bomb, flurry, potion, mind, prep>>
MCCdOf(s) == CASE s = flurry -> tFlurry [] s = mind -> tMind [] s = prep -> tPrep
               [] s = ruse -> tRuse [] OTHER -> Nil
MCCdLength(s) == CASE s = flurry -> 4 [] s = mind -> 3 [] s = prep -> 5 [] s = ruse -> 5
                   [] OTHER -> 0
MCSharedOf(s) == CASE s = bomb -> tCategory [] s \in {potion, brew} -> tPotion
                   [] OTHER -> Nil
MCSharedLength(s) == IF s = bomb THEN 3 ELSE IF s \in {potion, brew} THEN 3 ELSE 0
MCCastTimeOf(s) == IF s = bomb THEN 1 ELSE 0
MCResets(s) == IF s \in {prep, ruse} THEN {flurry} ELSE {}
MCPriorityOf(s) == IF s = mind THEN 1 ELSE 0
MCPull == -1
MCTimingsOf(s) == IF s = potion THEN <<1>> ELSE <<>>
===============================================================================
