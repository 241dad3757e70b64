--------------------------- MODULE MCExclusiveEffects ---------------------------
(* A small instance of ExclusiveEffects for TLC: a paladin's auras, which       *)
(* exclude each other and bid for the same resistance, armor reductions, one of *)
(* which stacks, Thunder Clap, and a priest's own Dark Inspiration, which       *)
(* yields ties, beside the party's.                                             *)
EXTENDS ExclusiveEffects

CONSTANTS devotion, fire, fireExt,
          sunder, expose, clap, inspire, partyInspire,
          Devotion, FireAura, Resistance, Shared, Armor, Speed, Spirit

\* joinSharedCategory: only the player's own copies join Shared, all with no bid.
MCBidsOf(a) ==
    CASE a = devotion -> <<Devotion, Shared>>
      [] a = fire -> <<Resistance, FireAura, Shared>>
      [] a = fireExt -> <<Resistance, FireAura>>
      [] a \in {sunder, expose} -> <<Armor>>
      [] a = clap -> <<Speed>>
      [] OTHER -> <<Spirit>>
MCOrderIn(c) ==
    CASE c = Devotion -> <<devotion>>
      [] c = FireAura -> <<fire, fireExt>>
      [] c = Resistance -> <<fire, fireExt>>
      [] c = Shared -> <<devotion, fire>>
      [] c = Armor -> <<sunder, expose>>
      [] c = Speed -> <<clap>>
      [] c = Spirit -> <<inspire, partyInspire>>
MCFirstBid(a, c) == IF c = Shared \/ a = sunder THEN 0 ELSE 1
MCLengthOf(a) ==
    IF a \in {devotion, fire} THEN Never
    ELSE IF a \in {fireExt, sunder, partyInspire} THEN 2 ELSE 1
MCSpellOf(a) ==
    CASE a = devotion -> 1 [] a \in {fire, fireExt} -> 2 [] a = sunder -> 3 [] a = expose -> 4
      [] a = clap -> 5 [] OTHER -> 6
=============================================================================
