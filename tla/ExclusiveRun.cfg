SPECIFICATION Spec
CONSTANTS
    devotion = devotion
    fire = fire
    fireExt = fireExt
    sunder = sunder
    expose = expose
    clap = clap
    inspire = inspire
    partyInspire = partyInspire
    Devotion = Devotion
    FireAura = FireAura
    Resistance = Resistance
    Shared = Shared
    Armor = Armor
    Speed = Speed
    Spirit = Spirit
    Nil = Nil
    Auras = {devotion, fire, fireExt, sunder, expose, clap, inspire, partyInspire}
    Categories = {Devotion, FireAura, Resistance, Shared, Armor, Speed, Spirit}
    BidsOf <- MCBidsOf
    OrderIn <- MCOrderIn
    Single = {Devotion, FireAura, Shared}
    YieldsTies = {inspire}
    Stacking = {sunder}
    Repriced = {clap}
    SpellOf <- MCSpellOf
    LengthOf <- MCLengthOf
    FirstBid <- MCFirstBid
    Bids = {0, 1, 2}
    Horizon = 1
    Never = 9
INVARIANTS HighestApplies AppliedIsBid
PROPERTIES BlockedLeavesNoTrace
