SPECIFICATION Spec
CONSTANTS
    low = low
    high = high
    beam = beam
    rain = rain
    wound = wound
    poison = poison
    mage = mage
    boss = boss
    Bleed = Bleed
    Nil = Nil
    Casters = {mage}
    Units = {mage, boss}
    Dots = {low, high, beam, rain, wound, poison}
    CasterOf <- MCCasterOf
    UnitOf <- MCUnitOf
    LengthOf <- MCLengthOf
    CountOf <- MCCountOf
    Hasted = {beam, wound}
    Shortened = {beam}
    Channels = {beam, rain}
    GroupOf <- MCGroupOf
    RankOf <- MCRankOf
    Extended = {wound}
    Refreshed = {poison}
    Speeds = {1, 2}
    Horizon = 8
    MaxOps = 4
    Never = 99
INVARIANTS OneTickQueued RemainingIsTrue TicksKeepTime OnePerCaster
PROPERTIES CutWithoutTick
