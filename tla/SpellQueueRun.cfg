SPECIFICATION RotationSpec
CONSTANTS
    bolt = bolt
    quick = quick
    nuke = nuke
    trinket = trinket
    recklessness = recklessness
    Spells = {bolt, quick, nuke, trinket, recklessness}
    GcdOf <- MCGcd
    CastTimeOf <- MCCastTime
    CooldownOf <- MCCooldown
    Major = {recklessness}
    Window = 9
    Reaction = 5
    Pushback = 10
    Waits = {10}
    Beat = 20
    Horizon = 55
    MaxOps = 2
    Parked = Parked
    None = None
PROPERTIES NeverAsleep CastsLand PickGoesFirst
\* The iteration ends.
CHECK_DEADLOCK FALSE
