SPECIFICATION Spec
CONSTANTS
    flurry = flurry
    bomb = bomb
    potion = potion
    mind = mind
    prep = prep
    brew = brew
    ruse = ruse
    tFlurry = tFlurry
    tCategory = tCategory
    tPotion = tPotion
    tMind = tMind
    tPrep = tPrep
    tRuse = tRuse
    Nil = Nil
    Listed <- MCListed
    Own = {brew, ruse}
    Timers = {tFlurry, tCategory, tPotion, tMind, tPrep, tRuse}
    CdOf <- MCCdOf
    CdLength <- MCCdLength
    SharedOf <- MCSharedOf
    SharedLength <- MCSharedLength
    CastTimeOf <- MCCastTimeOf
    OnGcd = {flurry, ruse}
    Potions = {potion, brew}
    AtItsEnd = {mind}
    Resets <- MCResets
    PriorityOf <- MCPriorityOf
    TimingsOf <- MCTimingsOf
    DisableAutocast = {potion}
    Reactive = {mind}
    Explosive = {bomb}
    Conditional = {flurry}
    Gcd = 1
    GcdMin = 1
    Reaction = 1
    Pull <- MCPull
    Horizon = 5
    MaxOps = 2
    Never = 99
INVARIANTS NothingHeldBack PicksInTurn
