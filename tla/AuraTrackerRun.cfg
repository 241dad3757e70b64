SPECIFICATION Spec
CONSTANTS
    hero = hero
    pet = pet
    boss = boss
    buff = buff
    proc = proc
    growl = growl
    curse = curse
    Nil = Nil
    Units = {hero, pet, boss}
    Pets = {pet}
    Targets = {boss}
    ResetOrder <- BossHeroPet
    FinishOrder <- PetHeroBoss
    Auras = {growl, buff, proc, curse}
    Permanent = {curse}
    Events = {"onCast"}
    HomeOf <- MCHomeOf
    HearersOf <- MCHearersOf
    Durations = {1, 2}
    Horizon = 2
    Never = 9
    Capacity = 3
    MaxOps = 5
    MaxDepth = 3
    MaxIterations = 2
    Resummon = FALSE
CHECK_DEADLOCK FALSE
INVARIANTS IndexesAgree DispatchIntact ResetFindsNoneActive CacheNeverLate
PROPERTIES AdvanceLeavesNoneOverdue LoopsEnd
