SPECIFICATION Spec
CONSTANTS
    rot = rot
    pooled = pooled
    pre = pre
    pull = pull
    mh = mh
    pet = pet
    energy = energy
    Sentinel = Sentinel
    None = None
    Owned = {rot}
    Pooled = {pooled}
    PullAction = pull
    Prepull <- OnePrepull
    Swings = {mh, pet}
    Tasks = {energy}
    Duration = 1
    Never = 9
    Delays = {0, 1}
    Periods = {1}
    Priorities = {0}
    Capacity = 3
    MaxOps = 4
    MaxIterations = 2
CHECK_DEADLOCK FALSE
INVARIANTS QueueOrdered PoolNeverAliases CacheNeverLate EndDropsNothing
PROPERTIES ActionsAfterSwings CancelledNeverRuns ClockPassesNoWork IterationsEnd
