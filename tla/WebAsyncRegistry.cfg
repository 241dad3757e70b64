SPECIFICATION WebSpec

CONSTANTS
    raid = raid
    bulk = bulk
    x = x
    Requests <- RaidAndBulk
    Ids <- OneId
    IdOf <- SameId
    Bulk <- OneBulk
    Cap = 1
    Polling <- Nobody
    Timeouts = TRUE
    None = None

INVARIANTS RegistryIsExact


\* Clients stop polling, runs end.
CHECK_DEADLOCK FALSE
