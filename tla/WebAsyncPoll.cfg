SPECIFICATION WebSpec

CONSTANTS
    raid = raid
    bulk = bulk
    x = x
    Requests <- OneRaid
    Ids <- OneId
    IdOf <- SameId
    Bulk <- NoBulk
    Cap = 3
    Polling <- OneRaid
    Timeouts = TRUE
    None = None

INVARIANTS FinalNotLost
PROPERTIES AbortEnds OutcomeHeard

\* Clients stop polling, runs end.
CHECK_DEADLOCK FALSE
