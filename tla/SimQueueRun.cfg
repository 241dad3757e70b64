SPECIFICATION Spec
CONSTANTS
    Workers = 3
    Sims = 2
    SplitsOf <- MCSplitsOf
    MaxResizes = 1
    MaxFailures = 1
    Nil = Nil
INVARIANTS OutcomeIsTrue OneSplitEach
PROPERTIES AbortEnds
