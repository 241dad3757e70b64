SPECIFICATION Spec
CONSTANTS
    Candidates = {a, b, c}
    Workers = {w1, w2}
    Stages <- Culling
    TopResults = 2
    Extra = {1, 2}
    Passes = 2
    FinalFactor = 3
    Nil = Nil
INVARIANTS SegmentsFollow OkIsComplete
CHECK_DEADLOCK FALSE
PROPERTIES RunEnds
