SPECIFICATION Spec
CONSTANTS
    Candidates = {a, b}
    Workers = {w1, w2}
    Stages <- HighAlone
    TopResults = 2
    Extra = {1, 2}
    Passes = 2
    FinalFactor = 3
    Nil = Nil
INVARIANTS ErroredBaselineIsChecked
CHECK_DEADLOCK FALSE
