SPECIFICATION Spec

CONSTANTS
    SplitCount = 2
    Iterations = 5
    Cap = 1
    OutCap = 1
    Fallible <- AllThreads
    ClientAborts = TRUE
    Nil = Nil

INVARIANTS SuccessIsComplete
PROPERTIES KeepsPromise ThreadsEnd

\* The request ends, and its goroutines with it.
CHECK_DEADLOCK FALSE
