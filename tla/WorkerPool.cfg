\* Three cases on two tokens, each of which may panic: the channel fills, and
\* several goroutines want the mutex at once.  The process stops when it exits.
CONSTANTS
    NumCases = 3
    MaxParallel = 2
    MayPanic = TRUE
SPECIFICATION Spec
CHECK_DEADLOCK FALSE
INVARIANTS
    PoolInv
    ParallelBound
    ResultsComplete
    ExitCodeHonest
    NeverStuck
PROPERTIES
    ResultsStable
    Terminates
    EveryStepCounts
    ImplementsSchedule
