\* Three names, two of them in the index.  An invocation stops when it exits.
CONSTANTS
    a = a
    b = b
    c = c
    Ids = {a, b, c}
    Blank = Blank
    CommandLines <- SomeCommandLines
    Environments <- SomeEnvironments
    Indexes <- SomeIndexes
    TestDirs <- SomeTestDirs
SPECIFICATION Spec
CHECK_DEADLOCK FALSE
INVARIANTS
    TypeOK
    RunnerPreconditions
    ExecutionsDistinct
    ZeroIsEarned
