\* Two executions in one directory, one after the other or at the same time, dying
\* anywhere.
CONSTANTS
    Execs = {e1, e2}
    Policies = {p1}
    TestCases <- SomeTestCases
    Faults = {"crash", "io", "overlap"}
SPECIFICATION Spec
CHECK_DEADLOCK FALSE
INVARIANTS
    TypeOK
    BlindExplained
    StaleInitNoticed
    CreatedIsDestroyed
PROPERTIES
    LeakNoted
    LeavesDirectoryClean
    PoliciesReturn
