\* One execution, no faults but those of the programs it runs.
CONSTANTS
    Execs = {e1}
    Policies = {p1}
    TestCases <- SomeTestCases
    Faults = {}
SPECIFICATION Spec
CHECK_DEADLOCK FALSE
INVARIANT DestroyFailurePrinted
