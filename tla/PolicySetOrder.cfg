\* One invocation without cleanup, and nothing goes wrong.
CONSTANTS
    e1 = e1
    e2 = e2
    e3 = e3
    c1 = c1
    c2 = c2
    NoId = NoId
    Execs <- Successive
    Cases = {c1, c2}
    CaseOf <- SuccessiveCaseOf
    ApplyCases = {c1}
    Cleanup = FALSE
    Faults = {}
SPECIFICATION Spec
CHECK_DEADLOCK FALSE
INVARIANT PolicySetKeptUntilDestroyed
