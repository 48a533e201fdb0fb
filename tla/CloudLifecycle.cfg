\* Two invocations of one case, one after the other; calls fail, answers are
\* lost, the process dies anywhere, waits end at their deadline.
CONSTANTS
    e1 = e1
    e2 = e2
    e3 = e3
    c1 = c1
    c2 = c2
    NoId = NoId
    Execs <- Successive
    Cases = {c1, c2}
    CaseOf <- SuccessiveCaseOf
    ApplyCases = {c1}
    Cleanup = TRUE
    Faults = {"crash", "fail", "lost", "http500", "gateway", "slow", "destroy"}
SPECIFICATION Spec
CHECK_DEADLOCK FALSE
INVARIANTS
    PolicyInForce
    DestroyUnhindered
    LifecycleInv
PROPERTIES
    OrphanExplained
    ImplementsContract
    CleanupLeavesNothing
    ExecutionsEnd
