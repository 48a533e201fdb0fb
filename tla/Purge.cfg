\* Two executions, of one case or of two, one after the other with a purge at any time,
\* or of one case at the same time without one.
CONSTANTS
    e1 = e1
    e2 = e2
    e3 = e3
    c1 = c1
    c2 = c2
    NoId = NoId
    Execs <- Invocations
    Cases = {c1, c2}
    CaseOf <- InvocationsCaseOf
    ApplyCases = {c1}
    Cleanup = TRUE
    Faults = {"crash", "overlap"}
    PurgeFaults = {"crash", "fail", "lost", "slow", "destroy", "others"}
SPECIFICATION BoundedSpec
SYMMETRY Symmetry
VIEW View
CHECK_DEADLOCK FALSE
INVARIANTS
    PurgeTypeOK
    PurgeUnhindered
    PurgeComplete
    PurgeVisible
PROPERTIES
    PurgeOrphanExplained
    PurgeKeepsContract
