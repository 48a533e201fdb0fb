\* Two invocations of one case, another case beside them.  Without cleanup every
\* invocation leaves its objects to the next one, and the organisation may refuse a
\* policy set while it has one.
CONSTANTS
    e1 = e1
    e2 = e2
    e3 = e3
    c1 = c1
    c2 = c2
    NoId = NoId
    Execs <- Beside
    Cases = {c1, c2}
    CaseOf <- BesideCaseOf
    ApplyCases = {c1}
    Cleanup = FALSE
    Faults = {"crash", "http500", "limit"}
SPECIFICATION Spec
CHECK_DEADLOCK FALSE
INVARIANTS
    OwnWorkspaceLive
PROPERTIES
    LeftoversRecovered
