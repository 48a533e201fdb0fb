CONSTANTS
    NoLog = NoLog
    Faults = {"read", "log", "confirm", "refused", "operator"}
    CaseExpectations = {"PASS", "FAIL", "UNKNOWN", "N/A"}
    StageOutcomes = {"absent", "pass", "unknown", "errored", "fail"}
SPECIFICATION Spec
CHECK_DEADLOCK FALSE
INVARIANTS
    TypeOK
    EarnedPassWithLogs
    SettledOnReturn
    PlanOutcomeKept
PROPERTIES
    ImplementsContract
