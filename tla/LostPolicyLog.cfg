CONSTANTS
    NoLog = NoLog
    Faults = {"log"}
    CaseExpectations = {"PASS", "FAIL", "UNKNOWN", "N/A", "ERROR_CONTAINS", "VALIDATION_ERROR"}
    StageOutcomes = {"absent", "idle", "pass", "unknown", "errored", "fail"}
SPECIFICATION Spec
CHECK_DEADLOCK FALSE
INVARIANT PassMeansPolicyPassed
