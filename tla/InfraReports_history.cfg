SPECIFICATION Spec
CONSTANTS
    Requests = {q1, q2}
    Scans = {"s1", "s2", "s3"}
    Content <- Checks
    Severity <- Severities
    ForeignKeys = TRUE
    MaxFaults = 0
INVARIANT EveryChangeIsHistory
CHECK_DEADLOCK FALSE
