SPECIFICATION Spec
CONSTANTS
    Requests = {q1, q2, q3}
    Scans = {"s1", "s2", "s3"}
    Content <- Checks
    Severity <- Severities
    ForeignKeys = TRUE
    MaxFaults = 1
SYMMETRY AnyRequest
INVARIANT TypeOK
INVARIANT DriftsStored
INVARIANT RegressionFiled
INVARIANT NoFalseAlarm
CHECK_DEADLOCK FALSE
