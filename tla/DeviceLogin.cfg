SPECIFICATION FairSpec
CONSTANTS
    Processes = {"p1", "p2"}
    Programs <- Host
    MaxCodes = 1
    MaxDevices = 2
    Approvers = {a1}
    Handlers = {h1, h2}
    MaxFaults = 1
INVARIANT TypeOK
INVARIANT GrantsWork
INVARIANT ReportsLast
PROPERTY RevokedHalts
CHECK_DEADLOCK FALSE
