SPECIFICATION Spec
CONSTANTS
    Runs = {f1, f2}
    Requests <- Asked
    Configs <- BothFiles
    Edits <- Saved
    KeyPairs <- Pair
    Containers = {"postfix"}
    MaxFaults = 1
INVARIANT TypeOK
INVARIANT NoHalfFile
INVARIANT WrittenAsPlanned
INVARIANT VerdictFollowsAnswers
CHECK_DEADLOCK FALSE
