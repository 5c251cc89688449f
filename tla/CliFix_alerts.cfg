SPECIFICATION Spec
CONSTANTS
    Runs = {f1, f2}
    Requests <- Asked
    Configs <- BothFiles
    Edits <- Saved
    KeyPairs <- Pair
    Containers = {"postfix"}
    MaxFaults = 1
INVARIANT VerifiedMeansAlerted
CHECK_DEADLOCK FALSE
