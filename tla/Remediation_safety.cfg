\* Two requests and their probes, two workers, two of which may die.
CONSTANTS
  Workers = {w1, w2}
  Requests = {r1, r2}
  Probes = {p1, p2}
  NoRequest = NoRequest
  NoProbe = NoProbe
  MaxRevision = 4
  MaxFaults = 2
  RecoveryRuns = TRUE
SPECIFICATION Spec
INVARIANT TypeOK
INVARIANT VerifyingHasOpenAttempt
INVARIANT VerifyingIsAttended
INVARIANT OneProbePerRequest
INVARIANT VerdictWasObserved
INVARIANT LabelsAgree
PROPERTY AttemptsAppendOnly
PROPERTY ImplementsContract
SYMMETRY Symmetry
CHECK_DEADLOCK FALSE
