\* Two conversations, one with implicit TLS, a spool of two, three failed requests.
CONSTANTS
  Conversations = {c1, c2}
  Implicit = {c2}
  NoObservation = NoObservation
  Capacity = 2
  MaxFaults = 3
SPECIFICATION FairSpec
INVARIANT TypeOK
INVARIANT Accounted
INVARIANT InOrder
INVARIANT OldestDropped
PROPERTY EndedIsReported
CHECK_DEADLOCK FALSE
