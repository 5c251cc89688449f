\* One check, two attempts, two requests served at once, two faults.
CONSTANTS
  Jobs = {j1}
  Devices = {d1}
  Handlers = {h1, h2}
  NoJob = NoJob
  NoDevice = NoDevice
  NoHandler = NoHandler
  DispatchWindow = 1
  LeaseDuration = 3
  Stall = 1
  OnlineWindow = 1
  MaxQueued = 1
  MaxAttempts = 2
  LastCreate = 0
  LastFault = 4
  MaxFaults = 2
  MaxTime = 8
SPECIFICATION Spec
INVARIANT TypeOK
INVARIANT GrantedAtMostOnce
PROPERTY TerminalNotReopened
PROPERTY OneVerdict
PROPERTY ImplementsContract
SYMMETRY HandlerSymmetry
CHECK_DEADLOCK FALSE
