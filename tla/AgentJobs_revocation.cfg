\* A revocation meets a scan or a poll that is already being served.
CONSTANTS
  Jobs = {j1}
  Devices = {d1}
  Handlers = {h1, h2}
  NoJob = NoJob
  NoDevice = NoDevice
  NoHandler = NoHandler
  DispatchWindow = 1
  LeaseDuration = 3
  Stall = 1
  OnlineWindow = 1
  MaxQueued = 1
  MaxAttempts = 2
  LastCreate = 1
  LastFault = 5
  MaxFaults = 0
  MaxTime = 6
SPECIFICATION Spec
INVARIANT RevokedDeviceHasNoActiveJob
SYMMETRY HandlerSymmetry
CHECK_DEADLOCK FALSE
