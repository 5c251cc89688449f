\* Two checks of one device share the server's only request slot; one fault.
CONSTANTS
  Jobs = {j1, j2}
  Devices = {d1}
  Handlers = {h1}
  NoJob = NoJob
  NoDevice = NoDevice
  NoHandler = NoHandler
  DispatchWindow = 1
  LeaseDuration = 3
  Stall = 1
  OnlineWindow = 1
  MaxQueued = 2
  MaxAttempts = 2
  LastCreate = 0
  LastFault = 1
  MaxFaults = 1
  MaxTime = 5
SPECIFICATION FairSpec
INVARIANT CompletedCounter
PROPERTY JobsSettle
CHECK_DEADLOCK FALSE
