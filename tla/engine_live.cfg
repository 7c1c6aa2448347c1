\* What the engine gets done once handlers and faults have stopped.
SPECIFICATION FairSpec
CONSTANTS
  Monitors = {m1}
  Channels = {}
  Slots = {s1, s2}
  NoSlot = NoSlot
  SlowChecks = TRUE
  HttpsMonitors = {}
  MaxDay = 1
  MaxFails = 1
  MaxRequests = 1
  MonitorBodies <- PlainMonitor
  ChannelBodies <- AlertAtOnce
  Operations <- LiveOperations
  Faults <- NoFaults
VIEW WorkerView
PROPERTIES
  ActiveIsChecked
  InactiveIsLeftAlone
  StatusConverges
  StopEndsAll
  ReloadSyncs
CHECK_DEADLOCK FALSE
