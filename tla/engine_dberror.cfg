\* A worker whose read of its row fails once.
SPECIFICATION Spec
CONSTANTS
  Monitors = {m1}
  Channels = {c1}
  Slots = {s1}
  NoSlot = NoSlot
  SlowChecks = FALSE
  HttpsMonitors = {}
  MaxDay = 1
  MaxFails = 2
  MaxRequests = 1
  MonitorBodies <- PlainMonitor
  ChannelBodies <- AlertAtOnce
  Operations <- CreateOnly
  Faults <- FailingStatements
PROPERTIES
  ReloadSyncs
CHECK_DEADLOCK FALSE
