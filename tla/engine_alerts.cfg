\* One monitor, one goroutine at a time, every handler, nothing fails.
SPECIFICATION Spec
CONSTANTS
  Monitors = {m1}
  Channels = {c1}
  Slots = {s1}
  NoSlot = NoSlot
  SlowChecks = FALSE
  HttpsMonitors = {m1}
  MaxDay = 1
  MaxFails = 3
  MaxRequests = 1
  MonitorBodies <- AnyMonitor
  ChannelBodies <- AlertAtOnce
  Operations <- AllOperations
  Faults <- NoFaults
INVARIANTS
  TypeOK
  DashboardAgrees
  FailuresCounted
  AlertsAgree
CHECK_DEADLOCK FALSE
