\* A channel that wants to hear of the second consecutive failure.
SPECIFICATION Spec
CONSTANTS
  Monitors = {m1}
  Channels = {c1}
  Slots = {s1}
  NoSlot = NoSlot
  SlowChecks = FALSE
  HttpsMonitors = {}
  MaxDay = 1
  MaxFails = 2
  MaxRequests = 1
  MonitorBodies <- PlainMonitor
  ChannelBodies <- AlertAfterTwo
  Operations <- AlertOperations
  Faults <- NoFaults
INVARIANTS
  AlertsAgree
CHECK_DEADLOCK FALSE
