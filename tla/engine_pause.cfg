\* Pausing a monitor while its worker is at work.
SPECIFICATION Spec
CONSTANTS
  Monitors = {m1}
  Channels = {c1}
  Slots = {s1}
  NoSlot = NoSlot
  SlowChecks = FALSE
  HttpsMonitors = {}
  MaxDay = 1
  MaxFails = 2
  MaxRequests = 1
  MonitorBodies <- PlainMonitor
  ChannelBodies <- AlertAtOnce
  Operations <- MonitorOperations
  Faults <- NoFaults
INVARIANTS
  PausedShowsMaintenance
CHECK_DEADLOCK FALSE
