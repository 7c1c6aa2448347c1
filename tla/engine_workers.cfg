\* One monitor whose old and new worker overlap; failing statements, crashes, shutdown.
SPECIFICATION Spec
CONSTANTS
  Monitors = {m1}
  Channels = {}
  Slots = {s1, s2}
  NoSlot = NoSlot
  SlowChecks = TRUE
  HttpsMonitors = {m1}
  MaxDay = 2
  MaxFails = 1
  MaxRequests = 1
  MonitorBodies <- PlainMonitor
  ChannelBodies <- AlertAtOnce
  Operations <- StopOperations
  Faults <- AllFaults
SYMMETRY SlotSymmetry
VIEW ReminderView
INVARIANTS
  NoStrayWorker
  NoCancelledEntry
  StoppedMeansCancelled
  OneReminderPerDay
CHECK_DEADLOCK FALSE
