SPECIFICATION SettingsSpec
CONSTANTS
  Backends = {b1, b2}
  Working = b1
  LocalJobs = {l1}
  DetachedJobs = {d1}
  Cancelable = {l1}
  RefusedJobs = {l1}
  PolledJobs = {l1, d1}
  NoJob = NoJob
  DiskFaults = TRUE
  MaxRestarts = 1
INVARIANTS LeaseInv OneWorkAtATime 
PROPERTIES CanceledStaysCanceled 
CHECK_DEADLOCK FALSE
