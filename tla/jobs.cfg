SPECIFICATION PartsSpec
CONSTANTS
  NotHere = NotHere
  Stages = 2
  Killable = TRUE
  MaxStops = 1
  MaxPolls = 1
  Backends = {b1}
  LocalJobs = {l1}
  DetachedJobs = {d1}
  Cancelable = {l1}
  RefusedJobs = {}
  PolledJobs = {}
  NoJob = NoJob
  DiskFaults = FALSE
  MaxRestarts = 1
 
PROPERTIES  RunnerComesToAnEnd 
CHECK_DEADLOCK FALSE
