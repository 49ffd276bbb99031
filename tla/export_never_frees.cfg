SPECIFICATION Spec
CONSTANTS
  Runs = {r1, r2}
  Backend = Backend
  Command = Command
  Consumers = {c1}
  MaxRequests = 1
  MaxFaults = 2
  MaxImports = 1
CHECK_DEADLOCK FALSE
INVARIANTS ActiveMeansExporting
