SPECIFICATION FairSpec
CONSTANTS
  Runs = {r1, r2}
  Backend = Backend
  Command = Command
  Consumers = {c1}
  MaxRequests = 1
  MaxFaults = 2
  MaxImports = 1
INVARIANTS ServesConsistentLayout AllOrNothing
PROPERTIES WrittenStays RepairEnds
CHECK_DEADLOCK FALSE
