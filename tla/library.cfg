SPECIFICATION PartsSpec
CONSTANTS
  NotHere = NotHere
  Runs = {r1}
  Jobs = {composite, other}
  composite = composite
  other = other
  ds1 = ds1
  ds2 = ds2
  JobSpecs <- Scenarios
  NoDataset = NoDataset
  None = None
  MaxEvents = 1
  TrainJobs = {t1, t2}
  EvalJobs = {e1}
  CopyIds = {c1}
  NoModel = NoModel
  NoJob = NoJob
  MaxUses = 2
INVARIANTS PublishedResultsHonest GlobalResultsSettle ModelsInUseKept
PROPERTIES GlobalResultKept
SYMMETRY Symmetry
CHECK_DEADLOCK FALSE
