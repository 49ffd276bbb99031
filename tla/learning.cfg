SPECIFICATION PartsSpec
CONSTANTS
  NotHere = NotHere
  None = None
  Pipelines = {p1, p2}
  N = 2
  Configs = {v1, v2}
  Accumulation = 2
  Interval = 4
  Totals = {5}
  MaxRuns = 3
  Original = 9
  Branches = {1, 2}
  MaxSteps = 6
  Lengths = {6}
  Resumes = {2, 5}
  DoneFrom = {2}
  Steps = {2, 3}
  Streak = 2
  Window = 4
  Episodes <- TwoEpisodes
  Count = 5
  Recipes <- SomeRecipes
  Gammas = {1, 2}
  Base = 2
  Labels <- SomeLabels
INVARIANTS TrainingGetsItsRewards ResumingChangesNothing ReplayIsExact RewardsKeepTheGoal
SYMMETRY Symmetry
CHECK_DEADLOCK FALSE
