SPECIFICATION Spec
CONSTANTS
  Stages = 1
  Killable = FALSE
  MaxStops = 1
  MaxPolls = 1
CHECK_DEADLOCK FALSE
PROPERTIES CompletedStays
