SPECIFICATION PartsSpec
CONSTANTS
  NotHere = NotHere
  Runs = {r1}
  Editors = {e1, e2}
  None = None
  Ids = 2
  MaxChanges = 2
  MaxPreviewed = 13
  MaxStates = 4
  MaxSeeds = 4
  MaxLaunched = 3
  ErrorLimit = 3
  NoRead = NoRead
  Unread = Unread
INVARIANTS ScheduleBalanced TestAccounted DatasetSourcesHeld
PROPERTIES ChoicesKept TestSettles DeletedRunShows
CHECK_DEADLOCK FALSE
