SPECIFICATION SessionsLiveSpec
CONSTANTS
  Originals = {o1}
  PolicyBranches = {}
  Takeovers = {m1}
  Controllers = {spacemouse, factr}
  Factr = factr
  NoSession = NoSession
  NoController = NoController
  Faulty = {o1, m1}
  MaxStops = 1
  MaxRestarts = 1
  NotHere = NotHere
  Shown = {s1}
  MaxDrafts = 1
  MaxRevisions = 1
  MaxPreviews = 1
  NoItem = NoItem
  Nobody = Nobody
  Preview = Preview
  Replay = Replay
  Other = Other
PROPERTIES SessionsComeToAnEnd
CHECK_DEADLOCK FALSE
