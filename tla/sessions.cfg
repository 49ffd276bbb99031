SPECIFICATION PartsSpec
CONSTANTS
  NotHere = NotHere
  Originals = {o1}
  PolicyBranches = {b1}
  Takeovers = {m1}
  Controllers = {factr}
  Factr = factr
  NoSession = NoSession
  NoController = NoController
  Faulty = {b1, m1}
  MaxStops = 1
  MaxRestarts = 1
  Shown = {s1}
  MaxDrafts = 2
  MaxRevisions = 2
  MaxPreviews = 2
  NoItem = NoItem
  Nobody = Nobody
  Preview = Preview
  Replay = Replay
  Other = Other
INVARIANTS SessionsApart  BranchSourceKept LeaseMatchesDrawing ReadyShowsLatest
CHECK_DEADLOCK FALSE
