SPECIFICATION Spec
CONSTANTS
  Sessions = {s1}
  MaxDrafts = 2
  MaxRevisions = 2
  MaxPreviews = 2
  NoSession = NoSession
  NoItem = NoItem
  Nobody = Nobody
  Preview = Preview
  Replay = Replay
  Other = Other
PROPERTIES PreviewsCome
CHECK_DEADLOCK FALSE
