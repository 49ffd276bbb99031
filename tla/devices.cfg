SPECIFICATION PartsSpec
CONSTANTS
  NotHere = NotHere
  Monitors = {monitor}
  Requests = {request}
  Calibrations = {c1, c2}
  Session = session
  None = None
  MaxUnplugs = 1
  Sessions = {s1}
  MaxClients = 1
  NoSession = NoSession
  Nobody = Nobody
  Monitor = Monitor
  Closer = Closer
  Calibrator = Calibrator
  Deflection = {0, 1, 3}
  Deadzone = 0
  NeutralMax = 1
  Ratio <- FiveToFour
  Exclusive = TRUE
  Frames = {"world", "tool"}
  ConfigFrame = "world"
  Presses = {{}, {"right"}, {"left", "right"}}
  MaxReports = 2
INVARIANTS TakeoverHandleSound InputIsTheOperators TorqueAccounted
PROPERTIES DeviceComesBack FrameSwitchesAtRest ErrorEndsOutput
CHECK_DEADLOCK FALSE
