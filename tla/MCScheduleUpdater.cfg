SPECIFICATION Spec
CONSTANTS
  Entry = {"n", "e2", "e4", "e6", "e8", "e10", "push"}
  Pause = {"break", "pause-2", "pause3", "break5", "pause7", "break9"}
  Resume = {"r1", "r2", "r3"}
  Time <- StartTimes
  Duration <- Durations
  Endless = Endless
  NegInf <- MinusInf
  Launches <- Several
  Late = {"push", "r1", "r2", "r3"}
  None = None
  Now <- Clock
PROPERTIES
  NothingLost
  ResumeFormula
  BreakHolds
\* The schedule ends.
CHECK_DEADLOCK FALSE
