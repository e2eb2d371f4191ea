SPECIFICATION Spec
CONSTANTS
  NumUnits = 1
  Width = 39
  SubMin = 4
  Frac = 4
  Chunk = 4
  Factors = {3, 5}
  SkipAfter = 14
  WarmUp = 3
  ResetClk = 1
  MaxStep = 2
  Frame = 1
  MaxOff = 2
  Inputs = {"skip", "power", "reset", "speed"}
INVARIANTS InSync
PROPERTIES DriveClockNeverWraps ImplementsDriveTime
