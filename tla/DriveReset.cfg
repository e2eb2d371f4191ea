SPECIFICATION Spec
CONSTANTS
  NumUnits = 1
  Width = 33
  SubMin = 4
  Frac = 4
  Chunk = 4
  Factors = {5}
  SkipAfter = 11
  WarmUp = 3
  ResetClk = 1
  MaxStep = 2
  Frame = 1
  MaxOff = 2
  Inputs = {"drive reset"}
PROPERTIES RunsUpToNow
