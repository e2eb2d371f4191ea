SPECIFICATION Spec
CONSTANTS
  GuardMax = 12
  SubMin = 2
  Second = 4
  Frame = 2
  Line = 2
  ResetClk = 1
  NoFile = NoFile
  StartClks = {9}
  MaxIdle = 4
  MaxAge = 5
  MaxInputs = 2
  OneSession = TRUE
  UserLines = {"key", "play"}
  Modes = {"save", "load", "reset", "playback"}
  Inputs = {}
INVARIANTS AllActionsRecorded PlaysTheSession PlaybackGoesOn
PROPERTIES EndsWhereItEnded
