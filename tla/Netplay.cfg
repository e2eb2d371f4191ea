CONSTANTS
  Inputs <- MCInputs
  Control <- MCControl
  Deltas <- MCDeltas
  MaxFrames = 4
  MaxActs = 2
  MaxMishaps = 1
  MaxSessions = 2

SPECIFICATION FairSpec
CHECK_DEADLOCK FALSE

INVARIANTS
  OutOfSyncStopsBoth
  HangUpNoticed
PROPERTIES
  ImplementsTimeline
  FramesAdvance
