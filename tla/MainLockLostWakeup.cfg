SPECIFICATION FairSpec
CONSTANTS
  MaxDepth = 2
  MaxExitDepth = 1
  EarlyUI = FALSE
CHECK_DEADLOCK FALSE
PROPERTIES ObtainCompletes
