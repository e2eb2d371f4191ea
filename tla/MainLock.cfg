SPECIFICATION FairSpec
CONSTANTS
  MaxDepth = 8
  MaxExitDepth = 1
  EarlyUI = FALSE
CHECK_DEADLOCK FALSE
INVARIANTS UIHasControl NoAbort
PROPERTIES
  ObtainCompletesWhileViceYields
  ShutdownCompletesWhileViceYields
  ImplementsControl
