SPECIFICATION Spec
CONSTANTS
  Idle = Idle
  Wild = Wild
  Alarms = {r, a, b, c}
  Standing = r
  MaxPending = 3
  Width = 17
  SubMin = 4
  ClkBase = 3
  Frame = 1
  MaxStep = 2
  MaxLate = 2
  Reach = 1
  Horizon = 6
  MaxWarps = 2
INVARIANTS SlotsConsistent NextIsEarliest DispatchSafe DueTimesKept
PROPERTIES ImplementsAlarmService
SYMMETRY Interchangeable
