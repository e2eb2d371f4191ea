SPECIFICATION Spec
CONSTANTS
  Devices = {d1}
  Traps = {t1, t2}
  NoTrap = NoTrap
  Inputs = {"irq", "nmi", "trap", "reset", "arm", "disarm", "restore", "go", "jam"}
INVARIANTS TrapIsOwed
PROPERTIES MonitorOutlivesReset
