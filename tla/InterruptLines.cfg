SPECIFICATION FairSpec
CONSTANTS
  Devices = {d1, d2}
  Traps = {t1}
  NoTrap = NoTrap
  Inputs = {"irq", "nmi", "jam", "reset"}
INVARIANTS LinesAgree SpuriousIRQExpires NMIKeepsPriority
PROPERTIES NMIServed IRQServed
