SPECIFICATION Spec
CONSTANTS
  w1 = w1  w2 = w2  p1 = p1  p2 = p2
  Workers = {w1}
  Ports = {p1, p2}
  MaxTests = 2
  MaxVMs = 3
  PortRaces = TRUE
  QemuDies = TRUE
  KillFails = TRUE
  Interrupts = TRUE
  NoVM = NoVM  NoPort = NoPort
SYMMETRY SessionSymmetry
INVARIANTS TypeOK NothingLeft ReturnedIsSaved
PROPERTIES ImplementsVMLifecycle
CHECK_DEADLOCK FALSE
