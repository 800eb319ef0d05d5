SPECIFICATION Spec
CONSTANTS
  w1 = w1  w2 = w2  p1 = p1  p2 = p2
  Workers = {w1, w2}
  Ports = {p1, p2}
  MaxTests = 1
  MaxVMs = 1
  PortRaces = TRUE
  QemuDies = TRUE
  KillFails = FALSE
  Interrupts = FALSE
  NoVM = NoVM  NoPort = NoPort
SYMMETRY SessionSymmetry
INVARIANTS OutputsSaved
CHECK_DEADLOCK FALSE
