SPECIFICATION Spec
CONSTANTS
  MaxCalls = 1
  MaxBoots = 2
  Reconnects = TRUE
  DropsAsCode = TRUE
  StartsBreak = FALSE
  QemuDies = FALSE
  Deadlines = TRUE
INVARIANTS WaitFailsOnlyByTimeout
CHECK_DEADLOCK FALSE
