SPECIFICATION Spec
CONSTANTS
  d1 = d1  d2 = d2
  MaxStarts = 1
  MaxChunks = 1
  Awaited = {1}
  PipeSize = 1
  Descriptors = {d1, d2}
  KillFails = FALSE
INVARIANTS GivesUpOnlyInVain
