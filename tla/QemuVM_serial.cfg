SPECIFICATION FairSpec
CONSTANTS
  d1 = d1  d2 = d2
  MaxStarts = 2
  MaxChunks = 2
  Awaited = {1}
  PipeSize = 1
  Descriptors = {d1, d2}
  KillFails = TRUE
INVARIANTS TypeOK CapturedInOrder NoStrayQemu StaleOutputIsBounded CapturedOnce
PROPERTIES CallsReturn AllIsCaptured
