SPECIFICATION FairSpec
CONSTANTS
  w1 = w1  w2 = w2  k1 = k1  k2 = k2 k3 = k3 t1 = t1 t2 = t2 c = c
  Workers = {w1, w2}
  Keys = {k1, k2, k3}
  NoWorker = NoWorker  NoKey = NoKey  NoTest = NoTest
  Tests = {t1, t2}
  Extended = {t2}
  Controller = c
  Processes = {w1, w2, c}
  Raises <- Ends
  MaxRuns = 2
  MaxFaults = 1
  Interrupts = TRUE
INVARIANTS TypeOK AuthorizedFits  OutcomeFollows OneSection PassedIsComplete
PROPERTIES ImplementsKeyStore RunEnds
CHECK_DEADLOCK FALSE
