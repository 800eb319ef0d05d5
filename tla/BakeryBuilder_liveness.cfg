SPECIFICATION FairSpec
CONSTANTS
  w1 = w1  w2 = w2  p1 = p1  s1 = s1
  Workers = {w1, w2}
  Systems = {s1}
  Artifacts <- OneImage
  ParamSets = {p1}
  ParametersOf <- SameParameters
  MaxRuns = 2
  OrphansSurvive = TRUE
  Nobody = Nobody  NoArtifact = NoArtifact  NoParams = NoParams
INVARIANTS ExclusiveSections
PROPERTIES MarkedIsFrozen EveryCallReturns
