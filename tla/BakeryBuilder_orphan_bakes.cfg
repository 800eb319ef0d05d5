SPECIFICATION Spec
CONSTANTS
  w1 = w1  w2 = w2  p1 = p1  s1 = s1
  Workers = {w1, w2}
  Systems = {s1}
  Artifacts <- OneSystem
  ParamSets = {p1}
  ParametersOf <- SameParameters
  MaxRuns = 1
  OrphansSurvive = TRUE
  Nobody = Nobody  NoArtifact = NoArtifact  NoParams = NoParams
INVARIANTS OneBakeAtATime
