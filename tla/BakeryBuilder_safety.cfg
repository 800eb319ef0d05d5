SPECIFICATION Spec
CONSTANTS
  w1 = w1  w2 = w2  p1 = p1  s1 = s1
  Workers = {w1, w2}
  Systems = {s1}
  Artifacts <- OneSystem
  ParamSets = {p1}
  ParametersOf <- MixedParameters
  MaxRuns = 2
  OrphansSurvive = FALSE
  Nobody = Nobody  NoArtifact = NoArtifact  NoParams = NoParams
INVARIANTS TypeOK OneBakeAtATime ServedIsBaked BakedWithOwnParameters
PROPERTIES ImplementsStore
