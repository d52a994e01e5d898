SPECIFICATION FairSpec
CONSTANTS
  h1 = h1
  h2 = h2
  Host = {h1, h2}
  Envs <- ManyEnvs
  Texts <- ManyTexts
  Sounds <- ManySounds
  Ways <- ManyWays
  MaxStarts <- FewStarts
  Talkers = {h1}
  HasKey = TRUE
  MaxMisread = 1
INVARIANTS Understood
PROPERTIES  Heard
CHECK_DEADLOCK FALSE
