\* No iteration takes a study period and nobody sets the clock.
SPECIFICATION AdaptFairSpec
CONSTANTS
  Adaptive = {0}
  Elapsed = {0}
  StudyTime = 3
  Threshold = 2
  TopQuality = 2
PROPERTIES
  StudyConcludes
