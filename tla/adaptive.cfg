\* The clock may be set forward by more than a study period.
SPECIFICATION AdaptSpec
CONSTANTS
  Adaptive = {0, 1}
  Elapsed = {0, 1, 4}
  StudyTime = 3
  Threshold = 2
  TopQuality = 2
INVARIANTS
  AdaptTypeOK
  QualityBorrowed
