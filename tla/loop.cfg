SPECIFICATION FairSpec
CONSTANTS
  Stream = {0, 1}
  MotionValue = {70000}
  NoiseValue = {17, 24}
  MotionThreshold <- MCMotionThreshold
  NoiseThreshold <- MCNoiseThreshold
  MotionDelay <- MCMotionDelay
  NoiseDelay <- MCNoiseDelay
  Adaptive = {1}
  Elapsed = {0}
  StudyTime = 1
  Threshold = 1
  TopQuality = 0
  RoiInterval <- MCRoiInterval
  DumpCfg = {1}
  FrameWrap = 2
INVARIANTS
  RoiApplied
  
PROPERTIES
  
  
  ExitIsServed
