\* One stream, every motion and noise value, every failure of a setter.
SPECIFICATION FairSpec
CONSTANTS
  Stream = {0}
  MotionValue <- MCMotionValue
  NoiseValue <- MCNoiseValue
  MotionThreshold <- MCMotionThreshold
  NoiseThreshold <- MCNoiseThreshold
  MotionDelay <- MCMotionDelay
  NoiseDelay <- MCNoiseDelay
INVARIANTS
  TypeOK
  SingleRun
PROPERTIES
  NoLeapToNone
  MotionDebounced
  NoiseDebounced
  Settles
