\* Up to four options, four streams.
SPECIFICATION Spec
CONSTANTS
  MaxOptions = 4
  Switch = {0, 1, 2, 4}
  Setting = {"q"}
  Gap = "g"
  Global = {"l"}
  Value = {0, 1}
  Formats <- MCFormats
  FramePeriod <- MCFramePeriod
  RefPeriod <- MCRefPeriod
INVARIANTS OptionsReachTheirStream  DelaySurvives  MatrixWalked
\* The control thread has been started, or the process has ended.
CHECK_DEADLOCK FALSE
