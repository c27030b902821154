SPECIFICATION FairSpec
CONSTANTS
  Stream = {0, 1}
  Dump = {1}
  Signals = {INT, TERM}
  MaxSignals = 2
INVARIANTS
  TypeOK
  TearDownAlone
  NoMisuse
  
PROPERTY
  Ends
\* The process ends.
CHECK_DEADLOCK FALSE
