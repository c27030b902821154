\* main and one more user of the factory, which may do anything at any time.
SPECIFICATION Spec
CONSTANTS
  Client = {"main", "other"}
  main = "main"
  MaxMade = 4
  FRAME_LIMIT = 3
INVARIANTS OneInstance FirstFrames 
PROPERTY EndsAfterLimit
\* The process exits or crashes.
CHECK_DEADLOCK FALSE
