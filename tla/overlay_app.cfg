\* Options in any order and number.
SPECIFICATION Spec
CONSTANTS
  Resolution <- MCResolution
  Size <- MCSize
  OtherFile = "text"
  Offset <- MCOffset
  Alpha = {100}
INVARIANTS TypeOK PlacedInside
\* The options have been read.
CHECK_DEADLOCK FALSE
