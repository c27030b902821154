\* SET may fail.
SPECIFICATION Spec
CONSTANTS
  Proc = {p1}
  MAX_STREAM_NUM = 2
  MAX_AREA_NUM = 1
  StreamID = {0}
  AreaID = {0}
  a = a
  b = b
  NotBmp = NotBmp
  NoFile = NoFile
  Blank = Blank
  BigUnits = 1
  Image <- Images
  Units <- UnitsOf
  Contents <- Images
  Faults = {"set"}
PROPERTY SuccessMeansShown
