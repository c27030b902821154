\* Two processes, two streams, an id that is refused, images that fit, a file
\* that may become unreadable, and every call to the system failing.
SPECIFICATION Spec
CONSTANTS
  Proc = {p1, p2}
  MAX_STREAM_NUM = 2
  MAX_AREA_NUM = 1
  StreamID = {0, 1, 3}
  AreaID = {0}
  a = a
  b = b
  NotBmp = NotBmp
  NoFile = NoFile
  Blank = Blank
  BigUnits = 1
  Image = {a}
  Units <- UnitsOf
  Contents = {a, NotBmp}
  Faults = {"fopen", "get", "set"}
SYMMETRY Symmetry
 
PROPERTIES   InsertionKept
