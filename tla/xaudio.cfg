\* Playback and capture; transfers may fail.
SPECIFICATION Spec
CONSTANTS
  Path = {"pcm"}
  Input = "input"
  Other = "other"
  None = ""
  MaxLen = 9
  Chunks = {4, 6}
  FRAME = 2
  PCM = 4
  Periods = {1, 2, 3}
  CAPTURE = 4
  BATCH = 2
  Sound <- MCSound
  MaxCaptured = 8
  Xruns = TRUE
INVARIANTS DecodedFits  LostAtTailsOnly DumpComplete  SoundKept
 
\* The process ends, or the bound on what is captured is reached.
CHECK_DEADLOCK FALSE
