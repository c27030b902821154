\* Every command line.
SPECIFICATION OptionsSpec
CONSTANTS
  Path = {"pcm"}
  Input = "input"
  Other = "other"
  None = ""
INVARIANT DumpAsAsked
\* xaudio_open is called, or the process has ended.
CHECK_DEADLOCK FALSE
