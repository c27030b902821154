---------------------------- MODULE SmartRCStartup ----------------------------
(***************************************************************************)
(* The start of test_smartrc_Amba.c: init_param reads the options one by   *)
(* one, -A .. -E switching the stream that the following options are for;  *)
(* init_iav and init_smartrc_lib hand them to the library and set up every *)
(* selected stream for the format the driver reports.                      *)
(*                                                                         *)
(* The options that are read back later (-d -f -c -F -a -i -v) are treated *)
(* like the others until then, and are left out, as are -s and -p, whose   *)
(* menus run before the streams are set up.                                *)
(***************************************************************************)
EXTENDS SmartRCGeometry, Sequences, FiniteSetsExt

CONSTANTS
  MaxOptions,   \* bound: options on the command line
  Switch,       \* the streams -A .. -E may switch to
  Setting,      \* -q -b -t -m -n: one library call for a stream
  Gap,          \* -g: part of the configuration of a stream
  Global,       \* -l -e: for no stream in particular
  Value,        \* values an option accepts
  Formats,      \* what the driver may report for a stream
  FramePeriod,  \* what IAV_IOC_VIN_GET_FPS may report
  RefPeriod     \* AMBA_VIDEO_FPS_29_97

ASSUME StartupAssumption ==
  /\ Switch \subseteq 0 .. 4
  /\ \A f \in Formats :
       /\ f.codec \in Codec /\ f.rotate \in BOOLEAN
       /\ {f.width, f.height, f.pitch} \subseteq Nat \ {0}
       /\ f.pitch % 16 = 0    \* lines are aligned, and hold the stream's
       /\ f.pitch >= InUnits(IF f.rotate THEN f.height ELSE f.width)
  /\ RefPeriod \in Nat /\ FramePeriod \subseteq Nat
  /\ \A p \in FramePeriod : p >= 16

NoStream == -1
Unset == -1
Bad == -2       \* a value out of range

StreamOption == Setting \union {Gap}
Option == StreamOption \union Global

ASSUME OptionAssumption ==
  /\ Gap \notin Setting \union Global /\ Setting \intersect Global = {}
  /\ "switch" \notin Option
  /\ Unset \notin Value /\ Bad \notin Value

VARIABLES
  pc,                \* "options", "init", "running" or "ended"
  argv,              \* history: the options read so far
  current_stream_id,
  stream_selection,
  smartrc_params,    \* per option and stream, the value if its flag is set
  cur,               \* the stream init_smartrc_lib is at
  bitrate_gap_adj,   \* of config, which all streams share
  period,            \* what the sensor reports
  g_delay,           \* motion_none, _low and _mid, which are alike
  lib,               \* the library: per option and stream
  failed,            \* history: setters the library refused
  g_enc_cfg          \* per stream: geometry and buffer sizes

vars == <<pc, argv, current_stream_id, stream_selection, smartrc_params, cur,
          bitrate_gap_adj, period, g_delay, lib, failed, g_enc_cfg>>

optionVars == <<argv, current_stream_id, stream_selection, smartrc_params>>
setupVars  == <<cur, bitrate_gap_adj, g_delay, lib, failed, g_enc_cfg>>

Stream == 0 .. 4
All == NoStream   \* where the global options are kept

Init ==
  /\ pc = "options" /\ argv = <<>>
  /\ current_stream_id = NoStream /\ stream_selection = {}
  /\ smartrc_params = [o \in Option |-> [s \in Stream \union {All} |-> Unset]]
  /\ cur = 0 /\ bitrate_gap_adj = 0
  /\ period \in FramePeriod /\ g_delay = 10
  /\ lib = [o \in Option |-> [s \in Stream \union {All} |-> Unset]]
  /\ failed = {} /\ g_enc_cfg = [s \in Stream |-> <<>>]

-----------------------------------------------------------------------------
(* init_param.                                                             *)

Read(o, v) ==
  /\ pc = "options" /\ Len(argv) < MaxOptions
  /\ argv' = Append(argv, <<o, v>>)
  /\ UNCHANGED <<period, setupVars>>

SwitchStream(s) ==
  /\ Read("switch", s)
  /\ current_stream_id' = s
  /\ stream_selection' = stream_selection \union {s}
  /\ UNCHANGED <<pc, smartrc_params>>

\* Where the value of an option goes.
Slot(o) == IF o \in Global THEN All ELSE current_stream_id

\* VERIFY_STREAM_ID and the test of the range.
Accepted(o, v) ==
  /\ o \in StreamOption => current_stream_id # NoStream
  /\ v # Bad

TakeOption(o, v) ==
  /\ Accepted(o, v) /\ Read(o, v)
  /\ smartrc_params' = [smartrc_params EXCEPT ![o][Slot(o)] = v]
  /\ UNCHANGED <<pc, current_stream_id, stream_selection>>

\* main returns: nothing has been opened yet.
RefuseOption(o, v) ==
  /\ ~Accepted(o, v) /\ Read(o, v)
  /\ pc' = "ended"
  /\ UNCHANGED <<current_stream_id, stream_selection, smartrc_params>>

-----------------------------------------------------------------------------
(* The rest of main up to the control thread.                              *)

\* The next stream to set up, from id i on, or SMARTRC_MAX_STREAM_NUM.
NextSelected(i) == Min((stream_selection \intersect i .. 4) \union {5})

\* The flag of an option is set.
Given(o, s) == smartrc_params[o][s] # Unset

\* There is a command line, init_iav and smartrc_init succeed.  The library
\* accepts the settings in ok; one it refuses is only reported.
StartInit(ok) ==
  /\ pc = "options" /\ argv # <<>>
  /\ pc' = "init" /\ cur' = NextSelected(0)
  /\ LET given == {o \in Global : Given(o, All)}
     IN  /\ lib' = [o \in Option |-> IF o \in given \intersect ok
                      THEN [lib[o] EXCEPT ![All] = smartrc_params[o][All]] ELSE lib[o]]
         /\ failed' = (given \ ok) \X {All}
  /\ UNCHANGED <<optionVars, bitrate_gap_adj, period, g_delay, g_enc_cfg>>

\* Mutant of Scaled: too far to the right.
ScaledTooFar(delay) == (delay * (RefPeriod \div (period \div 16))) \div 32

\* update_delay_param: get_ratio and multiply_ratio with SHIFT_BIT 4.
Scaled(delay) == (delay * (RefPeriod \div (period \div 16))) \div 16

\* What is set up for a stream of format f.
EncCfg(f) ==
  LET w == IF f.rotate THEN f.height ELSE f.width
      h == IF f.rotate THEN f.width ELSE f.height
      rw == RoiUnits(f.codec, w)
      rh == RoiUnits(f.codec, h)
  IN  [codec |-> f.codec, width |-> w, height |-> h, pitch |-> f.pitch,
       roi_width |-> rw, roi_height |-> rh,
       me_size |-> MeBufSize(f.codec, h, f.pitch), mat_size |-> MatSize(rw, rh)]

\* Mutant of Applied: what was said for the current stream of init_param.
AppliedCurrent(s, ok, gap) ==
  [o \in Option |->
     IF o = Gap THEN [lib[o] EXCEPT ![s] = gap]
     ELSE IF o \in ok /\ Given(o, s)
          THEN [lib[o] EXCEPT ![s] = smartrc_params[o][current_stream_id]] ELSE lib[o]]

\* What the library holds after stream s: its configuration, and the setters
\* whose flag is set and which are accepted.
Applied(s, ok, gap) ==
  [o \in Option |->
     IF o = Gap THEN [lib[o] EXCEPT ![s] = gap]
     ELSE IF o \in ok /\ Given(o, s)
          THEN [lib[o] EXCEPT ![s] = smartrc_params[o][s]] ELSE lib[o]]

\* Mutant of GapFor: what is in config already goes first.
GapForFirst(s) ==
  IF bitrate_gap_adj = 0 /\ Given(Gap, s) THEN smartrc_params[Gap][s] ELSE bitrate_gap_adj

\* config.bitrate_gap_adj: set if the stream's flag is, else what an earlier
\* stream left.
GapFor(s) == IF Given(Gap, s) THEN smartrc_params[Gap][s] ELSE bitrate_gap_adj

\* One round of init_smartrc_lib.
InitStream(s, f, ok) ==
  LET gap == GapFor(s)
  IN  /\ pc = "init" /\ cur = s /\ s \in Stream
      /\ bitrate_gap_adj' = gap
      /\ g_delay' = Scaled(g_delay)
      /\ g_enc_cfg' = [g_enc_cfg EXCEPT ![s] = EncCfg(f)]
      /\ lib' = Applied(s, ok, gap)
      /\ failed' = failed \union ({o \in Setting \ ok : Given(o, s)} \X {s})
      /\ cur' = NextSelected(s + 1)
      /\ UNCHANGED <<pc, optionVars, period>>

\* All streams are set up; smartrc_auto_run_test starts the control thread.
Run ==
  /\ pc = "init" /\ cur = 5 /\ pc' = "running"
  /\ UNCHANGED <<optionVars, period, setupVars>>

\* The driver or the library refuses, a format is not supported or memory is
\* short: main returns with what was opened still open.  What it had done by
\* then for this stream ends with the process.
InitFails ==
  /\ pc \in {"options", "init"} /\ pc' = "ended"
  /\ UNCHANGED <<optionVars, period, setupVars>>

Next ==
  \/ \E s \in Switch : SwitchStream(s)
  \/ \E o \in Option, v \in Value \union {Bad} : TakeOption(o, v) \/ RefuseOption(o, v)
  \/ \E ok \in SUBSET Global : StartInit(ok)
  \/ \E s \in Stream, f \in Formats, ok \in SUBSET Setting : InitStream(s, f, ok)
  \/ Run \/ InitFails

Spec == Init /\ [][Next]_vars

-----------------------------------------------------------------------------
(* What the command line says.                                             *)

\* The stream the i-th option is for.
Context(i) ==
  LET sw == {j \in 1 .. i - 1 : argv[j][1] = "switch"}
  IN  IF sw = {} THEN NoStream
      ELSE argv[Max(sw)][2]

\* The last value given to option o for stream s.
LastSaid(o, s) ==
  LET said == {i \in DOMAIN argv :
                 argv[i][1] = o /\ (o \in Global \/ Context(i) = s)}
  IN  IF said = {} THEN Unset
      ELSE argv[Max(said)][2]

-----------------------------------------------------------------------------
(* Properties.                                                             *)

\* The variables stay in their domains; in particular a stream that is set up
\* was selected.
TypeOK ==
  /\ pc \in {"options", "init", "running", "ended"}
  /\ current_stream_id \in Switch \union {NoStream}
  /\ stream_selection \subseteq Switch
  /\ smartrc_params \in [Option -> [Stream \union {All} -> Value \union {Unset}]]
  /\ cur \in stream_selection \union {0, 5}
  /\ period \in FramePeriod /\ g_delay \in Nat
  /\ lib \in [Option -> [Stream \union {All} -> Value \union {0, Unset}]]
  /\ failed \subseteq Option \X (Stream \union {All})
  /\ \A s \in Stream : g_enc_cfg[s] # <<>> =>
       s \in stream_selection /\ \E f \in Formats : g_enc_cfg[s] = EncCfg(f)

\* When the control thread starts, the library holds for every selected
\* stream the last value each setter's option was given after the switch to
\* that stream, and for every other stream nothing, whatever the order of
\* options and switches (init_param, lines 311-487, and 2227-2260).
OptionsReachTheirStream ==
  pc = "running" =>
    \A w \in (Setting \X Stream) \union (Global \X {All}) :
      lib[w[1]][w[2]] = IF w \in failed THEN Unset ELSE LastSaid(w[1], w[2])

\* -g is an option of one stream, but config is cleared only once, before the
\* loop over the streams (line 2048): a stream is configured with the gap said
\* for it or, failing that, for the nearest selected stream before it.
GapCarriedOver ==
  pc = "running" =>
    \A s \in stream_selection :
      LET said == {t \in stream_selection : t <= s /\ LastSaid(Gap, t) # Unset}
      IN  lib[Gap][s] = IF said = {} THEN 0
                        ELSE LastSaid(Gap, Max(said))

\* update_delay_param is called once per stream and scales the delays anew
\* each time.  With up to three streams they stay above zero for the frame
\* periods of the instance, so that a motion level still takes a run of
\* frames; integer division decides it.
DelaySurvives ==
  pc = "running" /\ Cardinality(stream_selection) <= 3 => g_delay > 0

\* Whatever the format, rotated or not, and whether the driver answers in a
\* frame or not (then the pitch is zero), transfer_me_buf stays within the
\* me_buf that was allocated from the ROI's size (lines 1555-1567, 2172).
MeBufferHolds ==
  \A s \in Stream : g_enc_cfg[s] # <<>> =>
    LET e == g_enc_cfg[s]
    IN  \A pitch \in {e.pitch, 0} :
          LastWritten(e.codec, e.width, e.height, pitch) < e.me_size

\* do_vca_on_yuv and dump_mot_mat walk the same cells, as many as the library
\* was told the matrix has, and the dump fits its buffer.
MatrixWalked ==
  \A s \in Stream : g_enc_cfg[s] # <<>> =>
    LET e == g_enc_cfg[s]
    IN  /\ VcaCells(e.codec, e.width, e.height) = e.roi_width * e.roi_height
        /\ MatWritten(e.roi_width, e.roi_height) <= e.mat_size
=============================================================================
