---------------------------- MODULE SmartRCLoop ----------------------------
(***************************************************************************)
(* smartrc_mainloop, the control thread of test_smartrc_Amba.c (lines      *)
(* 1775-1979), one action per stage of a frame: wait for the next frame,   *)
(* treat the selected streams in ascending order, apply the sync frame.    *)
(* The per-stream work composes SmartRCLevels (classifiers and levels in   *)
(* the library) and SmartRCAdaptive (quality), and adds what they leave    *)
(* out: the pacing of ROI updates, the sync frame that makes them take     *)
(* effect, the dump whose failure ends the thread, and the exit flag.      *)
(*                                                                         *)
(* Left out: do_vca_on_yuv and dump_mot_mat, which only produce output and *)
(* whose failure the loop ignores.                                         *)
(***************************************************************************)
EXTENDS SmartRCStreams, SmartRCAdaptive

CONSTANTS
  MotionValue, NoiseValue, MotionThreshold, NoiseThreshold,
  MotionDelay, NoiseDelay,                           \* see SmartRCLevels
  RoiInterval,   \* roi_interval of each stream; 1 where -i was not given
  DumpCfg,       \* streams with -c 1
  FrameWrap      \* total_frames is kept modulo this bound
                 \* (Adaptive, Elapsed, StudyTime...: see SmartRCAdaptive)

ASSUME LoopAssumption ==
  /\ Adaptive \subseteq Stream /\ DumpCfg \subseteq Stream
  /\ RoiInterval \in [Stream -> 1 .. 30]
  /\ FrameWrap \in Nat \ {0}
  /\ \A s \in Stream : FrameWrap % RoiInterval[s] = 0
  /\ MotionValue \subseteq Nat /\ NoiseValue \subseteq Nat
  /\ MotionThreshold \in [1 .. 3 -> Nat] /\ NoiseThreshold \in [1 .. 2 -> Nat]
  /\ MotionDelay \in [0 .. 3 -> Nat] /\ NoiseDelay \in [0 .. 2 -> Nat]

VARIABLES
  motion_value, noise_value, i_motion, i_light, motion_level, noise_level,
  lib_motion, lib_noise,                             \* see SmartRCLevels
  smartrc_exit_flag,
  pc,            \* "test", "stream", "sync" or "done"
  cur,           \* the stream treated next
  tmp,           \* the noise read for this frame
  total_frames,
  apply_flag,
  roi_pending,   \* the library: ROIs updated and not yet applied
  roi_age        \* history: frames since the last ROI update, at most the interval

levelVars == <<motion_value, noise_value, i_motion, i_light, motion_level,
               noise_level, lib_motion, lib_noise>>
roiVars   == <<roi_pending, roi_age>>
loopVars  == <<pc, cur, tmp, total_frames, apply_flag>>
vars == <<levelVars, adapt_vars, roiVars, loopVars, smartrc_exit_flag>>

L == INSTANCE SmartRCLevels

Init ==
  /\ L!Init /\ AdaptInit
  /\ smartrc_exit_flag = FALSE
  /\ pc = "test" /\ cur = NoStream
  /\ tmp = 0 /\ total_frames = 0 /\ apply_flag = FALSE
  /\ roi_pending = {}
  /\ roi_age = RoiInterval

-----------------------------------------------------------------------------
(* The control thread.                                                     *)

\* Mutants of NextFrame: the exit flag is not looked at; the noise is stored
\* for every stream as soon as it is read.
NextFrameNoTest(nv) ==
  /\ pc = "test"
  /\ tmp' = nv
  /\ total_frames' = (total_frames + 1) % FrameWrap
  /\ apply_flag' = FALSE
  /\ pc' = "stream" /\ cur' = FirstFrom(0)
  /\ roi_age' = [s \in Stream |-> AtMost(roi_age[s] + 1, RoiInterval[s])]
  /\ UNCHANGED <<levelVars, adapt_vars, roi_pending, smartrc_exit_flag>>

NextFrameStoresNoise(nv) ==
  /\ pc = "test" /\ ~ smartrc_exit_flag
  /\ tmp' = nv /\ noise_value' = [s \in Stream |-> nv]
  /\ total_frames' = (total_frames + 1) % FrameWrap
  /\ apply_flag' = FALSE
  /\ pc' = "stream" /\ cur' = FirstFrom(0)
  /\ roi_age' = [s \in Stream |-> AtMost(roi_age[s] + 1, RoiInterval[s])]
  /\ UNCHANGED <<motion_value, i_motion, i_light, motion_level, noise_level,
                 lib_motion, lib_noise, adapt_vars, roi_pending, smartrc_exit_flag>>

\* The loop condition holds: the blocking wait for the next frame returns,
\* the noise is read once for all streams, the frame is counted.
NextFrame(nv) ==
  /\ pc = "test" /\ ~ smartrc_exit_flag
  /\ tmp' = nv
  /\ total_frames' = (total_frames + 1) % FrameWrap
  /\ apply_flag' = FALSE
  /\ pc' = "stream" /\ cur' = FirstFrom(0)
  /\ roi_age' = [s \in Stream |-> AtMost(roi_age[s] + 1, RoiInterval[s])]
  /\ UNCHANGED <<levelVars, adapt_vars, roi_pending, smartrc_exit_flag>>

\* The loop condition fails: the thread returns.
Leave ==
  /\ pc = "test" /\ smartrc_exit_flag
  /\ pc' = "done"
  /\ UNCHANGED <<levelVars, adapt_vars, roiVars, cur, tmp, total_frames,
                 apply_flag, smartrc_exit_flag>>

\* A run of high motion completes with this frame: motion_high_cnt grows.
HighRun(s, mv) ==
  L!MotionBand(mv) = L!MOTION_HIGH /\ L!Fires(i_motion[s], 3, MotionDelay)

\* The adaptive scenario, for the streams it is enabled on.
AdaptStep(s, mv, d, ok) ==
  IF s \in Adaptive THEN Adapt(s, HighRun(s, mv), d, ok)
  ELSE UNCHANGED adapt_vars

\* Mutant of RoiDue: the interval of any stream will do.
RoiDueForAny(s) == \E t \in Stream : total_frames % RoiInterval[t] = 0

RoiDue(s) == total_frames % RoiInterval[s] = 0

\* Mutant of RoiStep: apply_flag says what the last stream did.
RoiStepLast(s, ok) ==
  /\ apply_flag' = (RoiDue(s) /\ ok)
  /\ roi_pending' = IF apply_flag' THEN roi_pending \union {s} ELSE roi_pending
  /\ roi_age' = IF apply_flag' THEN [roi_age EXCEPT ![s] = 0] ELSE roi_age

\* A due ROI update that the library accepts asks for a sync frame; one that
\* fails is not made up for before the next interval.
RoiStep(s, ok) ==
  IF RoiDue(s) /\ ok
  THEN /\ roi_pending' = roi_pending \union {s}
       /\ roi_age' = [roi_age EXCEPT ![s] = 0]
       /\ apply_flag' = TRUE
  ELSE UNCHANGED <<roiVars, apply_flag>>

\* The rest of the iteration: a dump that fails ends the thread then and
\* there; otherwise on to the next stream, or out of the inner loop.
DumpStep(s, ok) ==
  \/ /\ s \in DumpCfg /\ ~ ok
     /\ pc' = "done" /\ UNCHANGED cur
  \/ /\ s \notin DumpCfg \/ ok
     /\ cur' = FirstFrom(s + 1)
     /\ pc' = IF cur' = NoStream THEN "sync" ELSE "stream"

\* Mutant of Iteration: the noise is read anew for every stream.
IterationRereads(s, mv, d, libM, libN, libQ, roi, dump) ==
  /\ pc = "stream" /\ cur = s
  /\ \E nv \in NoiseValue : L!Frame(s, mv, nv, libM, libN)
  /\ AdaptStep(s, mv, d, libQ)
  /\ RoiStep(s, roi)
  /\ DumpStep(s, dump)
  /\ UNCHANGED <<tmp, total_frames, smartrc_exit_flag>>

\* One iteration of the inner loop.  lib: the library accepts changed levels
\* and quality, roi: the ROI update, dump: the dump is written.
Iteration(s, mv, d, libM, libN, libQ, roi, dump) ==
  /\ pc = "stream" /\ cur = s
  /\ L!Frame(s, mv, tmp, libM, libN)
  /\ AdaptStep(s, mv, d, libQ)
  /\ RoiStep(s, roi)
  /\ DumpStep(s, dump)
  /\ UNCHANGED <<tmp, total_frames, smartrc_exit_flag>>

\* After the inner loop the updated ROIs are put into effect together.
SyncFrame ==
  /\ pc = "sync"
  /\ roi_pending' = IF apply_flag THEN {} ELSE roi_pending
  /\ pc' = "test"
  /\ UNCHANGED <<levelVars, adapt_vars, roi_age, cur, tmp, total_frames,
                 apply_flag, smartrc_exit_flag>>

-----------------------------------------------------------------------------
(* The rest of the program, as the thread sees it.                         *)

\* smartrc_thread_stop, called by the main thread or by a signal handler.
RequestExit ==
  /\ ~ smartrc_exit_flag
  /\ smartrc_exit_flag' = TRUE
  /\ UNCHANGED <<levelVars, adapt_vars, roiVars, loopVars>>

\* Time passes between frames.
TimePasses ==
  /\ Adaptive # {} /\ pc = "test" /\ Tick
  /\ UNCHANGED <<levelVars, roiVars, loopVars, smartrc_exit_flag>>

\* The process stays around after the thread has returned.
Stopped == pc = "done" /\ smartrc_exit_flag /\ UNCHANGED vars

Iterate ==
  \E s \in Stream, mv \in MotionValue, d \in Elapsed,
     libM, libN, libQ, roi, dump \in BOOLEAN :
    Iteration(s, mv, d, libM, libN, libQ, roi, dump)

Thread == (\E nv \in NoiseValue : NextFrame(nv)) \/ Leave \/ Iterate \/ SyncFrame

Next == Thread \/ RequestExit \/ TimePasses \/ Stopped

Spec == Init /\ [][Next]_vars

\* The thread is scheduled, and the encoder keeps delivering frames.
FairSpec == Spec /\ WF_vars(Thread)

-----------------------------------------------------------------------------
(* Properties.                                                             *)

TypeOK ==
  /\ L!TypeOK /\ AdaptTypeOK
  /\ smartrc_exit_flag \in BOOLEAN
  /\ pc \in {"test", "stream", "sync", "done"}
  /\ cur \in Stream \union {NoStream}
  /\ tmp \in Nat
  /\ total_frames \in 0 .. FrameWrap - 1
  /\ apply_flag \in BOOLEAN
  /\ roi_pending \subseteq Stream
  /\ roi_age \in [Stream -> Nat]

\* No frame begins with an ROI update still waiting for its sync frame:
\* apply_flag remembers every update of the streams treated so far (lines
\* 1928-1947 and 1973-1975).
RoiApplied == pc = "test" => roi_pending = {}

\* Two ROI updates of a stream lie exactly roi_interval frames apart, whatever
\* the other streams' intervals are.
RoiPaced ==
  [][\A s \in Stream :
       roi_age'[s] = 0 /\ roi_age[s] # 0 => roi_age[s] = RoiInterval[s]]_vars

\* At the end of a frame every selected stream was judged on one and the same
\* noise reading, the one taken at its start.
OneNoiseReading ==
  pc = "sync" => \A s \in Stream : noise_value[s] = tmp

\* Seen through the levels alone, the thread is SmartRCLevels: whatever it
\* adds, a stream's levels change only by whole frames of that stream.
ImplementsLevels == L!Spec

\* Once the exit flag is up the thread returns (the loop condition is read
\* once per frame, and smartrc_thread_stop waits for it in pthread_join).
ExitIsServed == smartrc_exit_flag ~> pc = "done"
=============================================================================
