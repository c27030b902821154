--------------------------- MODULE SmartRCLevels ---------------------------
(***************************************************************************)
(* The motion and noise classifiers of smartrc_mainloop                    *)
(* (soc/smartrc/src/test_smartrc_Amba.c): what one iteration of the frame  *)
(* loop does to the levels of one stream, up to and including the two      *)
(* calls that carry a changed level into the smartrc library.              *)
(*                                                                         *)
(* The counters i0_motion .. i3_motion (and i0_light .. i2_light) of a     *)
(* stream are one function from bands to naturals, i_motion[s] and         *)
(* i_light[s].  Levels and bands are the numbers of the library's enums:   *)
(* motion NONE 0, LOW 1, MID 2, HIGH 3; noise NONE 0, LOW 1, HIGH 2.       *)
(*                                                                         *)
(* The library is external.  Its getters, called with the id of a selected *)
(* stream, only read; its setters may fail, and the loop ignores that.     *)
(***************************************************************************)
EXTENDS Integers, FiniteSets

CONSTANTS
  Stream,           \* ids of the selected streams (bits of stream_selection)
  MotionValue,      \* values motion_value[i] can take
  NoiseValue,       \* values noise_value[i] can take
  MotionThreshold,  \* g_threshold.motion_low, _mid, _high
  NoiseThreshold,   \* g_threshold.noise_low, _high
  MotionDelay,      \* g_delay.motion_none .. motion_high, by band
  NoiseDelay        \* g_delay.noise_none .. noise_high, by band

MotionLevel == 0 .. 3
NoiseLevel  == 0 .. 2

MOTION_NONE == 0
MOTION_LOW  == 1
MOTION_HIGH == 3
NOISE_NONE  == 0
NOISE_LOW   == 1

ASSUME LevelsAssumption ==
  /\ Stream \subseteq Nat
  /\ MotionValue \subseteq Nat /\ NoiseValue \subseteq Nat
  /\ MotionThreshold \in [1 .. 3 -> Nat]
  /\ NoiseThreshold \in [1 .. 2 -> Nat]
  /\ MotionDelay \in [MotionLevel -> Nat]
  /\ NoiseDelay \in [NoiseLevel -> Nat]

VARIABLES
  motion_value,  \* globals: the last measured values of each stream
  noise_value,
  i_motion,      \* locals of the loop: frames counted per band
  i_light,
  motion_level,  \* locals of the loop: the levels decided
  noise_level,
  lib_motion,    \* the levels the library holds
  lib_noise

vars == <<motion_value, noise_value, i_motion, i_light,
          motion_level, noise_level, lib_motion, lib_noise>>

-----------------------------------------------------------------------------
(* The classifier, one frame of one stream.                                *)

\* The band of a motion value: the if / else if chain over g_threshold.
MotionBand(v) ==
  IF v < MotionThreshold[1] THEN 0
  ELSE IF v < MotionThreshold[2] THEN 1
  ELSE IF v < MotionThreshold[3] THEN 2 ELSE 3

\* The band of a noise value.
NoiseBand(v) ==
  IF v < NoiseThreshold[1] THEN 0
  ELSE IF v < NoiseThreshold[2] THEN 1 ELSE 2

\* Mutant of Fires: one frame too many.
FiresLate(cnt, b, delay) == cnt[b] + 1 > delay[b]

\* One more frame of band b completes a run of delay[b] frames.
Fires(cnt, b, delay) == cnt[b] + 1 >= delay[b]

\* Mutants of Counted: the other counters are not cleared; the counter of a
\* complete run is not cleared.
CountedBesideOthers(cnt, b, delay) ==
  [cnt EXCEPT ![b] = IF Fires(cnt, b, delay) THEN 0 ELSE @ + 1]

CountedOn(cnt, b, delay) ==
  [k \in DOMAIN cnt |-> IF k = b THEN cnt[k] + 1 ELSE 0]

\* The branch of band b: its counter grows, or starts over when the run is
\* complete; the counters of all other bands are cleared.
Counted(cnt, b, delay) ==
  [k \in DOMAIN cnt |->
     IF k = b /\ ~ Fires(cnt, b, delay) THEN cnt[k] + 1 ELSE 0]

\* Mutants of MotionTarget: no floor; straight to NONE.
MotionTargetNoFloor(b, l) == IF b # 0 THEN b ELSE l - 1
MotionTargetAtOnce(b, l)  == b

\* A complete run of quiet frames lowers the motion level by one step; a
\* complete run of any other band sets its level at once.
MotionTarget(b, l) ==
  IF b # 0 THEN b ELSE IF l > MOTION_NONE THEN l - 1 ELSE MOTION_NONE

\* The noise level has no steps: a complete run sets the level of its band.
NoiseTarget(b, l) == b

NextMotionLevel(s, v) ==
  LET b == MotionBand(v)
  IN  IF Fires(i_motion[s], b, MotionDelay)
      THEN MotionTarget(b, motion_level[s]) ELSE motion_level[s]

NextNoiseLevel(s, v) ==
  LET b == NoiseBand(v)
  IN  IF Fires(i_light[s], b, NoiseDelay)
      THEN NoiseTarget(b, noise_level[s]) ELSE noise_level[s]

-----------------------------------------------------------------------------

\* smartrc_mainloop starts with motion_level[] = {MOTION_LOW} and
\* noise_level[] = {NOISE_LOW}: element 0 is LOW and every other element is
\* zero, which is NONE.  The library holds whatever init_smartrc_lib left.
Init ==
  /\ motion_value = [s \in Stream |-> 0]
  /\ noise_value = [s \in Stream |-> 0]
  /\ i_motion = [s \in Stream |-> [b \in MotionLevel |-> 0]]
  /\ i_light = [s \in Stream |-> [b \in NoiseLevel |-> 0]]
  /\ motion_level = [s \in Stream |-> IF s = 0 THEN MOTION_LOW ELSE MOTION_NONE]
  /\ noise_level = [s \in Stream |-> IF s = 0 THEN NOISE_LOW ELSE NOISE_NONE]
  /\ lib_motion \in [Stream -> MotionLevel]
  /\ lib_noise \in [Stream -> NoiseLevel]

\* Mutant of Frame: a level goes to the library when it changes, and not when
\* it differs from the level read back.
FrameOnChange(s, mv, nv, okM, okN) ==
  LET m == NextMotionLevel(s, mv)
      n == NextNoiseLevel(s, nv)
  IN  /\ motion_value' = [motion_value EXCEPT ![s] = mv]
      /\ noise_value' = [noise_value EXCEPT ![s] = nv]
      /\ i_motion' = [i_motion EXCEPT ![s] = Counted(@, MotionBand(mv), MotionDelay)]
      /\ i_light' = [i_light EXCEPT ![s] = Counted(@, NoiseBand(nv), NoiseDelay)]
      /\ motion_level' = [motion_level EXCEPT ![s] = m]
      /\ noise_level' = [noise_level EXCEPT ![s] = n]
      /\ lib_motion' = [lib_motion EXCEPT ![s] =
                          IF okM /\ m # motion_level[s] THEN m ELSE @]
      /\ lib_noise' = [lib_noise EXCEPT ![s] =
                         IF okN /\ n # noise_level[s] THEN n ELSE @]

\* One iteration of the inner loop for stream s that measured motion mv and
\* noise nv.  okM and okN say whether the library accepts a changed level;
\* when it does not, the next frame finds the same difference and tries again.
Frame(s, mv, nv, okM, okN) ==
  /\ motion_value' = [motion_value EXCEPT ![s] = mv]
  /\ noise_value' = [noise_value EXCEPT ![s] = nv]
  /\ i_motion' = [i_motion EXCEPT ![s] = Counted(@, MotionBand(mv), MotionDelay)]
  /\ i_light' = [i_light EXCEPT ![s] = Counted(@, NoiseBand(nv), NoiseDelay)]
  /\ motion_level' = [motion_level EXCEPT ![s] = NextMotionLevel(s, mv)]
  /\ noise_level' = [noise_level EXCEPT ![s] = NextNoiseLevel(s, nv)]
  /\ lib_motion' = [lib_motion EXCEPT ![s] = IF okM THEN NextMotionLevel(s, mv) ELSE @]
  /\ lib_noise' = [lib_noise EXCEPT ![s] = IF okN THEN NextNoiseLevel(s, nv) ELSE @]

Next ==
  \E s \in Stream, mv \in MotionValue, nv \in NoiseValue, okM, okN \in BOOLEAN :
    Frame(s, mv, nv, okM, okN)

\* A frame that measures what the last one measured and reaches the library.
Repeat(s) == Frame(s, motion_value[s], noise_value[s], TRUE, TRUE)

\* The encoder keeps delivering frames, and a setter does not fail for ever.
Fairness == \A s \in Stream : SF_vars(Repeat(s))

Spec == Init /\ [][Next]_vars
FairSpec == Spec /\ Fairness

-----------------------------------------------------------------------------
(* Properties.                                                             *)

TypeOK ==
  /\ motion_value \in [Stream -> Nat]
  /\ noise_value \in [Stream -> Nat]
  /\ i_motion \in [Stream -> [MotionLevel -> Nat]]
  /\ i_light \in [Stream -> [NoiseLevel -> Nat]]
  /\ motion_level \in [Stream -> MotionLevel]
  /\ noise_level \in [Stream -> NoiseLevel]
  /\ lib_motion \in [Stream -> MotionLevel]
  /\ lib_noise \in [Stream -> NoiseLevel]

\* A stream counts towards one level at a time.
AtMostOneRun(cnt) == \A a, b \in DOMAIN cnt : cnt[a] > 0 /\ cnt[b] > 0 => a = b

\* No counter is left standing at its delay.
BelowDelay(cnt, delay) == \A b \in DOMAIN cnt : cnt[b] > 0 => cnt[b] < delay[b]

\* The counters of a stream never count towards two levels at once, and a
\* counter never stands at its delay between frames (every branch of lines
\* 1816-1887 clears the other counters and its own when it fires).  Were it
\* false, a level could be reached by frames that were not in a row.
SingleRun ==
  \A s \in Stream :
    /\ AtMostOneRun(i_motion[s]) /\ BelowDelay(i_motion[s], MotionDelay)
    /\ AtMostOneRun(i_light[s]) /\ BelowDelay(i_light[s], NoiseDelay)

\* The scene is called still only by way of LOW: from HIGH or MID the motion
\* level never drops to NONE in one frame (the cascade of lines 1822-1828).
NoLeapToNone ==
  [][\A s \in Stream :
       motion_level'[s] = MOTION_NONE => motion_level[s] <= MOTION_LOW]_vars

\* When the scene of a stream stays in one motion band and one noise band,
\* the levels decided for it and the levels the library holds settle at those
\* bands, however often a setter failed on the way (the comparison with the
\* level read back, lines 1919-1926, is the retry).
Settles ==
  \A s \in Stream : \A b \in MotionLevel, n \in NoiseLevel :
    <>[](MotionBand(motion_value[s]) = b /\ NoiseBand(noise_value[s]) = n)
      => <>[](/\ motion_level[s] = b /\ lib_motion[s] = b
              /\ noise_level[s] = n /\ lib_noise[s] = n)

-----------------------------------------------------------------------------
(* The specification implements LevelDebounce, once for motion and once    *)
(* for noise.                                                              *)

\* The one band being counted, and how far.
StreakOf(cnt) ==
  IF \A b \in DOMAIN cnt : cnt[b] = 0 THEN [band |-> 0, run |-> 0]
  ELSE LET b == CHOOSE k \in DOMAIN cnt : cnt[k] > 0
       IN  [band |-> b, run |-> cnt[b]]

MotionDebounce == INSTANCE LevelDebounce WITH
  Band <- MotionLevel, Level <- MotionLevel, Delay <- MotionDelay,
  Target <- [b \in MotionLevel |-> [l \in MotionLevel |-> MotionTarget(b, l)]],
  FirstLevel <- [s \in Stream |-> IF s = 0 THEN MOTION_LOW ELSE MOTION_NONE],
  level <- motion_level,
  streak <- [s \in Stream |-> StreakOf(i_motion[s])]

NoiseDebounce == INSTANCE LevelDebounce WITH
  Band <- NoiseLevel, Level <- NoiseLevel, Delay <- NoiseDelay,
  Target <- [b \in NoiseLevel |-> [l \in NoiseLevel |-> NoiseTarget(b, l)]],
  FirstLevel <- [s \in Stream |-> IF s = 0 THEN NOISE_LOW ELSE NOISE_NONE],
  level <- noise_level,
  streak <- [s \in Stream |-> StreakOf(i_light[s])]

\* The motion level of a stream moves only after MotionDelay[b] frames of
\* band b in a row, and to the level the code's cascade prescribes.
MotionDebounced == MotionDebounce!Spec

\* The same for the noise level.
NoiseDebounced == NoiseDebounce!Spec
=============================================================================
