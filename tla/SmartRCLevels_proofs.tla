----------------------- MODULE SmartRCLevels_proofs ------------------------
(***************************************************************************)
(* Theorems about SmartRCLevels, for every set of streams, every measured  *)
(* value, every table of thresholds and every table of delays.             *)
(***************************************************************************)
EXTENDS SmartRCLevels, TLAPS

-----------------------------------------------------------------------------
(* The operators of the classifier.                                        *)

\* Whatever is measured falls into a band.
LEMMA BandType ==
  \A v \in Nat : MotionBand(v) \in MotionLevel /\ NoiseBand(v) \in NoiseLevel
BY LevelsAssumption DEF MotionBand, NoiseBand, MotionLevel, NoiseLevel

\* The cascade stays within the motion levels.
LEMMA MotionTargetType ==
  \A b, l \in MotionLevel : MotionTarget(b, l) \in MotionLevel
BY DEF MotionTarget, MotionLevel, MOTION_NONE

\* Counting keeps the counters natural, and leaves the counter of the frame's
\* band, below its delay, as the only one that can be nonzero (the branches
\* of lines 1816-1861 and 1863-1887).
LEMMA CountedRun ==
  ASSUME NEW B, NEW cnt \in [B -> Nat], NEW b \in B, NEW delay \in [B -> Nat]
  PROVE  /\ Counted(cnt, b, delay) \in [B -> Nat]
         /\ \A k \in B : k # b => Counted(cnt, b, delay)[k] = 0
         /\ Counted(cnt, b, delay)[b] =
              IF Fires(cnt, b, delay) THEN 0 ELSE cnt[b] + 1
         /\ AtMostOneRun(Counted(cnt, b, delay))
         /\ BelowDelay(Counted(cnt, b, delay), delay)
<1>1. DOMAIN Counted(cnt, b, delay) = B
  BY DEF Counted
<1>2. Counted(cnt, b, delay) \in [B -> Nat]
  BY DEF Counted
<1>3. \A k \in B : k # b => Counted(cnt, b, delay)[k] = 0
  BY DEF Counted
<1>4. Counted(cnt, b, delay)[b] = IF Fires(cnt, b, delay) THEN 0 ELSE cnt[b] + 1
  BY DEF Counted
<1>5. AtMostOneRun(Counted(cnt, b, delay))
  BY <1>1, <1>3 DEF AtMostOneRun
<1>6. BelowDelay(Counted(cnt, b, delay), delay)
  <2>1. SUFFICES ASSUME NEW k \in B, Counted(cnt, b, delay)[k] > 0
                 PROVE  Counted(cnt, b, delay)[k] < delay[k]
    BY <1>1 DEF BelowDelay
  <2>2. k = b /\ ~ Fires(cnt, b, delay) /\ Counted(cnt, b, delay)[k] = cnt[b] + 1
    BY <1>3, <1>4, <2>1
  <2>3. QED BY <2>2 DEF Fires
<1>7. QED BY <1>2, <1>3, <1>4, <1>5, <1>6

-----------------------------------------------------------------------------
(* Type correctness.                                                       *)

\* Every variable keeps its type: in particular a level is always one of the
\* library's levels, whatever the thresholds and delays are.
THEOREM TypeCorrect == Spec => []TypeOK
<1>1. Init => TypeOK
  BY DEF Init, TypeOK, MotionLevel, NoiseLevel, MOTION_LOW, MOTION_NONE,
         NOISE_LOW, NOISE_NONE
<1>2. TypeOK /\ [Next]_vars => TypeOK'
  <2> SUFFICES ASSUME TypeOK, [Next]_vars PROVE TypeOK'
    OBVIOUS
  <2>1. ASSUME NEW s \in Stream, NEW mv \in MotionValue, NEW nv \in NoiseValue,
               NEW okM \in BOOLEAN, NEW okN \in BOOLEAN,
               Frame(s, mv, nv, okM, okN)
        PROVE  TypeOK'
    <3>1. mv \in Nat /\ nv \in Nat
      BY LevelsAssumption
    <3>2. MotionBand(mv) \in MotionLevel /\ NoiseBand(nv) \in NoiseLevel
      BY <3>1, BandType
    <3>3. motion_value' \in [Stream -> Nat] /\ noise_value' \in [Stream -> Nat]
      BY <2>1, <3>1 DEF Frame, TypeOK
    <3>4. i_motion' \in [Stream -> [MotionLevel -> Nat]]
      <4>1. Counted(i_motion[s], MotionBand(mv), MotionDelay) \in [MotionLevel -> Nat]
        BY <3>2, CountedRun, LevelsAssumption DEF TypeOK
      <4>2. QED BY <2>1, <4>1 DEF Frame, TypeOK
    <3>5. i_light' \in [Stream -> [NoiseLevel -> Nat]]
      <4>1. Counted(i_light[s], NoiseBand(nv), NoiseDelay) \in [NoiseLevel -> Nat]
        BY <3>2, CountedRun, LevelsAssumption DEF TypeOK
      <4>2. QED BY <2>1, <4>1 DEF Frame, TypeOK
    <3>6. NextMotionLevel(s, mv) \in MotionLevel
      BY <3>2, MotionTargetType DEF NextMotionLevel, TypeOK
    <3>7. NextNoiseLevel(s, nv) \in NoiseLevel
      BY <3>2 DEF NextNoiseLevel, NoiseTarget, TypeOK
    <3>8. motion_level' \in [Stream -> MotionLevel] /\ lib_motion' \in [Stream -> MotionLevel]
      BY <2>1, <3>6 DEF Frame, TypeOK
    <3>9. noise_level' \in [Stream -> NoiseLevel] /\ lib_noise' \in [Stream -> NoiseLevel]
      BY <2>1, <3>7 DEF Frame, TypeOK
    <3>10. QED BY <3>3, <3>4, <3>5, <3>8, <3>9 DEF TypeOK
  <2>2. CASE UNCHANGED vars
    BY <2>2 DEF vars, TypeOK
  <2>3. QED BY <2>1, <2>2 DEF Next
<1>3. QED BY <1>1, <1>2, PTL DEF Spec

-----------------------------------------------------------------------------
(* One run at a time.                                                      *)

\* A stream never counts towards two levels at once and no counter is left at
\* its delay.
THEOREM SingleRunHolds == Spec => []SingleRun
<1>1. Init => SingleRun
  BY DEF Init, SingleRun, AtMostOneRun, BelowDelay
<1>2. TypeOK /\ SingleRun /\ [Next]_vars => SingleRun'
  <2> SUFFICES ASSUME TypeOK, SingleRun, [Next]_vars PROVE SingleRun'
    OBVIOUS
  <2>1. ASSUME NEW s \in Stream, NEW mv \in MotionValue, NEW nv \in NoiseValue,
               NEW okM \in BOOLEAN, NEW okN \in BOOLEAN,
               Frame(s, mv, nv, okM, okN)
        PROVE  SingleRun'
    <3>1. MotionBand(mv) \in MotionLevel /\ NoiseBand(nv) \in NoiseLevel
      BY LevelsAssumption, BandType
    <3>2. SUFFICES ASSUME NEW t \in Stream
                   PROVE  /\ AtMostOneRun(i_motion'[t])
                          /\ BelowDelay(i_motion'[t], MotionDelay)
                          /\ AtMostOneRun(i_light'[t])
                          /\ BelowDelay(i_light'[t], NoiseDelay)
      BY DEF SingleRun
    <3>3. CASE t = s
      <4>1. /\ i_motion'[t] = Counted(i_motion[s], MotionBand(mv), MotionDelay)
            /\ i_light'[t] = Counted(i_light[s], NoiseBand(nv), NoiseDelay)
        BY <2>1, <3>3 DEF Frame, TypeOK
      <4>2. /\ AtMostOneRun(i_motion'[t]) /\ BelowDelay(i_motion'[t], MotionDelay)
        BY <3>1, <4>1, CountedRun, LevelsAssumption DEF TypeOK
      <4>3. /\ AtMostOneRun(i_light'[t]) /\ BelowDelay(i_light'[t], NoiseDelay)
        BY <3>1, <4>1, CountedRun, LevelsAssumption DEF TypeOK
      <4>4. QED BY <4>2, <4>3
    <3>4. CASE t # s
      <4>1. i_motion'[t] = i_motion[t] /\ i_light'[t] = i_light[t]
        BY <2>1, <3>4 DEF Frame, TypeOK
      <4>2. QED BY <4>1 DEF SingleRun
    <3>5. QED BY <3>3, <3>4
  <2>2. CASE UNCHANGED vars
    BY <2>2 DEF vars, SingleRun
  <2>3. QED BY <2>1, <2>2 DEF Next
<1>3. QED BY <1>1, <1>2, TypeCorrect, PTL DEF Spec

-----------------------------------------------------------------------------
(* How a level may move.                                                   *)

\* No frame takes a stream from HIGH or MID straight to NONE.
THEOREM NoLeapHolds == Spec => NoLeapToNone
<1>1. TypeOK /\ [Next]_vars =>
        [\A s \in Stream :
           motion_level'[s] = MOTION_NONE => motion_level[s] <= MOTION_LOW]_vars
  <2> SUFFICES ASSUME TypeOK, Next, NEW t \in Stream,
                      motion_level'[t] = MOTION_NONE
               PROVE  motion_level[t] <= MOTION_LOW
    OBVIOUS
  <2>1. PICK s \in Stream, mv \in MotionValue, nv \in NoiseValue,
             okM \in BOOLEAN, okN \in BOOLEAN : Frame(s, mv, nv, okM, okN)
    BY DEF Next
  <2>2. motion_level'[t] = IF t = s THEN NextMotionLevel(s, mv) ELSE motion_level[t]
    BY <2>1 DEF Frame, TypeOK
  <2>3. motion_level[t] \in 0 .. 3
    BY DEF TypeOK, MotionLevel
  <2>4. NextMotionLevel(s, mv) = motion_level[s]
          \/ NextMotionLevel(s, mv) = MotionTarget(MotionBand(mv), motion_level[s])
    BY DEF NextMotionLevel
  <2>5. QED BY <2>2, <2>3, <2>4 DEF MotionTarget, MOTION_NONE, MOTION_LOW
<1>2. QED BY <1>1, TypeCorrect, PTL DEF Spec, NoLeapToNone

-----------------------------------------------------------------------------
(* The classifiers implement LevelDebounce.                                *)

\* With one run at a time, the run length LevelDebounce keeps is the counter
\* of the band, and a frame of band b takes it where the code takes the
\* counters.
LEMMA StreakStep ==
  ASSUME NEW B, 0 \in B, NEW cnt \in [B -> Nat], NEW b \in B,
         NEW delay \in [B -> Nat], AtMostOneRun(cnt)
  PROVE  /\ (IF StreakOf(cnt).band = b THEN StreakOf(cnt).run + 1 ELSE 1) = cnt[b] + 1
         /\ StreakOf(Counted(cnt, b, delay)) =
              IF Fires(cnt, b, delay) THEN [band |-> 0, run |-> 0]
              ELSE [band |-> b, run |-> cnt[b] + 1]
<1>1. (IF StreakOf(cnt).band = b THEN StreakOf(cnt).run + 1 ELSE 1) = cnt[b] + 1
  <2>1. CASE \A k \in B : cnt[k] = 0
    <3>1. StreakOf(cnt) = [band |-> 0, run |-> 0]
      BY <2>1 DEF StreakOf
    <3>2. QED BY <2>1, <3>1
  <2>2. CASE \E k \in B : cnt[k] # 0
    <3>1. PICK k \in B : cnt[k] > 0
      BY <2>2
    <3>2. \A j \in B : cnt[j] > 0 => j = k
      BY <3>1 DEF AtMostOneRun
    <3>3. (CHOOSE j \in DOMAIN cnt : cnt[j] > 0) = k
      BY <3>1, <3>2
    <3>4. ~ \A j \in DOMAIN cnt : cnt[j] = 0
      BY <3>1
    <3>5. StreakOf(cnt) = [band |-> k, run |-> cnt[k]]
      BY <3>3, <3>4 DEF StreakOf
    <3>6. b # k => cnt[b] = 0
      BY <3>2
    <3>7. QED BY <3>5, <3>6
  <2>3. QED BY <2>1, <2>2
<1>2. StreakOf(Counted(cnt, b, delay)) =
        IF Fires(cnt, b, delay) THEN [band |-> 0, run |-> 0]
        ELSE [band |-> b, run |-> cnt[b] + 1]
  <2> DEFINE new == Counted(cnt, b, delay)
  <2>1. /\ new \in [B -> Nat]
        /\ \A k \in B : k # b => new[k] = 0
        /\ new[b] = IF Fires(cnt, b, delay) THEN 0 ELSE cnt[b] + 1
    BY CountedRun
  <2> HIDE DEF new
  <2>2. CASE Fires(cnt, b, delay)
    <3>1. DOMAIN new = B /\ \A k \in B : new[k] = 0
      BY <2>1, <2>2
    <3>2. StreakOf(new) = [band |-> 0, run |-> 0]
      BY <3>1 DEF StreakOf
    <3>3. QED BY <2>2, <3>2 DEF new
  <2>3. CASE ~ Fires(cnt, b, delay)
    <3>1. new[b] > 0 /\ new[b] = cnt[b] + 1
      BY <2>1, <2>3
    <3>2. (CHOOSE j \in DOMAIN new : new[j] > 0) = b
      BY <2>1, <3>1
    <3>3. StreakOf(new) = [band |-> b, run |-> cnt[b] + 1]
      BY <2>1, <3>1, <3>2 DEF StreakOf
    <3>4. QED BY <2>3, <3>3 DEF new
  <2>4. QED BY <2>2, <2>3 DEF new
<1>3. QED BY <1>1, <1>2

\* The motion classifier moves a level only after a full run of frames of one
\* band, and to the level the cascade prescribes.
THEOREM MotionRefinement == Spec => MotionDebounced
<1>1. Init => MotionDebounce!Init
  BY DEF Init, MotionDebounce!Init, MotionDebounce!NoStreak, StreakOf
<1>2. TypeOK /\ SingleRun /\ [Next]_vars => [MotionDebounce!Next]_(MotionDebounce!vars)
  <2> SUFFICES ASSUME TypeOK, SingleRun, [Next]_vars
               PROVE  [MotionDebounce!Next]_(MotionDebounce!vars)
    OBVIOUS
  <2>1. ASSUME NEW s \in Stream, NEW mv \in MotionValue, NEW nv \in NoiseValue,
               NEW okM \in BOOLEAN, NEW okN \in BOOLEAN,
               Frame(s, mv, nv, okM, okN)
        PROVE  MotionDebounce!Next
    <3> DEFINE b == MotionBand(mv)
               streak == [t \in Stream |-> StreakOf(i_motion[t])]
               streakNext == [t \in Stream |-> StreakOf(i_motion'[t])]
    <3>1. b \in MotionLevel /\ 0 \in MotionLevel
      BY LevelsAssumption, BandType DEF MotionLevel
    <3>2. /\ i_motion' = [i_motion EXCEPT ![s] = Counted(i_motion[s], b, MotionDelay)]
          /\ motion_level' = [motion_level EXCEPT ![s] = NextMotionLevel(s, mv)]
      BY <2>1 DEF Frame
    <3>3. /\ i_motion[s] \in [MotionLevel -> Nat]
          /\ motion_level[s] \in MotionLevel
          /\ AtMostOneRun(i_motion[s])
      BY DEF TypeOK, SingleRun
    <3>4. /\ MotionDebounce!RunWith(s, b) = i_motion[s][b] + 1
          /\ StreakOf(i_motion'[s]) =
               IF Fires(i_motion[s], b, MotionDelay) THEN MotionDebounce!NoStreak
               ELSE [band |-> b, run |-> i_motion[s][b] + 1]
      <4>1. i_motion'[s] = Counted(i_motion[s], b, MotionDelay)
        BY <3>2 DEF TypeOK
      <4>2. QED BY <3>1, <3>3, <4>1, StreakStep, LevelsAssumption
                DEF MotionDebounce!RunWith, MotionDebounce!NoStreak
    <3>5. \A t \in Stream : t # s => StreakOf(i_motion'[t]) = StreakOf(i_motion[t])
      BY <3>2 DEF TypeOK
    <3>6. streakNext = [streak EXCEPT ![s] = StreakOf(i_motion'[s])]
      BY <3>5
    <3>7. CASE Fires(i_motion[s], b, MotionDelay)
      <4>1. MotionDebounce!RunWith(s, b) >= MotionDelay[b]
        BY <3>4, <3>7 DEF Fires
      <4>2. motion_level' = [motion_level EXCEPT ![s] =
              [c \in MotionLevel |-> [l \in MotionLevel |-> MotionTarget(c, l)]][b][motion_level[s]]]
        BY <3>1, <3>2, <3>3, <3>7 DEF NextMotionLevel
      <4>3. MotionDebounce!Move(s, b)
        BY <3>4, <3>6, <3>7, <4>1, <4>2 DEF MotionDebounce!Move
      <4>4. QED BY <3>1, <4>3 DEF MotionDebounce!Next
    <3>8. CASE ~ Fires(i_motion[s], b, MotionDelay)
      <4>1. MotionDebounce!RunWith(s, b) < MotionDelay[b]
        BY <3>1, <3>3, <3>4, <3>8, LevelsAssumption DEF Fires
      <4>2. motion_level' = motion_level
        BY <3>2, <3>8 DEF NextMotionLevel, TypeOK
      <4>3. MotionDebounce!Count(s, b)
        BY <3>4, <3>6, <3>8, <4>1, <4>2 DEF MotionDebounce!Count
      <4>4. QED BY <3>1, <4>3 DEF MotionDebounce!Next
    <3>9. QED BY <3>7, <3>8
  <2>2. CASE UNCHANGED vars
    BY <2>2 DEF vars, MotionDebounce!vars
  <2>3. QED BY <2>1, <2>2 DEF Next
<1>3. QED BY <1>1, <1>2, TypeCorrect, SingleRunHolds, PTL
          DEF Spec, MotionDebounced, MotionDebounce!Spec

\* The noise classifier, which has no cascade, does so too.
THEOREM NoiseRefinement == Spec => NoiseDebounced
<1>1. Init => NoiseDebounce!Init
  BY DEF Init, NoiseDebounce!Init, NoiseDebounce!NoStreak, StreakOf
<1>2. TypeOK /\ SingleRun /\ [Next]_vars => [NoiseDebounce!Next]_(NoiseDebounce!vars)
  <2> SUFFICES ASSUME TypeOK, SingleRun, [Next]_vars
               PROVE  [NoiseDebounce!Next]_(NoiseDebounce!vars)
    OBVIOUS
  <2>1. ASSUME NEW s \in Stream, NEW mv \in MotionValue, NEW nv \in NoiseValue,
               NEW okM \in BOOLEAN, NEW okN \in BOOLEAN,
               Frame(s, mv, nv, okM, okN)
        PROVE  NoiseDebounce!Next
    <3> DEFINE b == NoiseBand(nv)
               streak == [t \in Stream |-> StreakOf(i_light[t])]
               streakNext == [t \in Stream |-> StreakOf(i_light'[t])]
    <3>1. b \in NoiseLevel /\ 0 \in NoiseLevel
      BY LevelsAssumption, BandType DEF NoiseLevel
    <3>2. /\ i_light' = [i_light EXCEPT ![s] = Counted(i_light[s], b, NoiseDelay)]
          /\ noise_level' = [noise_level EXCEPT ![s] = NextNoiseLevel(s, nv)]
      BY <2>1 DEF Frame
    <3>3. /\ i_light[s] \in [NoiseLevel -> Nat]
          /\ noise_level[s] \in NoiseLevel
          /\ AtMostOneRun(i_light[s])
      BY DEF TypeOK, SingleRun
    <3>4. /\ NoiseDebounce!RunWith(s, b) = i_light[s][b] + 1
          /\ StreakOf(i_light'[s]) =
               IF Fires(i_light[s], b, NoiseDelay) THEN NoiseDebounce!NoStreak
               ELSE [band |-> b, run |-> i_light[s][b] + 1]
      <4>1. i_light'[s] = Counted(i_light[s], b, NoiseDelay)
        BY <3>2 DEF TypeOK
      <4>2. QED BY <3>1, <3>3, <4>1, StreakStep, LevelsAssumption
                DEF NoiseDebounce!RunWith, NoiseDebounce!NoStreak
    <3>5. \A t \in Stream : t # s => StreakOf(i_light'[t]) = StreakOf(i_light[t])
      BY <3>2 DEF TypeOK
    <3>6. streakNext = [streak EXCEPT ![s] = StreakOf(i_light'[s])]
      BY <3>5
    <3>7. CASE Fires(i_light[s], b, NoiseDelay)
      <4>1. NoiseDebounce!RunWith(s, b) >= NoiseDelay[b]
        BY <3>4, <3>7 DEF Fires
      <4>2. noise_level' = [noise_level EXCEPT ![s] =
              [c \in NoiseLevel |-> [l \in NoiseLevel |-> NoiseTarget(c, l)]][b][noise_level[s]]]
        BY <3>1, <3>2, <3>3, <3>7 DEF NextNoiseLevel
      <4>3. NoiseDebounce!Move(s, b)
        BY <3>4, <3>6, <3>7, <4>1, <4>2 DEF NoiseDebounce!Move
      <4>4. QED BY <3>1, <4>3 DEF NoiseDebounce!Next
    <3>8. CASE ~ Fires(i_light[s], b, NoiseDelay)
      <4>1. NoiseDebounce!RunWith(s, b) < NoiseDelay[b]
        BY <3>1, <3>3, <3>4, <3>8, LevelsAssumption DEF Fires
      <4>2. noise_level' = noise_level
        BY <3>2, <3>8 DEF NextNoiseLevel, TypeOK
      <4>3. NoiseDebounce!Count(s, b)
        BY <3>4, <3>6, <3>8, <4>1, <4>2 DEF NoiseDebounce!Count
      <4>4. QED BY <3>1, <4>3 DEF NoiseDebounce!Next
    <3>9. QED BY <3>7, <3>8
  <2>2. CASE UNCHANGED vars
    BY <2>2 DEF vars, NoiseDebounce!vars
  <2>3. QED BY <2>1, <2>2 DEF Next
<1>3. QED BY <1>1, <1>2, TypeCorrect, SingleRunHolds, PTL
          DEF Spec, NoiseDebounced, NoiseDebounce!Spec
=============================================================================
