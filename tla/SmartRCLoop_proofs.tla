------------------------ MODULE SmartRCLoop_proofs -------------------------
(***************************************************************************)
(* Theorems about the adaptive scenario alone and about the control        *)
(* thread: that the thread is SmartRCLevels and SmartRCAdaptive working    *)
(* side by side, and what it adds to them - one noise reading per frame,   *)
(* the pacing of ROI updates and the sync frame.                           *)
(***************************************************************************)
EXTENDS SmartRCLoop, TLAPS

-----------------------------------------------------------------------------
(* The adaptive scenario.                                                  *)

\* The range of quality is never left, in either direction.
LEMMA QualityMoves ==
  \A q \in Quality :
    /\ Raised(q) \in Quality /\ (Raised(q) = q + 1 \/ Raised(q) = q)
    /\ Returned(q) \in Quality /\ (Returned(q) = q - 1 \/ Returned(q) = q)
BY AdaptiveAssumption DEF Quality, Raised, Returned

\* The type invariant of the scenario survives the part of an iteration that
\* belongs to it.
LEMMA AdaptKeepsType ==
  ASSUME AdaptTypeOK, NEW s \in Adaptive, NEW high \in BOOLEAN, NEW d \in Elapsed,
         NEW ok \in BOOLEAN, Adapt(s, high, d, ok)
  PROVE  AdaptTypeOK'
<1>1. CountAfter(s, high) \in 0 .. Threshold
  BY AdaptiveAssumption DEF AdaptTypeOK, CountAfter, AtMost
<1>2. d \in Nat /\ StudyTime \in Nat \ {0} /\ Threshold \in Nat
  BY AdaptiveAssumption
<1>3. Raised(lib_quality[s]) \in Quality /\ Returned(lib_quality[s]) \in Quality
  BY QualityMoves DEF AdaptTypeOK
<1>4. CASE Study(s, high, d)
  BY <1>1, <1>2, <1>4 DEF Study, AgeAtTop, AdaptTypeOK
<1>5. CASE Conclude(s, high, d, ok)
  <2>1. age' \in 0 .. StudyTime /\ motion_high_cnt' \in [Adaptive -> 0 .. Threshold]
    BY <1>2, <1>5 DEF Conclude, AdaptTypeOK
  <2>2. ASSUME NEW flag \in BOOLEAN, NEW q \in Quality, Change(s, flag, q, ok)
        PROVE  /\ quality_level_flag' \in [Adaptive -> BOOLEAN]
               /\ lib_quality' \in [Adaptive -> Quality]
               /\ base_quality' \in [Adaptive -> Quality]
               /\ lost' \in [Adaptive -> BOOLEAN]
    <3>1. /\ quality_level_flag' \in [Adaptive -> BOOLEAN]
          /\ lib_quality' \in [Adaptive -> Quality]
          /\ base_quality' \in [Adaptive -> Quality]
      BY <2>2 DEF Change, AdaptTypeOK
    <3>2. lost' \in [Adaptive -> BOOLEAN]
      BY <2>2, Zenon DEF Change, AdaptTypeOK
    <3>3. QED BY <3>1, <3>2
  <2>3. \/ Change(s, TRUE, Raised(lib_quality[s]), ok)
        \/ Change(s, FALSE, Returned(lib_quality[s]), ok)
        \/ UNCHANGED <<quality_level_flag, lib_quality, base_quality, lost>>
    BY <1>5 DEF Conclude
  <2>4. QED BY <1>3, <2>1, <2>2, <2>3 DEF AdaptTypeOK
<1>6. QED BY <1>4, <1>5 DEF Adapt

\* The scenario keeps its types: in particular the library is never asked for
\* a quality outside its range.
THEOREM AdaptTypeCorrect == AdaptSpec => []AdaptTypeOK
<1>1. AdaptInit => AdaptTypeOK
  BY AdaptiveAssumption DEF AdaptInit, AdaptTypeOK
<1>2. AdaptTypeOK /\ [AdaptNext]_adapt_vars => AdaptTypeOK'
  <2> SUFFICES ASSUME AdaptTypeOK, [AdaptNext]_adapt_vars PROVE AdaptTypeOK'
    OBVIOUS
  <2>1. CASE Tick
    BY <2>1, AdaptiveAssumption DEF Tick, AdaptTypeOK
  <2>2. ASSUME NEW s \in Adaptive, NEW high \in BOOLEAN, NEW d \in Elapsed,
               NEW ok \in BOOLEAN, Adapt(s, high, d, ok)
        PROVE  AdaptTypeOK'
    BY <2>2, AdaptKeepsType
  <2>3. CASE UNCHANGED adapt_vars
    BY <2>3 DEF adapt_vars, AdaptTypeOK
  <2>4. QED BY <2>1, <2>2, <2>3 DEF AdaptNext
<1>3. QED BY <1>1, <1>2, PTL DEF AdaptSpec

\* What is borrowed of the quality is given back, as long as the library took
\* every change: the invariant is inductive beside the types.
THEOREM BorrowedAlways == AdaptSpec => []QualityBorrowed
<1>1. AdaptInit => QualityBorrowed
  BY DEF AdaptInit, QualityBorrowed, Quality
<1>2. AdaptTypeOK /\ QualityBorrowed /\ [AdaptNext]_adapt_vars => QualityBorrowed'
  <2> SUFFICES ASSUME AdaptTypeOK, QualityBorrowed, [AdaptNext]_adapt_vars
               PROVE  QualityBorrowed'
    OBVIOUS
  <2>1. ASSUME UNCHANGED <<quality_level_flag, lib_quality, base_quality, lost>>
        PROVE  QualityBorrowed'
    BY <2>1 DEF QualityBorrowed
  <2>2. ASSUME NEW s \in Adaptive, NEW flag \in BOOLEAN, NEW q, NEW ok \in BOOLEAN,
               quality_level_flag[s] # flag, Change(s, flag, q, ok),
               \/ q = lib_quality[s]
               \/ q = lib_quality[s] + IF flag THEN 1 ELSE -1
        PROVE  QualityBorrowed'
    <3>1. SUFFICES ASSUME NEW t \in Adaptive, ~ lost'[t]
                   PROVE  lib_quality'[t] =
                            base_quality'[t] + IF quality_level_flag'[t] THEN 1 ELSE 0
      BY DEF QualityBorrowed
    <3>2. base_quality'[t] = base_quality[t]
      BY <2>2 DEF Change
    <3>3. CASE t = s
      <4>1. /\ lost'[s] = (lost[s] \/ lib_quality'[s] = lib_quality[s])
            /\ lib_quality'[s] = IF ok THEN q ELSE lib_quality[s]
            /\ quality_level_flag'[s] = flag
        BY <2>2 DEF Change, AdaptTypeOK
      <4>2. ~ lost[s] /\ lib_quality'[s] # lib_quality[s]
        BY <3>1, <3>3, <4>1
      <4>3. lib_quality'[s] = lib_quality[s] + IF flag THEN 1 ELSE -1
        BY <2>2, <4>1, <4>2
      <4>4. lib_quality[s] = base_quality[s] + IF quality_level_flag[s] THEN 1 ELSE 0
        BY <4>2 DEF QualityBorrowed
      <4>5. lib_quality[s] \in Int /\ base_quality[s] \in Int
        BY DEF AdaptTypeOK, Quality
      <4>6. quality_level_flag[s] = ~ flag
        BY <2>2 DEF AdaptTypeOK
      <4>7. CASE flag
        <5>1. lib_quality'[s] = lib_quality[s] + 1 /\ lib_quality[s] = base_quality[s] + 0
          BY <4>3, <4>4, <4>6, <4>7
        <5>2. QED BY <3>2, <3>3, <4>1, <4>5, <4>7, <5>1
      <4>8. CASE ~ flag
        <5>1. lib_quality'[s] = lib_quality[s] - 1 /\ lib_quality[s] = base_quality[s] + 1
          BY <4>3, <4>4, <4>5, <4>6, <4>8
        <5>2. QED BY <3>2, <3>3, <4>1, <4>5, <4>8, <5>1
      <4>9. QED BY <4>7, <4>8
    <3>4. CASE t # s
      <4>1. /\ lost'[t] = lost[t] /\ lib_quality'[t] = lib_quality[t]
            /\ quality_level_flag'[t] = quality_level_flag[t]
        BY <2>2, <3>4 DEF Change, AdaptTypeOK
      <4>2. QED BY <3>1, <3>2, <4>1 DEF QualityBorrowed
    <3>5. QED BY <3>3, <3>4
  <2>3. ASSUME NEW s \in Adaptive, NEW high \in BOOLEAN, NEW d \in Elapsed,
               NEW ok \in BOOLEAN, Conclude(s, high, d, ok)
        PROVE  QualityBorrowed'
    <3>1. lib_quality[s] \in Quality /\ quality_level_flag[s] \in BOOLEAN
      BY DEF AdaptTypeOK
    <3>2. /\ Raised(lib_quality[s]) \in {lib_quality[s] + 1, lib_quality[s]}
          /\ Returned(lib_quality[s]) \in {lib_quality[s] + -1, lib_quality[s]}
      BY <3>1, QualityMoves DEF Quality
    <3>3. CASE ~ quality_level_flag[s] /\ Change(s, TRUE, Raised(lib_quality[s]), ok)
      BY <2>2, <3>2, <3>3
    <3>4. CASE quality_level_flag[s] /\ Change(s, FALSE, Returned(lib_quality[s]), ok)
      BY <2>2, <3>2, <3>4
    <3>5. QED BY <2>1, <2>3, <3>3, <3>4 DEF Conclude
  <2>4. CASE Tick
    BY <2>1, <2>4 DEF Tick
  <2>5. ASSUME NEW s \in Adaptive, NEW high \in BOOLEAN, NEW d \in Elapsed,
               NEW ok \in BOOLEAN, Adapt(s, high, d, ok)
        PROVE  QualityBorrowed'
    BY <2>1, <2>3, <2>5 DEF Adapt, Study
  <2>6. CASE UNCHANGED adapt_vars
    BY <2>1, <2>6 DEF adapt_vars
  <2>7. QED BY <2>4, <2>5, <2>6 DEF AdaptNext
<1>3. QED BY <1>1, <1>2, AdaptTypeCorrect, PTL DEF AdaptSpec

-----------------------------------------------------------------------------
(* The control thread is the two specifications at once: whatever it adds, *)
(* each of its steps is a step of either or leaves its variables alone.    *)

\* The scenario moves only by whole frames of an adaptive stream and by the
\* clock: what is proved of AdaptSpec holds in the thread.
THEOREM LoopIsAdaptive == Spec => AdaptSpec
<1>1. Init => AdaptInit
  BY DEF Init
<1>2. [Next]_vars => [AdaptNext]_adapt_vars
  <2> SUFFICES ASSUME [Next]_vars PROVE AdaptNext \/ UNCHANGED adapt_vars
    OBVIOUS
  <2>1. CASE \E nv \in NoiseValue : NextFrame(nv)
    BY <2>1 DEF NextFrame
  <2>2. CASE Iterate
    <3>1. PICK s \in Stream, mv \in MotionValue, d \in Elapsed, libQ \in BOOLEAN :
            AdaptStep(s, mv, d, libQ)
      BY <2>2 DEF Iterate, Iteration
    <3>2. HighRun(s, mv) \in BOOLEAN
      BY DEF HighRun
    <3>3. QED BY <3>1, <3>2 DEF AdaptStep, AdaptNext
  <2>3. CASE Leave \/ SyncFrame \/ RequestExit \/ Stopped \/ UNCHANGED vars
    BY <2>3 DEF Leave, SyncFrame, RequestExit, Stopped, vars
  <2>4. CASE TimePasses
    BY <2>4 DEF TimePasses, AdaptNext
  <2>5. QED BY <2>1, <2>2, <2>3, <2>4 DEF Next, Thread
<1>3. QED BY <1>1, <1>2, PTL DEF Spec, AdaptSpec

\* The quality the thread borrows is given back.
THEOREM LoopBorrows == Spec => []QualityBorrowed
BY LoopIsAdaptive, BorrowedAlways, PTL

-----------------------------------------------------------------------------
(* The order of the streams within a frame.                                *)

\* A scan finds the least selected stream at or after i, if there is one.
LEMMA FirstFromLeast ==
  ASSUME NEW i \in Nat, \E s \in Stream : s >= i
  PROVE  /\ FirstFrom(i) \in Stream
         /\ FirstFrom(i) >= i
         /\ \A t \in Stream : t >= i => FirstFrom(i) <= t
<1> DEFINE Least(s) == s >= i /\ \A t \in Stream : t >= i => s <= t
<1>1. \E s \in Stream : Least(s)
  <2>1. \A s \in Stream : s \in {0, 1, 2, 3, 4}
    <3>1. \A s \in 0 .. 4 : s \in {0, 1, 2, 3, 4}
      OBVIOUS
    <3>2. QED BY <3>1, StreamAssumption
  <2>2. CASE 0 \in Stream /\ 0 >= i
    BY <2>1, <2>2
  <2>3. CASE ~ (0 \in Stream /\ 0 >= i) /\ 1 \in Stream /\ 1 >= i
    BY <2>1, <2>3
  <2>4. CASE /\ ~ (0 \in Stream /\ 0 >= i) /\ ~ (1 \in Stream /\ 1 >= i)
             /\ 2 \in Stream /\ 2 >= i
    BY <2>1, <2>4
  <2>5. CASE /\ ~ (0 \in Stream /\ 0 >= i) /\ ~ (1 \in Stream /\ 1 >= i)
             /\ ~ (2 \in Stream /\ 2 >= i)
             /\ 3 \in Stream /\ 3 >= i
    BY <2>1, <2>5
  <2>6. CASE /\ ~ (0 \in Stream /\ 0 >= i) /\ ~ (1 \in Stream /\ 1 >= i)
             /\ ~ (2 \in Stream /\ 2 >= i) /\ ~ (3 \in Stream /\ 3 >= i)
    BY <2>1, <2>6
  <2>7. QED BY <2>2, <2>3, <2>4, <2>5, <2>6
<1>2. FirstFrom(i) = CHOOSE s \in Stream : Least(s)
  BY DEF FirstFrom
<1>3. QED BY <1>1, <1>2

\* A frame begins with a selected stream.
LEMMA FirstFromZero == FirstFrom(0) \in Stream
<1>1. \E s \in Stream : s >= 0
  <2>1. PICK s \in Stream : s \in 0 .. 4
    BY StreamAssumption
  <2>2. s >= 0
    BY <2>1
  <2>3. QED BY <2>2
<1>2. 0 \in Nat
  OBVIOUS
<1>3. QED BY <1>1, <1>2, FirstFromLeast

\* The stream after a: nothing selected lies between, and when there is none,
\* nothing selected lies behind a.
LEMMA NextStream ==
  ASSUME NEW a \in Stream
  PROVE  /\ FirstFrom(a + 1) # NoStream =>
              /\ FirstFrom(a + 1) \in Stream
              /\ \A s \in Stream : s < FirstFrom(a + 1) <=> s <= a
         /\ FirstFrom(a + 1) = NoStream => \A s \in Stream : s <= a
<1>1. a + 1 \in Nat /\ \A s \in Stream : s \in 0 .. 4
  BY StreamAssumption
<1>2. CASE \E s \in Stream : s >= a + 1
  <2>1. /\ FirstFrom(a + 1) \in Stream
        /\ FirstFrom(a + 1) >= a + 1
        /\ \A t \in Stream : t >= a + 1 => FirstFrom(a + 1) <= t
    BY <1>1, <1>2, FirstFromLeast
  <2>2. FirstFrom(a + 1) # NoStream
    BY <1>1, <2>1 DEF NoStream
  <2>3. QED BY <1>1, <2>1, <2>2
<1>3. CASE ~ \E s \in Stream : s >= a + 1
  <2>1. FirstFrom(a + 1) = NoStream
    BY <1>3 DEF FirstFrom
  <2>2. ASSUME NEW s \in Stream PROVE s <= a
    <3>1. s \in Nat /\ a \in Nat
      BY StreamAssumption
    <3>2. ~ (s >= a + 1)
      BY <1>3
    <3>3. QED BY <3>1, <3>2
  <2>3. QED BY <2>1, <2>2
<1>4. QED BY <1>2, <1>3

-----------------------------------------------------------------------------
(* One noise reading for all streams of a frame, and all of its sync frame.*)

\* While a frame is treated its noise is one the camera can read.
FrameRead == pc = "stream" => tmp \in NoiseValue /\ cur \in Stream

\* The streams before the current one have been judged on it, and at the end
\* of the frame all of them.
Judged ==
  /\ DOMAIN noise_value = Stream
  /\ pc = "stream" => \A s \in Stream : s < cur => noise_value[s] = tmp
  /\ pc = "sync" => \A s \in Stream : noise_value[s] = tmp

\* An ROI update still waiting is one of the frame being treated, and asks
\* for the sync frame; a thread that returned leaves it behind.
Waiting ==
  roi_pending # {} => pc = "done" \/ (pc \in {"stream", "sync"} /\ apply_flag)

FrameInv == FrameRead /\ Judged /\ Waiting

LEMMA FrameInvInit == Init => FrameInv
BY DEF Init, L!Init, FrameInv, FrameRead, Judged, Waiting

LEMMA IterationJudges ==
  ASSUME FrameInv, NEW s \in Stream, NEW mv \in MotionValue, NEW d \in Elapsed,
         NEW libM \in BOOLEAN, NEW libN \in BOOLEAN, NEW libQ \in BOOLEAN,
         NEW roi \in BOOLEAN, NEW dump \in BOOLEAN,
         Iteration(s, mv, d, libM, libN, libQ, roi, dump)
  PROVE  FrameInv'
<1>1. pc = "stream" /\ cur = s /\ tmp' = tmp
  BY DEF Iteration
<1>2. noise_value' = [noise_value EXCEPT ![s] = tmp]
  BY DEF Iteration, L!Frame
<1>3. /\ DOMAIN noise_value' = Stream
      /\ \A t \in Stream : t <= s => noise_value'[t] = tmp
  <2>1. DOMAIN noise_value = Stream /\ \A t \in Stream : t < s => noise_value[t] = tmp
    BY <1>1 DEF FrameInv, Judged
  <2>2. \A t \in Stream : t \in Int
    BY StreamAssumption
  <2>3. \A t \in Stream : t <= s => t < s \/ t = s
    BY <2>2
  <2>4. QED BY <1>2, <2>1, <2>3
<1>4. DumpStep(s, dump)
  BY DEF Iteration
<1> DEFINE next == FirstFrom(s + 1)
<1>5. \/ pc' = "done"
      \/ cur' = next /\ next = NoStream /\ pc' = "sync"
      \/ cur' = next /\ next # NoStream /\ pc' = "stream"
  BY <1>4 DEF DumpStep
<1>6. /\ next # NoStream =>
           next \in Stream /\ \A t \in Stream : t < next <=> t <= s
      /\ next = NoStream => \A t \in Stream : t <= s
  BY NextStream
<1> HIDE DEF next
<1>7. FrameRead' /\ Judged'
  BY <1>1, <1>3, <1>5, <1>6 DEF FrameInv, FrameRead, Judged
<1>8. Waiting'
  <2>1. RoiStep(s, roi)
    BY DEF Iteration
  <2>2. (roi_pending' = roi_pending /\ apply_flag' = apply_flag) \/ apply_flag'
    BY <2>1 DEF RoiStep, roiVars
  <2>3. pc' \in {"done", "sync", "stream"}
    BY <1>5
  <2>4. QED BY <1>1, <2>2, <2>3 DEF FrameInv, Waiting
<1>9. QED BY <1>7, <1>8 DEF FrameInv

LEMMA FrameInvStep == FrameInv /\ [Next]_vars => FrameInv'
<1> SUFFICES ASSUME FrameInv, [Next]_vars PROVE FrameInv'
  OBVIOUS
<1>1. ASSUME NEW nv \in NoiseValue, NextFrame(nv) PROVE FrameInv'
  <2> DEFINE first == FirstFrom(0)
  <2>1. /\ pc = "test" /\ pc' = "stream" /\ tmp' = nv /\ cur' = first
        /\ noise_value' = noise_value /\ roi_pending' = roi_pending
    BY <1>1 DEF NextFrame, levelVars
  <2>2. first \in Stream /\ \A s \in Stream : ~ (s < first)
    <3>1. \A s \in Stream : s \in 0 .. 4
      BY StreamAssumption
    <3>2. 0 \in Nat /\ \A s \in Stream : s >= 0
      BY <3>1
    <3>3. first \in Stream /\ \A s \in Stream : first <= s
      BY <3>2, FirstFromZero, FirstFromLeast
    <3> HIDE DEF first
    <3>4. QED BY <3>1, <3>3
  <2> HIDE DEF first
  <2>3. QED BY <2>1, <2>2 DEF FrameInv, FrameRead, Judged, Waiting
<1>2. CASE Iterate
  BY <1>2, IterationJudges DEF Iterate
<1>3. CASE Leave
  BY <1>3 DEF Leave, levelVars, roiVars, FrameInv, FrameRead, Judged, Waiting
<1>4. CASE SyncFrame
  BY <1>4 DEF SyncFrame, levelVars, FrameInv, FrameRead, Judged, Waiting
<1>5. CASE RequestExit
  BY <1>5 DEF RequestExit, levelVars, roiVars, loopVars, FrameInv, FrameRead,
              Judged, Waiting
<1>6. CASE TimePasses
  BY <1>6 DEF TimePasses, levelVars, roiVars, loopVars, FrameInv, FrameRead,
              Judged, Waiting
<1>7. CASE UNCHANGED vars
  BY <1>7 DEF vars, levelVars, roiVars, loopVars, FrameInv, FrameRead, Judged, Waiting
<1>8. CASE Stopped
  BY <1>7, <1>8 DEF Stopped
<1>9. QED BY <1>1, <1>2, <1>3, <1>4, <1>5, <1>6, <1>7, <1>8 DEF Next, Thread

LEMMA FrameInvHolds == Spec => []FrameInv
BY FrameInvInit, FrameInvStep, PTL DEF Spec

\* Every stream of a frame is judged on the same noise reading.
THEOREM NoiseReadOnce == Spec => []OneNoiseReading
<1>1. FrameInv => OneNoiseReading
  BY DEF FrameInv, Judged, OneNoiseReading
<1>2. QED BY <1>1, FrameInvHolds, PTL

\* No frame begins with an ROI update still waiting for its sync frame.
THEOREM RoiAppliedInFrame == Spec => []RoiApplied
<1>1. FrameInv => RoiApplied
  BY DEF FrameInv, Waiting, RoiApplied
<1>2. QED BY <1>1, FrameInvHolds, PTL

\* Seen through the levels the thread is SmartRCLevels: an iteration is a
\* frame of that specification, with the noise read at the start, and nothing
\* else the thread does touches the levels.
THEOREM LoopRefinesLevels == Spec => ImplementsLevels
<1>1. Init => L!Init
  BY DEF Init
<1>2. FrameInv /\ [Next]_vars => [L!Next]_(L!vars)
  <2> SUFFICES ASSUME FrameInv, [Next]_vars PROVE L!Next \/ UNCHANGED levelVars
    BY DEF levelVars, L!vars
  <2>1. CASE Iterate
    <3>1. PICK s \in Stream, mv \in MotionValue, libM \in BOOLEAN, libN \in BOOLEAN :
            pc = "stream" /\ L!Frame(s, mv, tmp, libM, libN)
      BY <2>1 DEF Iterate, Iteration
    <3>2. tmp \in NoiseValue
      BY <3>1 DEF FrameInv, FrameRead
    <3>3. QED BY <3>1, <3>2 DEF L!Next
  <2>2. CASE \E nv \in NoiseValue : NextFrame(nv)
    BY <2>2 DEF NextFrame
  <2>3. CASE Leave \/ SyncFrame \/ RequestExit \/ TimePasses
    BY <2>3 DEF Leave, SyncFrame, RequestExit, TimePasses
  <2>4. CASE Stopped \/ UNCHANGED vars
    BY <2>4 DEF Stopped, vars
  <2>5. QED BY <2>1, <2>2, <2>3, <2>4 DEF Next, Thread
<1>3. QED BY <1>1, <1>2, FrameInvHolds, PTL DEF Spec, ImplementsLevels, L!Spec

-----------------------------------------------------------------------------
(* The pacing of ROI updates.                                              *)

\* Counting on by one, on a frame counter that wraps at a multiple of the
\* interval.
LEMMA CountedOn ==
  ASSUME NEW i \in Nat \ {0}, NEW n \in Nat
  PROVE  (n + 1) % i = IF (n % i) + 1 = i THEN 0 ELSE (n % i) + 1
<1> DEFINE q == n \div i
           r == n % i
<1>1. n = i * q + r /\ q \in Int /\ r \in 0 .. i - 1
  OBVIOUS
<1> HIDE DEF q, r
<1>2. CASE r + 1 = i
  <2>1. n + 1 = i * (q + 1)
    BY <1>1, <1>2
  <2>2. QED BY <1>1, <1>2, <2>1
<1>3. CASE r + 1 # i
  <2>1. n + 1 = i * q + (r + 1) /\ r + 1 \in 0 .. i - 1
    BY <1>1, <1>3
  <2>2. QED BY <1>1, <1>3, <2>1
<1>4. QED BY <1>2, <1>3 DEF r

LEMMA WrapKeepsIntervals ==
  ASSUME NEW i \in Nat \ {0}, FrameWrap % i = 0, NEW n \in 0 .. FrameWrap - 1
  PROVE  /\ (n + 1) % FrameWrap \in 0 .. FrameWrap - 1
         /\ ((n + 1) % FrameWrap) % i = (n + 1) % i
<1>1. FrameWrap \in Nat \ {0}
  BY LoopAssumption
<1>2. CASE n + 1 = FrameWrap
  BY <1>1, <1>2
<1>3. CASE n + 1 # FrameWrap
  <2>1. n + 1 \in 0 .. FrameWrap - 1
    BY <1>1, <1>3
  <2>2. (n + 1) % FrameWrap = n + 1
    BY <1>1, <2>1
  <2>3. QED BY <2>1, <2>2
<1>4. QED BY <1>2, <1>3

\* The frame counter tells the age of the last update: unless it is a whole
\* interval or more ago, as many frames as the counter is past a multiple of
\* the interval.
PacingInv ==
  /\ total_frames \in 0 .. FrameWrap - 1
  /\ roi_age \in [Stream -> Nat]
  /\ \A s \in Stream :
       /\ roi_age[s] <= RoiInterval[s]
       /\ roi_age[s] < RoiInterval[s] => total_frames % RoiInterval[s] = roi_age[s]

LEMMA PacingInit == Init => PacingInv
BY LoopAssumption DEF Init, PacingInv

\* An iteration starts the age of its own stream afresh, and only in a frame
\* whose number is a multiple of the interval.
LEMMA IterationPaces ==
  ASSUME PacingInv, Iterate
  PROVE  /\ PacingInv'
         /\ \A t \in Stream :
              roi_age'[t] = 0 /\ roi_age[t] # 0 => roi_age[t] = RoiInterval[t]
<1>1. PICK s \in Stream, roi \in BOOLEAN :
        RoiStep(s, roi) /\ total_frames' = total_frames
  BY DEF Iterate, Iteration
<1>2. CASE roi_age' = roi_age
  BY <1>1, <1>2 DEF PacingInv
<1>3. CASE RoiDue(s) /\ roi_age' = [roi_age EXCEPT ![s] = 0]
  <2>1. total_frames % RoiInterval[s] = 0
    BY <1>3 DEF RoiDue
  <2>2. \A t \in Stream : roi_age'[t] = IF t = s THEN 0 ELSE roi_age[t]
    BY <1>3 DEF PacingInv
  <2>3. PacingInv'
    <3>1. roi_age' \in [Stream -> Nat]
      BY <1>3 DEF PacingInv
    <3>2. RoiInterval[s] >= 0
      BY LoopAssumption
    <3>3. QED BY <1>1, <2>1, <2>2, <3>1, <3>2 DEF PacingInv
  <2>4. roi_age[s] # 0 => roi_age[s] = RoiInterval[s]
    BY <2>1, LoopAssumption DEF PacingInv
  <2>5. QED BY <2>2, <2>3, <2>4
<1>4. QED BY <1>1, <1>2, <1>3 DEF RoiStep, roiVars

LEMMA FramePaces ==
  ASSUME PacingInv, NEW nv \in NoiseValue, NextFrame(nv)
  PROVE  PacingInv' /\ \A t \in Stream : roi_age'[t] # 0
<1>1. /\ total_frames' = (total_frames + 1) % FrameWrap
      /\ roi_age' = [s \in Stream |-> AtMost(roi_age[s] + 1, RoiInterval[s])]
  BY DEF NextFrame
<1>2. ASSUME NEW s \in Stream
      PROVE  /\ roi_age'[s] \in Nat \ {0} /\ roi_age'[s] <= RoiInterval[s]
             /\ roi_age'[s] < RoiInterval[s] =>
                  total_frames' % RoiInterval[s] = roi_age'[s]
  <2> DEFINE i == RoiInterval[s]
  <2>1. i \in 1 .. 30 /\ FrameWrap % i = 0
    BY LoopAssumption
  <2>2. roi_age'[s] = AtMost(roi_age[s] + 1, i)
    BY <1>1
  <2>3. roi_age[s] \in Nat /\ roi_age[s] <= i
    BY DEF PacingInv
  <2>4. total_frames' % i = (total_frames + 1) % i
    BY <1>1, <2>1, WrapKeepsIntervals DEF PacingInv
  <2>5. total_frames \in Nat
    BY LoopAssumption DEF PacingInv
  <2>6. roi_age[s] < i => total_frames % i = roi_age[s]
    BY DEF PacingInv
  <2> HIDE DEF i
  <2>7. (total_frames + 1) % i =
          IF (total_frames % i) + 1 = i THEN 0 ELSE (total_frames % i) + 1
    <3>1. i \in Nat \ {0}
      BY <2>1
    <3>2. QED BY <2>5, <3>1, CountedOn
  <2>8. roi_age'[s] \in Nat \ {0} /\ roi_age'[s] <= i
    BY <2>1, <2>2, <2>3 DEF AtMost
  <2>9. ASSUME roi_age'[s] < i PROVE total_frames' % i = roi_age'[s]
    <3>1. roi_age'[s] = roi_age[s] + 1 /\ roi_age[s] < i
      BY <2>1, <2>2, <2>3, <2>9 DEF AtMost
    <3>2. total_frames % i = roi_age[s] /\ roi_age[s] + 1 # i
      BY <2>1, <2>6, <2>9, <3>1
    <3>3. QED BY <2>4, <2>7, <3>1, <3>2
  <2>10. QED BY <2>8, <2>9 DEF i
<1>3. total_frames' \in 0 .. FrameWrap - 1
  BY <1>1, LoopAssumption DEF PacingInv
<1>4. QED BY <1>1, <1>2, <1>3 DEF PacingInv

LEMMA OthersPace ==
  PacingInv /\ [Next]_vars =>
    \/ Iterate \/ \E nv \in NoiseValue : NextFrame(nv)
    \/ PacingInv' /\ roi_age' = roi_age
<1> SUFFICES ASSUME PacingInv, [Next]_vars, ~ Iterate,
                    ~ \E nv \in NoiseValue : NextFrame(nv)
             PROVE  PacingInv' /\ roi_age' = roi_age
  OBVIOUS
<1>1. total_frames' = total_frames /\ roi_age' = roi_age
  BY DEF Next, Thread, Leave, SyncFrame, RequestExit, TimePasses, Stopped, vars,
         roiVars, loopVars
<1>2. QED BY <1>1 DEF PacingInv

\* Between two ROI updates of a stream lie at least roi_interval frames, on a
\* frame counter that wraps too.
THEOREM RoiIsPaced == Spec => RoiPaced
<1>1. PacingInv /\ [Next]_vars => PacingInv'
  BY IterationPaces, FramePaces, OthersPace
<1>2. PacingInv /\ [Next]_vars =>
        [\A s \in Stream :
           roi_age'[s] = 0 /\ roi_age[s] # 0 => roi_age[s] = RoiInterval[s]]_vars
  BY IterationPaces, FramePaces, OthersPace
<1>3. QED BY <1>1, <1>2, PacingInit, PTL DEF Spec, RoiPaced

-----------------------------------------------------------------------------
(* What is proved of the levels holds in the thread, and its types.        *)

LP == INSTANCE SmartRCLevels_proofs

\* The constants of the thread are constants of SmartRCLevels.
LEMMA LevelsConstants ==
  /\ Stream \subseteq Nat
  /\ MotionValue \subseteq Nat /\ NoiseValue \subseteq Nat
  /\ MotionThreshold \in [1 .. 3 -> Nat]
  /\ NoiseThreshold \in [1 .. 2 -> Nat]
  /\ MotionDelay \in [LP!MotionLevel -> Nat]
  /\ NoiseDelay \in [LP!NoiseLevel -> Nat]
BY LoopAssumption, StreamAssumption DEF LP!MotionLevel, LP!NoiseLevel

\* The specification the thread implements is the one those theorems are of.
LEMMA SameLevels == L!Spec => LP!Spec
<1>1. L!Init => LP!Init
  BY Zenon DEF L!Init, LP!Init, L!MotionLevel, LP!MotionLevel, L!NoiseLevel,
         LP!NoiseLevel, L!MOTION_LOW, LP!MOTION_LOW, L!MOTION_NONE, LP!MOTION_NONE,
         L!NOISE_LOW, LP!NOISE_LOW, L!NOISE_NONE, LP!NOISE_NONE
<1>2. [L!Next]_(L!vars) => [LP!Next]_(LP!vars)
  BY Zenon DEF L!Next, LP!Next, L!Frame, LP!Frame, L!vars, LP!vars,
         L!MotionBand, LP!MotionBand, L!NoiseBand, LP!NoiseBand, L!Counted,
         LP!Counted, L!Fires, LP!Fires, L!NextMotionLevel, LP!NextMotionLevel,
         L!NextNoiseLevel, LP!NextNoiseLevel, L!MotionTarget, LP!MotionTarget,
         L!NoiseTarget, LP!NoiseTarget, L!MOTION_NONE, LP!MOTION_NONE
<1>3. QED BY <1>1, <1>2, PTL DEF L!Spec, LP!Spec

\* In the running thread, too, a stream never counts towards two levels at
\* once, no counter is left standing at its delay, and no frame takes a
\* stream from HIGH or MID straight to NONE.
THEOREM ThreadCountsOneRun == Spec => []L!SingleRun /\ L!NoLeapToNone
<1>1. LP!Spec => []LP!SingleRun /\ LP!NoLeapToNone
  BY LevelsConstants, LP!SingleRunHolds, LP!NoLeapHolds, Zenon
<1>2. LP!SingleRun => L!SingleRun
  BY Zenon DEF L!SingleRun, LP!SingleRun, L!AtMostOneRun, LP!AtMostOneRun,
         L!BelowDelay, LP!BelowDelay
<1>3. LP!NoLeapToNone => L!NoLeapToNone
  <2>1. [\A s \in Stream : motion_level'[s] = LP!MOTION_NONE =>
                             motion_level[s] <= LP!MOTION_LOW]_(LP!vars) =>
        [\A s \in Stream : motion_level'[s] = L!MOTION_NONE =>
                             motion_level[s] <= L!MOTION_LOW]_(L!vars)
    BY Zenon DEF L!vars, LP!vars, L!MOTION_NONE, LP!MOTION_NONE, L!MOTION_LOW,
           LP!MOTION_LOW
  <2>2. QED BY <2>1, PTL DEF L!NoLeapToNone, LP!NoLeapToNone
<1>4. QED BY <1>1, <1>2, <1>3, SameLevels, LoopRefinesLevels, PTL
          DEF ImplementsLevels

\* What the thread adds to the two specifications has its types, too.
ThreadTypeOK ==
  /\ smartrc_exit_flag \in BOOLEAN
  /\ pc \in {"test", "stream", "sync", "done"}
  /\ cur \in Stream \union {NoStream}
  /\ tmp \in Nat
  /\ apply_flag \in BOOLEAN
  /\ roi_pending \subseteq Stream

LEMMA ThreadTypeStep == ThreadTypeOK /\ [Next]_vars => ThreadTypeOK'
<1> SUFFICES ASSUME ThreadTypeOK, [Next]_vars PROVE ThreadTypeOK'
  OBVIOUS
<1>1. ASSUME NEW nv \in NoiseValue, NextFrame(nv) PROVE ThreadTypeOK'
  <2> DEFINE first == FirstFrom(0)
  <2>1. first \in Stream /\ nv \in Nat
    BY FirstFromZero, LoopAssumption
  <2>2. /\ tmp' = nv /\ apply_flag' = FALSE /\ pc' = "stream" /\ cur' = first
        /\ roi_pending' = roi_pending /\ smartrc_exit_flag' = smartrc_exit_flag
    BY <1>1 DEF NextFrame
  <2> HIDE DEF first
  <2>3. QED BY <2>1, <2>2 DEF ThreadTypeOK
<1>2. CASE Iterate
  <2>1. PICK s \in Stream, roi \in BOOLEAN, dump \in BOOLEAN :
          /\ RoiStep(s, roi) /\ DumpStep(s, dump)
          /\ UNCHANGED <<tmp, smartrc_exit_flag>>
    BY <1>2 DEF Iterate, Iteration
  <2> DEFINE next == FirstFrom(s + 1)
  <2>2. next \in Stream \/ next = NoStream
    BY NextStream
  <2>3. \/ pc' = "done" /\ cur' = cur
        \/ pc' \in {"sync", "stream"} /\ cur' = next
    BY <2>1 DEF DumpStep
  <2> HIDE DEF next
  <2>4. apply_flag' \in BOOLEAN /\ roi_pending' \subseteq Stream
    BY <2>1 DEF RoiStep, roiVars, ThreadTypeOK
  <2>5. QED BY <2>1, <2>2, <2>3, <2>4 DEF ThreadTypeOK
<1>3. CASE Leave
  BY <1>3 DEF Leave, roiVars, ThreadTypeOK
<1>4. CASE SyncFrame
  BY <1>4 DEF SyncFrame, ThreadTypeOK
<1>5. CASE RequestExit \/ TimePasses
  BY <1>5 DEF RequestExit, TimePasses, roiVars, loopVars, ThreadTypeOK
<1>6. CASE UNCHANGED vars
  BY <1>6 DEF vars, roiVars, loopVars, ThreadTypeOK
<1>7. CASE Stopped
  BY <1>6, <1>7 DEF Stopped
<1>8. QED BY <1>1, <1>2, <1>3, <1>4, <1>5, <1>6, <1>7 DEF Next, Thread

\* The thread keeps the types of everything it works on.
THEOREM TypeCorrect == Spec => []TypeOK
<1>1. Init => ThreadTypeOK
  <2>1. Init => smartrc_exit_flag \in BOOLEAN /\ apply_flag \in BOOLEAN
    BY Zenon DEF Init
  <2>2. Init => /\ pc = "test" /\ cur = NoStream /\ tmp \in Nat
                /\ roi_pending \subseteq Stream
    BY DEF Init
  <2>3. QED BY <2>1, <2>2, Zenon DEF ThreadTypeOK
<1>2. Spec => []ThreadTypeOK
  BY <1>1, ThreadTypeStep, PTL DEF Spec
<1>3. PacingInv /\ [Next]_vars => PacingInv'
  BY IterationPaces, FramePaces, OthersPace
<1>4. Spec => []PacingInv
  BY <1>3, PacingInit, PTL DEF Spec
<1>5. Spec => []L!TypeOK
  <2>1. LP!Spec => []LP!TypeOK
    BY LevelsConstants, LP!TypeCorrect, Zenon
  <2>2. LP!TypeOK => L!TypeOK
    BY Zenon DEF L!TypeOK, LP!TypeOK, L!MotionLevel, LP!MotionLevel, L!NoiseLevel,
           LP!NoiseLevel
  <2>3. QED BY <2>1, <2>2, SameLevels, LoopRefinesLevels, PTL DEF ImplementsLevels
<1>6. Spec => []AdaptTypeOK
  BY LoopIsAdaptive, AdaptTypeCorrect, PTL
<1>7. L!TypeOK /\ AdaptTypeOK /\ ThreadTypeOK /\ PacingInv => TypeOK
  BY DEF TypeOK, ThreadTypeOK, PacingInv
<1>8. QED BY <1>2, <1>4, <1>5, <1>6, <1>7, PTL
=============================================================================
