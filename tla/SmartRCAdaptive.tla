-------------------------- MODULE SmartRCAdaptive --------------------------
(***************************************************************************)
(* The adaptive scenario of smartrc_mainloop (test_smartrc_Amba.c,         *)
(* lines 1803-1807, 1857-1859 and 1889-1917): complete runs of high motion *)
(* are counted, and at the end of a study period the quality level of the  *)
(* stream is raised by one if there were many, and lowered again by one at *)
(* the end of a later period with few.                                     *)
(*                                                                         *)
(* The loop measures the period as curr - prev on the wall clock.  Only    *)
(* that difference matters, so the model keeps it, as age; Tick is the     *)
(* time that passes between two iterations and Elapsed the time that can   *)
(* pass, or that somebody sets the clock forward by, inside one.           *)
(*                                                                         *)
(* The module is a specification of its own, and SmartRCLoop extends it:   *)
(* there Adapt is part of what an iteration does for a stream.             *)
(***************************************************************************)
EXTENDS Integers

CONSTANTS
  Adaptive,   \* the streams with the adaptive scenario on
  Elapsed,    \* what the wall clock can advance by within one iteration
  StudyTime,  \* ADAPTIVE_STUDY_TIME
  Threshold,  \* ADAPTIVE_MOTION_HIGH_THRESHOLD
  TopQuality  \* QUALITY_LAST - 1; QUALITY_FIRST is 0

ASSUME AdaptiveAssumption ==
  /\ Elapsed \subseteq Nat
  /\ StudyTime \in Nat \ {0}
  /\ Threshold \in Nat /\ TopQuality \in Nat

VARIABLES
  age,                 \* wall clock minus prev, at most StudyTime
  motion_high_cnt,     \* complete runs of high motion in this period,
                       \* at most Threshold: it is only compared with that
  quality_level_flag,  \* the quality was raised and not yet returned
  lib_quality,         \* the quality level the library holds
  base_quality,        \* history: the level it held when the loop started
  lost                 \* history: a raise or return did not take effect

adapt_vars == <<age, motion_high_cnt, quality_level_flag, lib_quality,
                base_quality, lost>>

Quality == 0 .. TopQuality
AtMost(n, m) == IF n < m THEN n ELSE m

AdaptInit ==
  /\ age = 0
  /\ motion_high_cnt = [s \in Adaptive |-> 0]
  /\ quality_level_flag = [s \in Adaptive |-> FALSE]
  /\ lib_quality \in [Adaptive -> Quality]
  /\ base_quality = lib_quality
  /\ lost = [s \in Adaptive |-> FALSE]

\* Seconds go by between two iterations.
Tick ==
  /\ age < StudyTime
  /\ age' = age + 1
  /\ UNCHANGED <<motion_high_cnt, quality_level_flag, lib_quality,
                 base_quality, lost>>

\* Top of the iteration: prev is set to the time just read, so the period
\* starts over.
AgeAtTop(a) == 0

\* motion_high_cnt after this frame; high: a run of high motion completed.
CountAfter(s, high) ==
  AtMost(motion_high_cnt[s] + IF high THEN 1 ELSE 0, Threshold)

\* Mutant of Raised: the end of the range is not looked at.
RaisedPastTop(q) == q + 1

\* What the library is asked to hold: read, moved by one unless at the end of
\* the range, written back.
Raised(q)   == IF q < TopQuality THEN q + 1 ELSE q
Returned(q) == IF q > 0 THEN q - 1 ELSE q

\* The period is not over: only the count is kept.
Study(s, high, d) ==
  /\ AgeAtTop(age) + d < StudyTime
  /\ age' = AgeAtTop(age) + d
  /\ motion_high_cnt' = [motion_high_cnt EXCEPT ![s] = CountAfter(s, high)]
  /\ UNCHANGED <<quality_level_flag, lib_quality, base_quality, lost>>

\* Mutant of Change: the flag is forgotten.
ChangeNoFlag(s, flag, q, ok) ==
  /\ lib_quality' = [lib_quality EXCEPT ![s] = IF ok THEN q ELSE @]
  /\ lost' = [lost EXCEPT ![s] = @ \/ lib_quality'[s] = lib_quality[s]]
  /\ UNCHANGED <<quality_level_flag, base_quality>>

\* quality_level_flag changes whether or not the library took the new level.
Change(s, flag, q, ok) ==
  /\ quality_level_flag' = [quality_level_flag EXCEPT ![s] = flag]
  /\ lib_quality' = [lib_quality EXCEPT ![s] = IF ok THEN q ELSE @]
  /\ lost' = [lost EXCEPT ![s] = @ \/ lib_quality'[s] = lib_quality[s]]
  /\ UNCHANGED base_quality

\* The period is over: raise, return or leave the quality; count afresh.
Conclude(s, high, d, ok) ==
  LET many == CountAfter(s, high) = Threshold
      flag == quality_level_flag[s]
  IN  /\ AgeAtTop(age) + d >= StudyTime
      /\ \/ many /\ ~ flag /\ Change(s, TRUE, Raised(lib_quality[s]), ok)
         \/ ~ many /\ flag /\ Change(s, FALSE, Returned(lib_quality[s]), ok)
         \/ /\ many = flag
            /\ UNCHANGED <<quality_level_flag, lib_quality, base_quality, lost>>
      /\ motion_high_cnt' = [motion_high_cnt EXCEPT ![s] = 0]
      /\ age' = 0

\* The adaptive part of one iteration for stream s.
Adapt(s, high, d, ok) == Study(s, high, d) \/ Conclude(s, high, d, ok)

AdaptNext ==
  \/ Tick
  \/ \E s \in Adaptive, high \in BOOLEAN, d \in Elapsed, ok \in BOOLEAN :
       Adapt(s, high, d, ok)

AdaptSpec == AdaptInit /\ [][AdaptNext]_adapt_vars

\* Frames keep coming, each completing a run of high motion if it can, and
\* time passes between them.
AdaptFairSpec ==
  /\ AdaptSpec /\ WF_adapt_vars(Tick)
  /\ \A s \in Adaptive :
       SF_adapt_vars(age = StudyTime /\ \E high \in BOOLEAN, d \in Elapsed :
                                          Adapt(s, high, d, TRUE))

-----------------------------------------------------------------------------
(* Properties.                                                             *)

AdaptTypeOK ==
  /\ age \in 0 .. StudyTime
  /\ motion_high_cnt \in [Adaptive -> 0 .. Threshold]
  /\ quality_level_flag \in [Adaptive -> BOOLEAN]
  /\ lib_quality \in [Adaptive -> Quality]
  /\ base_quality \in [Adaptive -> Quality]
  /\ lost \in [Adaptive -> BOOLEAN]

\* The scenario borrows one step of quality and gives it back: as long as
\* every raise and return took effect, the library holds the original level,
\* plus one exactly while quality_level_flag is set.  (A raise at the top of
\* the range or a failing setter breaks this for good: the flag is set all
\* the same, and the return that follows goes below the original level.)
QualityBorrowed ==
  \A s \in Adaptive :
    ~ lost[s] => lib_quality[s] = base_quality[s]
                                    + IF quality_level_flag[s] THEN 1 ELSE 0

\* A period with many runs of high motion ends in a raised quality.  This is
\* what the option is for: "adaptive scenario, 1:enable" (line 257).
StudyConcludes ==
  \A s \in Adaptive :
    motion_high_cnt[s] = Threshold ~> quality_level_flag[s]
=============================================================================
