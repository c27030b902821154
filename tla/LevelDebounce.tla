--------------------------- MODULE LevelDebounce ---------------------------
(***************************************************************************)
(* What the two classifiers of smartrc_mainloop promise, stated once for   *)
(* both: every frame of a stream falls into a band, and the level of the   *)
(* stream moves only when the band of the last Delay[band] frames counted  *)
(* is one and the same; then it moves to Target[band][level] and counting  *)
(* starts afresh.  A frame of another band restarts the count.             *)
(*                                                                         *)
(* There is one run length here where the code keeps one counter per band; *)
(* SmartRCLevels implements this specification, and the mapping between    *)
(* them exists only because at most one of those counters is ever nonzero. *)
(***************************************************************************)
EXTENDS Integers

CONSTANTS
  Stream,     \* the streams under control
  Band,       \* the bands a frame can fall into, 0 .. K
  Level,      \* the levels of a stream
  Delay,      \* frames of a band in a row that move the level
  Target,     \* Target[b][l]: where a full run of band b moves level l
  FirstLevel  \* the level each stream starts with

VARIABLES
  level,   \* the level decided for each stream
  streak   \* the band being counted and how many frames of it were counted

vars == <<level, streak>>

NoStreak == [band |-> 0, run |-> 0]

TypeOK ==
  /\ level \in [Stream -> Level]
  /\ streak \in [Stream -> [band : Band, run : Nat]]

Init ==
  /\ level = FirstLevel
  /\ streak = [s \in Stream |-> NoStreak]

\* The length of the run of band b once one more frame of it is counted.
RunWith(s, b) == IF streak[s].band = b THEN streak[s].run + 1 ELSE 1

\* A frame of band b that completes a run: the level moves.
Move(s, b) ==
  /\ RunWith(s, b) >= Delay[b]
  /\ level' = [level EXCEPT ![s] = Target[b][@]]
  /\ streak' = [streak EXCEPT ![s] = NoStreak]

\* A frame of band b that only lengthens, or starts, a run.
Count(s, b) ==
  /\ RunWith(s, b) < Delay[b]
  /\ streak' = [streak EXCEPT ![s] = [band |-> b, run |-> RunWith(s, b)]]
  /\ UNCHANGED level

Next == \E s \in Stream, b \in Band : Move(s, b) \/ Count(s, b)

Spec == Init /\ [][Next]_vars
=============================================================================
