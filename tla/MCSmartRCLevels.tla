-------------------------- MODULE MCSmartRCLevels --------------------------
(***************************************************************************)
(* Values for the constants of SmartRCLevels.  The thresholds are those of *)
(* g_threshold (lines 155-161) and the measured values sit on their        *)
(* boundaries.  The delays are those of g_delay scaled down: what matters  *)
(* is that some are larger than one, that they differ, and that the delay  *)
(* of HIGH is zero, as it is in the code.                                  *)
(***************************************************************************)
EXTENDS SmartRCLevels

MCMotionThreshold == <<600, 10000, 70000>>
MCNoiseThreshold  == <<18, 24>>

MCMotionDelay == [b \in 0 .. 3 |-> CASE b = 0 -> 2 [] b = 1 -> 3 [] b = 2 -> 2 [] OTHER -> 0]
MCNoiseDelay  == [b \in 0 .. 2 |-> CASE b = 0 -> 3 [] b = 1 -> 2 [] OTHER -> 0]

MCMotionValue == {599, 600, 10000, 70000}
MCNoiseValue  == {17, 18, 24}
=============================================================================
