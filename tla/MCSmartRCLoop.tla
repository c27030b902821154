--------------------------- MODULE MCSmartRCLoop ---------------------------
(***************************************************************************)
(* Two streams with different ROI intervals; stream 1 dumps its parameters *)
(* and has the adaptive scenario on.                                       *)
(***************************************************************************)
EXTENDS SmartRCLoop

MCMotionThreshold == <<600, 10000, 70000>>
MCNoiseThreshold  == <<18, 24>>
MCMotionDelay == [b \in 0 .. 3 |-> IF b = 0 THEN 2 ELSE 0]
MCNoiseDelay  == [b \in 0 .. 2 |-> 0]
MCRoiInterval == [s \in Stream |-> IF s = 0 THEN 2 ELSE 1]
=============================================================================
