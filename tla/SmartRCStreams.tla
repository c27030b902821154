--------------------------- MODULE SmartRCStreams ---------------------------
(***************************************************************************)
(* The selected streams of test_smartrc_Amba.c and the order in which      *)
(* every loop of the program visits them: the ids are scanned upwards and  *)
(* those without their bit in stream_selection are skipped.                *)
(***************************************************************************)
EXTENDS Integers

CONSTANT Stream   \* ids of the selected streams

ASSUME StreamAssumption == Stream \subseteq 0 .. 4 /\ Stream # {}

NoStream == 5     \* SMARTRC_MAX_STREAM_NUM: the scan is over

\* The first selected stream at or after id i.
FirstFrom(i) ==
  IF \E s \in Stream : s >= i
  THEN CHOOSE s \in Stream : s >= i /\ \A t \in Stream : t >= i => s <= t
  ELSE NoStream
=============================================================================
