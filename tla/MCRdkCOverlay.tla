--------------------------- MODULE MCRdkCOverlay ---------------------------
(***************************************************************************)
(* Instances of RdkCOverlay for TLC.  Two streams and one or two areas     *)
(* instead of four: a table or region collides with its neighbour or not   *)
(* at all.  Image b is the one that may not fit a region.                  *)
(***************************************************************************)
EXTENDS RdkCOverlay, TLC

CONSTANTS a, b, BigUnits

UnitsOf(i) == IF i = b THEN BigUnits ELSE 1

Images == {a, b}
\* Processes do not differ.
Symmetry == Permutations(Proc)
=============================================================================
