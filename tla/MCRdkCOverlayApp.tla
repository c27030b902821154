--------------------------- MODULE MCRdkCOverlayApp ---------------------------
(***************************************************************************)
(* Two resolutions among four streams, an image that fits both, one that   *)
(* is wider than the smaller frame and stored top down, and offsets on the *)
(* edges of what fits.                                                     *)
(***************************************************************************)
EXTENDS RdkCOverlayApp

MCResolution == [s \in Stream |-> IF s = 0 THEN <<8, 6>> ELSE <<5, 4>>]
MCSize == [f \in {"logo", "banner"} |-> IF f = "logo" THEN <<2, 1>> ELSE <<6, -2>>]
MCOffset == {0, 1, 3, 5}
=============================================================================
