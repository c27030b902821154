--------------------------- MODULE MCSmartRCStartup ---------------------------
(***************************************************************************)
(* Frame periods are in units of 1/512 MHz, as the driver counts them.     *)
(* The formats are 1080p in both codecs, a size that is a multiple of      *)
(* nothing, and a stream rotated by 90 degrees whose source is as wide as  *)
(* the stream is high.                                                     *)
(***************************************************************************)
EXTENDS SmartRCStartup

Period(fps) == 512000000 \div fps

MCRefPeriod   == 17083733
MCFramePeriod == {Period(15), Period(30)}

Format(c, w, h, r, p) == [codec |-> c, width |-> w, height |-> h, rotate |-> r, pitch |-> p]

MCFormats ==
  {Format("H264", 1920, 1080, FALSE, 256), Format("H265", 1918, 1078, FALSE, 240),
   Format("H265", 640, 480, TRUE, 96)}
=============================================================================
