---------------------------- MODULE RdkCOverlayApp ----------------------------
(***************************************************************************)
(* The overlay application (utils/Overlay/app/RdkCOverlayApp.cpp): main    *)
(* reads the options in the order given and works on what the ones before  *)
(* have left, then hands the overlay to the recorder, or disables it.      *)
(* Sizes are pairs, width first; <<-1, -1>> is one not known yet.          *)
(*                                                                         *)
(* A long option has the value 0 and matches no case of the switch, and -h *)
(* is no short option: they change nothing and are left out.               *)
(***************************************************************************)
EXTENDS Integers

CONSTANTS
  Resolution,  \* what the recorder answers for each stream
  Size,        \* per bitmap file, the size its header gives
  OtherFile,   \* a file that is missing or no bitmap
  Offset,      \* arguments of -x and -y
  Alpha        \* arguments of -t

Stream == 0 .. 3
Area == 0 .. 3
Bitmap == DOMAIN Size
Axis == {1, 2}   \* x, y
Pair == [Axis -> Int]   \* a header may say anything

ASSUME AppAssumption ==
  /\ Resolution \in [Stream -> Pair] /\ Size \in [Bitmap -> Pair]
  /\ OtherFile \notin Bitmap /\ "" \notin Bitmap \union {OtherFile}
  /\ Offset \subseteq Int /\ Alpha \subseteq Int

Corner == {"TOP_LEFT", "TOP_RIGHT", "BOTTOM_LEFT", "BOTTOM_RIGHT"}
Unknown == [k \in Axis |-> -1]

VARIABLES
  pc,               \* "options", "set", "disabled" or "exited"
  frame, img,       \* frameWidth and frameHeight, imgWidth and imgHeight
  offset,           \* xOffset and yOffset
  streamID, areaID, overlayEnable,
  info,             \* the OverlayInfo handed over; a global, zero at first
  placed            \* history: the sizes -a placed the image for

vars == <<pc, frame, img, offset, streamID, areaID, overlayEnable, info, placed>>

\* init has made the recorder.
Init ==
  /\ pc = "options"
  /\ frame = Unknown /\ img = Unknown /\ offset = Unknown
  /\ streamID = -1 /\ areaID = 0 /\ overlayEnable = -1
  /\ info = [streamID |-> 0, areaID |-> 0, BMPfilename |-> "",
             at |-> [k \in Axis |-> 0], alpha |-> 0]
  /\ placed = <<>>

-----------------------------------------------------------------------------
\* Mutant of StreamOption: the id is not counted from zero.
StreamOptionUnshifted(s) ==
  /\ pc = "options"
  /\ streamID' = s + 1 /\ info' = [info EXCEPT !.streamID = s]
  /\ frame' \in {Resolution[s], frame}
  /\ UNCHANGED <<pc, img, offset, areaID, overlayEnable, placed>>

\* -s: a recorder that does not answer leaves the frame what it was.
StreamOption(s) ==
  /\ pc = "options"
  /\ streamID' = s /\ info' = [info EXCEPT !.streamID = s]
  /\ frame' \in {Resolution[s], frame}
  /\ UNCHANGED <<pc, img, offset, areaID, overlayEnable, placed>>

\* -A: the area, 0 if none is named.
AreaOption(a) ==
  /\ pc = "options"
  /\ areaID' = a /\ info' = [info EXCEPT !.areaID = a]
  /\ UNCHANGED <<pc, frame, img, offset, streamID, overlayEnable, placed>>

\* -s and -A with an id out of range, -a with an unknown corner.
BadArgument ==
  /\ pc = "options" /\ pc' = "exited"
  /\ UNCHANGED <<frame, img, offset, streamID, areaID, overlayEnable, info, placed>>

\* -f: a file whose header cannot be read leaves the size what it was.
FileOption(f) ==
  /\ pc = "options"
  /\ info' = [info EXCEPT !.BMPfilename = f]
  /\ img' = IF f \in Bitmap THEN Size[f] ELSE img
  /\ UNCHANGED <<pc, frame, offset, streamID, areaID, overlayEnable, placed>>

\* -x and -y.
OffsetOption(k, n) ==
  /\ pc = "options"
  /\ offset' = [offset EXCEPT ![k] = n]
  /\ UNCHANGED <<pc, frame, img, streamID, areaID, overlayEnable, info, placed>>

\* Mutant of OffsetFits: compared with the frame alone.
OffsetInFrame(k) == offset[k] > 0 /\ offset[k] < frame[k]

\* The offset leaves room for the image, on either side.
OffsetFits(k) == offset[k] > 0 /\ offset[k] < frame[k] - img[k]

\* The coordinate of the image: offset from the near or from the far side.
NearSide(k) == offset[k]
FarSide(k)  == frame[k] - (offset[k] + img[k])

NearCorner(k) == IF k = 1 THEN {"TOP_LEFT", "BOTTOM_LEFT"}
                          ELSE {"TOP_LEFT", "TOP_RIGHT"}

At(corner) ==
  [k \in Axis |-> IF corner \in NearCorner(k) THEN NearSide(k) ELSE FarSide(k)]

\* -a: places the image by what is known now.
AlignOption(corner) ==
  /\ pc = "options" /\ \A k \in Axis : OffsetFits(k)
  /\ info' = [info EXCEPT !.at = At(corner)]
  /\ placed' = <<frame, img>>
  /\ UNCHANGED <<pc, frame, img, offset, streamID, areaID, overlayEnable>>

AlignRefused ==
  /\ pc = "options" /\ ~ \A k \in Axis : OffsetFits(k)
  /\ pc' = "exited"
  /\ UNCHANGED <<frame, img, offset, streamID, areaID, overlayEnable, info, placed>>

\* -e
EnableOption(e) ==
  /\ pc = "options" /\ overlayEnable' = e
  /\ UNCHANGED <<pc, frame, img, offset, streamID, areaID, info, placed>>

\* -t
AlphaOption(t) ==
  /\ pc = "options" /\ info' = [info EXCEPT !.alpha = t]
  /\ UNCHANGED <<pc, frame, img, offset, streamID, areaID, overlayEnable, placed>>

\* No more options: SetOverlay(&info), unless it is switched off by -e 0.
Finish ==
  /\ pc = "options"
  /\ pc' = IF overlayEnable # 0 THEN "set" ELSE "disabled"
  /\ UNCHANGED <<frame, img, offset, streamID, areaID, overlayEnable, info, placed>>

Next ==
  \/ \E s \in Stream : StreamOption(s)
  \/ \E a \in Area : AreaOption(a)
  \/ BadArgument
  \/ \E f \in Bitmap \union {OtherFile} : FileOption(f)
  \/ \E k \in Axis, n \in Offset : OffsetOption(k, n)
  \/ \E c \in Corner : AlignOption(c)
  \/ AlignRefused
  \/ \E e \in {0, 1} : EnableOption(e)
  \/ \E t \in Alpha : AlphaOption(t)
  \/ Finish

Spec == Init /\ [][Next]_vars

-----------------------------------------------------------------------------
(* Properties.                                                             *)

TypeOK ==
  /\ pc \in {"options", "set", "disabled", "exited"}
  /\ frame \in Pair /\ img \in Pair
  /\ offset \in Pair
  /\ streamID \in Stream \union {-1} /\ areaID \in Area
  /\ overlayEnable \in {-1, 0, 1}
  /\ info \in [streamID : Stream, areaID : Area, alpha : Int, at : Pair,
               BMPfilename : Bitmap \union {OtherFile, ""}]
  /\ placed = <<>> \/ placed \in Pair \X Pair

\* An image handed over lies inside the frame of its stream, clear of every
\* edge, if -a placed it for the resolution of that stream and the size of
\* that file: nothing read after -a moves it out, and -a itself never puts it
\* across an edge, at whichever corner (lines 460-485).  Options of -s and -f
\* that come later than -a are not caught: the sizes then differ.
PlacedInside ==
  /\ pc = "set"
  /\ info.BMPfilename \in Bitmap
  /\ placed = <<Resolution[info.streamID], Size[info.BMPfilename]>>
  => \A k \in Axis :
       /\ info.at[k] > 0
       /\ info.at[k] + Size[info.BMPfilename][k] < Resolution[info.streamID][k]
=============================================================================
