------------------------ MODULE RdkCOverlayApp_proofs ------------------------
(***************************************************************************)
(* Where -a places an image, for every resolution, bitmap and offset.      *)
(***************************************************************************)
EXTENDS RdkCOverlayApp, TLAPS

\* The inductive invariant: what -a left in info suits the sizes it used,
\* whatever those have become since.
PlacedFits ==
  placed # <<>> =>
    \A k \in Axis :
      info.at[k] > 0 /\ info.at[k] + placed[2][k] < placed[1][k]

\* An offset that leaves room for the image does so from either side.
LEMMA SidesFit ==
  ASSUME NEW k \in Axis, frame \in Pair, img \in Pair, offset \in Pair,
         OffsetFits(k)
  PROVE  /\ NearSide(k) > 0 /\ NearSide(k) + img[k] < frame[k]
         /\ FarSide(k) > 0 /\ FarSide(k) + img[k] < frame[k]
<1>1. frame[k] \in Int /\ img[k] \in Int /\ offset[k] \in Int
  BY DEF Pair
<1> QED BY <1>1 DEF OffsetFits, NearSide, FarSide

LEMMA AtFits ==
  ASSUME NEW c \in Corner, frame \in Pair, img \in Pair, offset \in Pair,
         NEW k \in Axis, OffsetFits(k)
  PROVE  At(c)[k] > 0 /\ At(c)[k] + img[k] < frame[k]
<1>1. At(c)[k] \in {NearSide(k), FarSide(k)}
  BY DEF At
<1> QED BY <1>1, SidesFit

LEMMA SidesAreInt ==
  ASSUME frame \in Pair, img \in Pair, offset \in Pair, NEW c \in Corner
  PROVE  At(c) \in Pair
BY DEF Pair, At, NearSide, FarSide

-----------------------------------------------------------------------------
\* The variables of main keep their types, whatever the options and the
\* order they come in (utils/Overlay/app/RdkCOverlayApp.cpp, lines 415-576).
THEOREM TypeCorrect == Spec => []TypeOK
<1>1. Init => TypeOK
  <2> SUFFICES ASSUME Init PROVE TypeOK
    OBVIOUS
  <2> DEFINE origin == [k \in Axis |-> 0]
  <2>1. Unknown \in Pair
    BY DEF Unknown, Pair
  <2>2. origin \in Pair
    BY DEF Pair
  <2>3. info = [streamID |-> 0, areaID |-> 0, BMPfilename |-> "",
                at |-> origin, alpha |-> 0]
    BY DEF Init
  <2>4. info \in [streamID : Stream, areaID : Area, alpha : Int, at : Pair,
                  BMPfilename : Bitmap \union {OtherFile, ""}]
    <3> HIDE DEF origin
    <3>1. 0 \in Stream /\ 0 \in Area /\ 0 \in Int
      BY DEF Stream, Area
    <3>2. "" \in Bitmap \union {OtherFile, ""}
      OBVIOUS
    <3> QED BY <2>2, <2>3, <3>1, <3>2, Zenon
  <2> QED BY <2>1, <2>4 DEF Init, TypeOK, Area
<1>2. TypeOK /\ [Next]_vars => TypeOK'
  <2> SUFFICES ASSUME TypeOK, [Next]_vars PROVE TypeOK'
    OBVIOUS
  <2> USE DEF TypeOK
  <2>1. ASSUME NEW s \in Stream, StreamOption(s) PROVE TypeOK'
    <3>1. Resolution[s] \in Pair
      BY AppAssumption
    <3> QED BY <3>1, <2>1 DEF StreamOption
  <2>2. ASSUME NEW a \in Area, AreaOption(a) PROVE TypeOK'
    BY <2>2 DEF AreaOption
  <2>3. CASE BadArgument
    BY <2>3 DEF BadArgument
  <2>4. ASSUME NEW f \in Bitmap \union {OtherFile}, FileOption(f) PROVE TypeOK'
    <3>1. f \in Bitmap => Size[f] \in Pair
      BY AppAssumption
    <3> QED BY <3>1, <2>4 DEF FileOption
  <2>5. ASSUME NEW k \in Axis, NEW n \in Offset, OffsetOption(k, n) PROVE TypeOK'
    BY <2>5, AppAssumption DEF OffsetOption, Pair
  <2>6. ASSUME NEW c \in Corner, AlignOption(c) PROVE TypeOK'
    <3>1. At(c) \in Pair
      BY SidesAreInt
    <3> QED BY <3>1, <2>6 DEF AlignOption
  <2>7. CASE AlignRefused
    BY <2>7 DEF AlignRefused
  <2>8. ASSUME NEW e \in {0, 1}, EnableOption(e) PROVE TypeOK'
    BY <2>8 DEF EnableOption
  <2>9. ASSUME NEW t \in Alpha, AlphaOption(t) PROVE TypeOK'
    BY <2>9, AppAssumption DEF AlphaOption
  <2>10. CASE Finish
    BY <2>10 DEF Finish
  <2>11. CASE UNCHANGED vars
    BY <2>11 DEF vars
  <2> QED
    BY <2>1, <2>2, <2>3, <2>4, <2>5, <2>6, <2>7, <2>8, <2>9, <2>10, <2>11 DEF Next
<1> QED BY <1>1, <1>2, PTL DEF Spec

\* An image that -a placed for the resolution and the bitmap handed over lies
\* inside the frame (lines 460-485).
THEOREM PlacedInsideAlways == Spec => []PlacedInside
<1>1. Init => PlacedFits
  BY DEF Init, PlacedFits
<1>2. TypeOK /\ PlacedFits /\ [Next]_vars => PlacedFits'
  <2> SUFFICES ASSUME TypeOK, PlacedFits, [Next]_vars PROVE PlacedFits'
    OBVIOUS
  <2>1. ASSUME NEW c \in Corner, AlignOption(c) PROVE PlacedFits'
    <3>1. info'.at = At(c) /\ placed' = <<frame, img>>
      BY <2>1 DEF AlignOption, TypeOK
    <3>2. \A k \in Axis : OffsetFits(k)
      BY <2>1 DEF AlignOption
    <3>3. \A k \in Axis : At(c)[k] > 0 /\ At(c)[k] + img[k] < frame[k]
      BY <3>2, AtFits DEF TypeOK
    <3> QED BY <3>1, <3>3 DEF PlacedFits
  <2>2. CASE info'.at = info.at /\ placed' = placed
    BY <2>2 DEF PlacedFits
  <2>3. ASSUME NEW s \in Stream, StreamOption(s) PROVE info'.at = info.at /\ placed' = placed
    BY <2>3 DEF StreamOption, TypeOK
  <2>4. ASSUME NEW a \in Area, AreaOption(a) PROVE info'.at = info.at /\ placed' = placed
    BY <2>4 DEF AreaOption, TypeOK
  <2>5. ASSUME NEW f \in Bitmap \union {OtherFile}, FileOption(f)
        PROVE  info'.at = info.at /\ placed' = placed
    BY <2>5 DEF FileOption, TypeOK
  <2>6. ASSUME NEW t \in Alpha, AlphaOption(t) PROVE info'.at = info.at /\ placed' = placed
    BY <2>6 DEF AlphaOption, TypeOK
  <2>7. ASSUME \/ BadArgument \/ AlignRefused \/ Finish \/ UNCHANGED vars
               \/ \E k \in Axis, n \in Offset : OffsetOption(k, n)
               \/ \E e \in {0, 1} : EnableOption(e)
        PROVE  info'.at = info.at /\ placed' = placed
    BY <2>7 DEF BadArgument, AlignRefused, Finish, vars, OffsetOption, EnableOption
  <2> QED BY <2>1, <2>2, <2>3, <2>4, <2>5, <2>6, <2>7 DEF Next
<1>3. PlacedFits => PlacedInside
  <2> SUFFICES ASSUME PlacedFits, info.BMPfilename \in Bitmap,
                      placed = <<Resolution[info.streamID], Size[info.BMPfilename]>>,
                      NEW k \in Axis
               PROVE  /\ info.at[k] > 0
                      /\ info.at[k] + Size[info.BMPfilename][k] < Resolution[info.streamID][k]
    BY DEF PlacedInside
  <2>1. placed # <<>>
    OBVIOUS
  <2> QED BY <2>1 DEF PlacedFits
<1>4. Spec => []TypeOK
  BY TypeCorrect
<1> QED BY <1>1, <1>2, <1>3, <1>4, PTL DEF Spec
=============================================================================
