----------------------------- MODULE RdkCOverlay -----------------------------
(***************************************************************************)
(* The overlay library (utils/Overlay/src/RdkCOverlay.cpp) in several      *)
(* processes on one /dev/iav.  Each process has the library's globals; the *)
(* overlay memory, the driver's settings and the bitmap file are shared    *)
(* and no lock protects them.                                              *)
(*                                                                         *)
(* The memory is a row of colour tables (clut) and, behind it, one region  *)
(* of pixels per stream; region MAX_STREAM_NUM stands for what lies past   *)
(* the end of the mapping.  An image is a member of Image, and Units says  *)
(* how many regions its pixels take.  An image stands for a bitmap and the *)
(* transparency it is drawn with: RgbToYuv is a function of the two.       *)
(***************************************************************************)
EXTENDS Naturals

CONSTANTS
  Proc,
  MAX_STREAM_NUM, MAX_AREA_NUM,
  StreamID, AreaID,  \* the ids callers pass
  Image,             \* valid bitmaps
  Units(_),          \* regions the pixels of an image fill
  Contents,          \* what the file may be changed to: images, NotBmp, NoFile
  Faults             \* the calls that may fail: "fopen", "get", "set"

CONSTANTS NotBmp, NoFile, Blank

VARIABLES
  pc, lib,                 \* per process: where it is, the globals it keeps
  info,                    \* the call of a process: its request and the globals
                           \* every call sets before it reads them
  file,                    \* the bitmap file
  insert,                  \* the driver: per stream, what is inserted, or Blank
  clut, mem,               \* the mapped memory: colour tables and regions
  alone                    \* history: processes in a call nobody disturbed

proc_vars == <<pc, info, lib>>
dev_vars == <<insert, clut, mem>>
vars == <<proc_vars, file, dev_vars, alone>>

Stream == 0 .. MAX_STREAM_NUM - 1
Region == 0 .. MAX_STREAM_NUM
Slot   == 0 .. MAX_STREAM_NUM * MAX_AREA_NUM - 1

\* What a conversion may find: it does not look at the header again.
Bitmap == Image \union {NotBmp}

\* The call of a process: its request, the image whose header was read
\* (geo), the one that was opened for conversion, tempOverlay, and which of
\* the calls it made to the system have failed (history).
Insertion == [area : AreaID, geo : Image, clut : Nat, data : Nat]

Info == [streamID : StreamID, areaID : AreaID, geo : Image,
         opened : Bitmap \union {Blank},
         tempOverlay : Insertion \union {Blank},
         failed : SUBSET {"convert", "save", "set"}]

\* Blank is none of the things it stands for the absence of.
ASSUME OverlayAssumption ==
  /\ {MAX_STREAM_NUM, MAX_AREA_NUM} \subseteq Nat \ {0}
  /\ StreamID \subseteq Nat /\ AreaID \subseteq Nat
  /\ \A i \in Image : Units(i) \in Nat
  /\ Contents \subseteq Bitmap \union {NoFile}
  /\ Blank \notin Bitmap /\ Blank \notin Info /\ Blank \notin Insertion
  /\ Blank \notin [stream : StreamID,
                   picture : [area : AreaID, geo : Image, colours : Image,
                              pixels : Image \X Image]]

\* The globals of a fresh process.  revertOverlay: a previous insertion is
\* known to be in tempOverlay.
NoGlobals == [clutAddrOffset |-> 0, revertOverlay |-> FALSE]

\* A process in rdkc_set_overlay past its validation.
InCall(p) == info[p] # Blank
On(p, s)  == InCall(p) /\ info[p].streamID = s

Init ==
  /\ pc = [p \in Proc |-> "new"]
  /\ info = [p \in Proc |-> Blank]
  /\ lib = [p \in Proc |-> NoGlobals]
  /\ file \in Contents
  /\ insert = [s \in Stream |-> Blank]
  /\ clut = [c \in Slot |-> Blank]
  /\ mem = [r \in Region |-> Blank]
  /\ alone = {}

Goto(p, l) == pc' = [pc EXCEPT ![p] = l]

\* rdkc_set_overlay goes on at l, or returns.
GoOn(p, l) == Goto(p, l) /\ info' = info /\ alone' = alone

\* Step f of it failed, and it goes on at l all the same.
GoOnWithout(p, f, l) ==
  /\ Goto(p, l) /\ alone' = alone
  /\ info' = [info EXCEPT ![p].failed = @ \union {f}]

Return(p) ==
  /\ Goto(p, "idle")
  /\ info' = [info EXCEPT ![p] = Blank] /\ alone' = alone \ {p}

-----------------------------------------------------------------------------
\* rdkc_init_overlay maps the memory; when it fails nothing changes.
InitOverlay(p) ==
  /\ pc[p] = "new" /\ GoOn(p, "idle")
  /\ UNCHANGED <<lib, file, dev_vars>>

\* Mutant of ValidIds: off by one more.
ValidIdsOneMore(s, a) == s <= MAX_STREAM_NUM + 1 /\ a <= MAX_AREA_NUM

\* verify_stream_encode_state and verify_area_ID accept one id too many.
ValidIds(s, a) == s <= MAX_STREAM_NUM /\ a <= MAX_AREA_NUM

\* validate_overlay_info passes: the header of the file gives the geometry.
\* A call it refuses returns OVERLAY_FAILURE and changes nothing.
Validate(p, s, a) ==
  /\ pc[p] = "idle" /\ ValidIds(s, a) /\ file \in Image
  /\ Goto(p, "clut")
  /\ info' = [info EXCEPT ![p] = [streamID |-> s, areaID |-> a, geo |-> file,
                opened |-> Blank, tempOverlay |-> Blank, failed |-> {}]]
  /\ LET rivals == {q \in Proc : On(q, s)}
     IN  alone' = IF rivals = {} THEN alone \union {p} ELSE alone \ rivals
  /\ UNCHANGED <<lib, file, dev_vars>>

-----------------------------------------------------------------------------
(* bmp_convert, in place in the memory all processes and the driver share. *)

\* Mutant of ClutID: one table per area, whatever the stream.
ClutIDOfArea(i) == i.areaID

\* The colour table of an area: MAX_AREA_NUM of them for each stream.
ClutID(i) == i.streamID * MAX_AREA_NUM + i.areaID

\* The colours go to the table of the area; past the last table they land
\* in the first region.
ConvertColours(p) ==
  LET c == ClutID(info[p])
  IN  /\ pc[p] = "clut" /\ file # NoFile
      /\ Goto(p, "pixels") /\ info' = [info EXCEPT ![p].opened = file]
      /\ lib' = [lib EXCEPT ![p].clutAddrOffset = c]
      /\ clut' = IF c \in Slot THEN [clut EXCEPT ![c] = file] ELSE clut
      /\ mem' = IF c \in Slot THEN mem ELSE [mem EXCEPT ![0] = <<file, file>>]
     
      /\ UNCHANGED <<file, insert, alone>>

\* The regions an image of the geometry read before fills, from the
\* caller's region on.
Covered(i) ==
  {IF r < MAX_STREAM_NUM THEN r ELSE MAX_STREAM_NUM :
     r \in i.streamID .. i.streamID + Units(i.geo) - 1}

\* The pixels of the opened file, laid out by the geometry; it is closed.
ConvertPixels(p) ==
  LET i == info[p]
  IN  /\ pc[p] = "pixels" /\ Goto(p, "save")
      /\ info' = [info EXCEPT ![p].opened = Blank] /\ alone' = alone
      /\ mem' = [r \in Region |-> IF r \in Covered(i) THEN <<i.geo, i.opened>>
                                                      ELSE mem[r]]
      /\ UNCHANGED <<lib, file, insert, clut>>

\* Mutant of ConvertFails: the conversion is skipped for a good file too.
ConvertSkipped(p) ==
  /\ pc[p] = "clut" /\ GoOn(p, "save")
  /\ UNCHANGED <<lib, file, dev_vars>>

\* The file cannot be opened any more: nothing is converted, the offset of
\* an earlier call stays, and rdkc_set_overlay goes on.
ConvertFails(p) ==
  /\ pc[p] = "clut"
  /\ file = NoFile \/ "fopen" \in Faults
  /\ GoOnWithout(p, "convert", "save")
  /\ UNCHANGED <<lib, file, dev_vars>>

-----------------------------------------------------------------------------
(* The rest of rdkc_set_overlay.                                           *)

\* The size is checked when the pixels have been written.
CheckSize(p, i) ==
  IF Units(i.geo) > 1 THEN Return(p)
  ELSE /\ Goto(p, "set") /\ alone' = alone
       /\ info' = [info EXCEPT ![p] = i]

\* save_overlay: the insertion of the stream, which the driver knows if it
\* is one of its own.
Save(p) ==
  /\ pc[p] = "save" /\ info[p].streamID \in Stream
  /\ CheckSize(p, [info[p] EXCEPT !.tempOverlay = insert[info[p].streamID]])
  /\ lib' = [lib EXCEPT ![p].revertOverlay = TRUE]
  /\ UNCHANGED <<file, dev_vars>>

\* GET fails: tempOverlay is all zero, revertOverlay stays what it was.
SaveFails(p) ==
  /\ pc[p] = "save"
  /\ info[p].streamID \notin Stream \/ "get" \in Faults
  /\ CheckSize(p, [info[p] EXCEPT !.failed = @ \union {"save"}])
  /\ UNCHANGED <<lib, file, dev_vars>>

\* The insertion a call asks for.
Wanted(p) == [area |-> info[p].areaID, geo |-> info[p].geo,
              clut |-> lib[p].clutAddrOffset, data |-> info[p].streamID]

Set(p) ==
  /\ pc[p] = "set" /\ info[p].streamID \in Stream
  /\ insert' = [insert EXCEPT ![info[p].streamID] = Wanted(p)]
  /\ Return(p)
  /\ UNCHANGED <<lib, file, clut, mem>>

\* SET fails: revert if a previous insertion is at hand, else report success.
SetFails(p) ==
  /\ pc[p] = "set"
  /\ info[p].streamID \notin Stream \/ "set" \in Faults
  /\ IF lib[p].revertOverlay THEN GoOnWithout(p, "set", "revert") ELSE Return(p)
  /\ UNCHANGED <<lib, file, dev_vars>>

\* Mutant of Revert: the insertion of a fresh process.
RevertToNothing(p) ==
  /\ pc[p] = "revert" /\ info[p].streamID \in Stream
  /\ insert' = [insert EXCEPT ![info[p].streamID] = Blank]
  /\ Return(p)
  /\ UNCHANGED <<lib, file, clut, mem>>

Revert(p) ==
  /\ pc[p] = "revert" /\ info[p].streamID \in Stream
  /\ insert' = [insert EXCEPT ![info[p].streamID] = info[p].tempOverlay]
  /\ Return(p)
  /\ UNCHANGED <<lib, file, clut, mem>>

RevertFails(p) ==
  /\ pc[p] = "revert"
  /\ info[p].streamID \notin Stream \/ "set" \in Faults
  /\ lib' = [lib EXCEPT ![p].revertOverlay = FALSE]
  /\ Return(p)
  /\ UNCHANGED <<file, dev_vars>>

-----------------------------------------------------------------------------
\* The process ends, in a call or not; the next one starts afresh.
Exit(p) ==
  /\ pc[p] # "new" /\ Goto(p, "new")
  /\ info' = [info EXCEPT ![p] = Blank] /\ lib' = [lib EXCEPT ![p] = NoGlobals]
  /\ alone' = alone \ {p}
  /\ UNCHANGED <<file, dev_vars>>

\* Somebody replaces or removes the bitmap: no call is undisturbed.
ChangeFile ==
  /\ file' \in Contents \ {file}
  /\ alone' = {}
  /\ UNCHANGED <<proc_vars, dev_vars>>

Next ==
  \/ ChangeFile
  \/ \E p \in Proc :
       \/ InitOverlay(p) \/ Exit(p)
       \/ \E s \in StreamID, a \in AreaID : Validate(p, s, a)
       \/ ConvertColours(p) \/ ConvertPixels(p) \/ ConvertFails(p)
       \/ Save(p) \/ SaveFails(p)
       \/ Set(p) \/ SetFails(p) \/ Revert(p) \/ RevertFails(p)

Spec == Init /\ [][Next]_vars

-----------------------------------------------------------------------------
(* What a viewer of a stream sees.                                         *)

PictureOf(n) ==
  IF n = Blank THEN Blank
  ELSE [area |-> n.area, geo |-> n.geo,
        colours |-> IF n.clut \in Slot THEN clut[n.clut] ELSE Blank,
        pixels |-> mem[n.data]]

Picture(s) == PictureOf(insert[s])

\* The picture the call of p is to leave on its stream.
Requested(p) ==
  LET i == info[p].geo
  IN  [area |-> info[p].areaID, geo |-> i, colours |-> i, pixels |-> <<i, i>>]

-----------------------------------------------------------------------------
(* Properties.                                                             *)

\* The variables stay in their domains: every pc is one of the stages of
\* rdkc_set_overlay, and the driver's insertions, the colour tables and the
\* regions hold images or nothing.
TypeOK ==
  /\ pc \in [Proc -> {"new", "idle", "clut", "pixels", "save", "set", "revert"}]
  /\ \A p \in Proc : info[p] = Blank \/ info[p] \in Info
  /\ lib \in [Proc -> [clutAddrOffset : Nat, revertOverlay : BOOLEAN]]
  /\ file \in Contents
  /\ \A s \in Stream :
       insert[s] = Blank \/ (insert[s] \in Insertion /\ insert[s].data = s)
  /\ clut \in [Slot -> Bitmap \union {Blank}]
  /\ \A r \in Region : mem[r] = Blank \/ mem[r] \in Bitmap \X Bitmap
  /\ alone \subseteq Proc /\ \A p \in alone : InCall(p)

\* An insertion with the colours of another stream: the offset an earlier
\* call had left, taken when the conversion failed.
Garbled(s) == insert[s] # Blank /\ insert[s].clut \div MAX_AREA_NUM # s

\* The colour tables and regions of the streams are disjoint: what a stream
\* shows changes only while some process is in a call on that very stream,
\* unless an earlier call left it with the colours of another one
\* (rdkc_init_overlay splits the memory, bmp_convert picks the table).
OthersUntouched ==
  [][\A s \in Stream :
       Picture(s)' # Picture(s) => Garbled(s) \/ \E p \in Proc : On(p, s)]_vars

\* Nothing is written past the end of the mapped overlay memory: every id
\* that passes the checks of validate_overlay_info names a region.
InsideMapping == mem[MAX_STREAM_NUM] = Blank

Service == INSTANCE OverlayService WITH
  screen <- [s \in Stream |-> Picture(s)],
  call <- [p \in Proc |-> IF InCall(p)
             THEN [stream |-> info[p].streamID, picture |-> Requested(p)]
             ELSE Blank],
  alone <- {p \in alone : info[p].failed = {}},
  garbled <- {s \in Stream : Garbled(s)}

\* The library implements OverlayService: an undisturbed call in which nothing
\* failed and that returns OVERLAY_SUCCESS leaves the requested picture on its
\* stream, complete.
ImplementsService == Service!Spec

\* During an undisturbed call that could save the insertion, the driver keeps
\* the insertion it has or takes the one the call asks for, whatever else
\* fails; a revert in particular brings back what was there (save_overlay and
\* revert_overlay).
InsertionKept ==
  [][\A p \in alone : info[p].streamID \in Stream /\ "save" \notin info[p].failed =>
       insert'[info[p].streamID] \in {insert[info[p].streamID], Wanted(p)}]_vars

\* OVERLAY_SUCCESS, which is what Set, SetFails and Revert return, means that
\* the stream shows the requested picture.
SuccessMeansShown ==
  [][\A p \in alone, s \in Stream :
       On(p, s) /\ ~InCall(p)' /\ (Set(p) \/ SetFails(p) \/ Revert(p)) =>
         Picture(s)' = Requested(p)]_vars
=============================================================================
