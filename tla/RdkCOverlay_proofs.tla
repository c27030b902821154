------------------------- MODULE RdkCOverlay_proofs -------------------------
(***************************************************************************)
(* Theorems about the overlay library, for every number of processes,      *)
(* streams and areas, every set of images, every behaviour of the bitmap   *)
(* file and every combination of failing calls.                            *)
(***************************************************************************)
EXTENDS RdkCOverlay, Integers, TLAPS

-----------------------------------------------------------------------------
(* A call from its validation to its return.                               *)

CallStage == {"clut", "pixels", "save", "set", "revert"}

\* The part of TypeOK about the processes ...
ProcTypeOK ==
  /\ pc \in [Proc -> {"new", "idle"} \union CallStage]
  /\ info \in [Proc -> Info \union {Blank}]
  /\ alone \subseteq Proc /\ \A p \in alone : InCall(p)

\* ... and the one about what they share and remember.
DeviceTypeOK ==
  /\ lib \in [Proc -> [clutAddrOffset : Nat, revertOverlay : BOOLEAN]]
  /\ file \in Contents
  /\ insert \in [Stream -> Insertion \union {Blank}]
  /\ \A s \in Stream : insert[s] # Blank => insert[s].data = s
  /\ clut \in [Slot -> Bitmap \union {Blank}]
  /\ mem \in [Region -> (Bitmap \X Bitmap) \union {Blank}]

\* What holds of the record i of a call at stage l.
StageOK(i, l) ==
  /\ ValidIds(i.streamID, i.areaID)
  /\ i.tempOverlay # Blank => i.tempOverlay.data = i.streamID
  /\ l = "pixels" => i.opened # Blank
  /\ l = "revert" => "set" \in i.failed

StageInv ==
  \A p \in Proc :
    /\ InCall(p) <=> pc[p] \in CallStage
    /\ InCall(p) => StageOK(info[p], pc[p])

CallInv == ProcTypeOK /\ DeviceTypeOK /\ StageInv

\* What the call is about stays what it is, and what failed has failed.
SameCall(i, j) ==
  /\ j.streamID = i.streamID /\ j.areaID = i.areaID /\ j.geo = i.geo
  /\ i.failed \subseteq j.failed

\* A process goes on within its call, at stage l and with the record i ...
Moves(p, i, l) ==
  /\ InCall(p) /\ l \in CallStage /\ i \in Info
  /\ pc' = [pc EXCEPT ![p] = l] /\ info' = [info EXCEPT ![p] = i]
  /\ alone' = alone
  /\ SameCall(info[p], i) /\ StageOK(i, l)

\* ... or leaves it, or is in none before and after.
Leaves(p, l) ==
  /\ l \in {"new", "idle"}
  /\ pc' = [pc EXCEPT ![p] = l] /\ info' = [info EXCEPT ![p] = Blank]
  /\ alone' = alone \ {p}

\* The number of a colour table is a number.
LEMMA ClutIDType == \A i \in Info : ClutID(i) \in Nat
<1> SUFFICES ASSUME NEW i \in Info PROVE ClutID(i) \in Nat
  OBVIOUS
<1>1. i.streamID \in Nat /\ i.areaID \in Nat
  BY OverlayAssumption DEF Info
<1>2. QED BY <1>1, OverlayAssumption DEF ClutID

\* The records a call may go on with.
LEMMA RecordOpened ==
  ASSUME NEW i \in Info, NEW x \in Bitmap \union {Blank}
  PROVE  /\ [i EXCEPT !.opened = x] \in Info
         /\ SameCall(i, [i EXCEPT !.opened = x])
         /\ [i EXCEPT !.opened = x].tempOverlay = i.tempOverlay
         /\ [i EXCEPT !.opened = x].opened = x
         /\ [i EXCEPT !.opened = x].failed = i.failed
BY DEF Info, SameCall

LEMMA RecordSaved ==
  ASSUME NEW i \in Info, NEW n \in Insertion \union {Blank}
  PROVE  /\ [i EXCEPT !.tempOverlay = n] \in Info
         /\ SameCall(i, [i EXCEPT !.tempOverlay = n])
         /\ [i EXCEPT !.tempOverlay = n].tempOverlay = n
         /\ [i EXCEPT !.tempOverlay = n].failed = i.failed
BY DEF Info, SameCall

LEMMA RecordFailed ==
  ASSUME NEW i \in Info, NEW f \in {"convert", "save", "set"}
  PROVE  /\ [i EXCEPT !.failed = @ \union {f}] \in Info
         /\ SameCall(i, [i EXCEPT !.failed = @ \union {f}])
         /\ [i EXCEPT !.failed = @ \union {f}].tempOverlay = i.tempOverlay
         /\ [i EXCEPT !.failed = @ \union {f}].failed = i.failed \union {f}
<1>1. i.failed \in SUBSET {"convert", "save", "set"}
  BY DEF Info
<1>2. i.failed \union {f} \in SUBSET {"convert", "save", "set"}
  BY <1>1
<1>3. QED BY <1>2 DEF Info, SameCall

\* A process that moves on or leaves keeps what holds of its call, and the
\* calls of the others.
LEMMA MovesKeep ==
  ASSUME ProcTypeOK, StageInv, NEW p \in Proc, NEW i, NEW l, Moves(p, i, l)
  PROVE  ProcTypeOK' /\ StageInv'
<1>1. /\ \A q \in Proc : q # p => pc'[q] = pc[q] /\ info'[q] = info[q]
      /\ pc'[p] = l /\ info'[p] = i
  BY DEF Moves, ProcTypeOK
<1>2. InCall(p)' /\ \A q \in Proc : q # p => InCall(q)' = InCall(q)
  BY <1>1, OverlayAssumption DEF InCall, Moves
<1>3. ProcTypeOK'
  BY <1>1, <1>2 DEF Moves, ProcTypeOK
<1>4. StageInv'
  BY <1>1, <1>2 DEF Moves, StageInv
<1>5. QED BY <1>3, <1>4

LEMMA LeavesKeep ==
  ASSUME ProcTypeOK, StageInv, NEW p \in Proc, NEW l, Leaves(p, l)
  PROVE  ProcTypeOK' /\ StageInv'
<1>1. /\ \A q \in Proc : q # p => pc'[q] = pc[q] /\ info'[q] = info[q]
      /\ pc'[p] = l /\ info'[p] = Blank
  BY DEF Leaves, ProcTypeOK
<1>2. ~ InCall(p)' /\ \A q \in Proc : q # p => InCall(q)' = InCall(q)
  BY <1>1 DEF InCall
<1>3. ProcTypeOK'
  BY <1>1, <1>2 DEF Leaves, ProcTypeOK
<1>4. StageInv'
  BY <1>1, <1>2 DEF Leaves, StageInv, CallStage
<1>5. QED BY <1>3, <1>4

-----------------------------------------------------------------------------
(* Every action is one of these moves.                                     *)

\* The file is a bitmap of some kind, unless it is gone, and the driver's
\* insertions are those of the streams.
LEMMA DeviceValues ==
  ASSUME DeviceTypeOK
  PROVE  /\ file # NoFile => file \in Bitmap
         /\ \A s \in Stream : insert[s] \in Insertion \union {Blank}
BY OverlayAssumption DEF DeviceTypeOK

\* A process at a stage of a call has a record of it.
LEMMA AtStage ==
  ASSUME ProcTypeOK, StageInv, NEW p \in Proc, pc[p] \in CallStage
  PROVE  InCall(p) /\ info[p] \in Info /\ StageOK(info[p], pc[p])
BY DEF ProcTypeOK, StageInv, InCall

LEMMA ConvertMoves ==
  ASSUME CallInv, NEW p \in Proc
  PROVE  /\ ConvertColours(p) =>
              Moves(p, [info[p] EXCEPT !.opened = file], "pixels")
         /\ ConvertPixels(p) =>
              Moves(p, [info[p] EXCEPT !.opened = Blank], "save")
         /\ ConvertFails(p) =>
              Moves(p, [info[p] EXCEPT !.failed = @ \union {"convert"}], "save")
<1> USE DEF CallInv
<1>1. ASSUME ConvertColours(p)
      PROVE  Moves(p, [info[p] EXCEPT !.opened = file], "pixels")
  <2> DEFINE i == [info[p] EXCEPT !.opened = file]
  <2>1. InCall(p) /\ info[p] \in Info /\ StageOK(info[p], pc[p])
    BY <1>1, AtStage DEF ConvertColours, CallStage
  <2>2. file \in Bitmap
    BY <1>1, DeviceValues DEF ConvertColours
  <2>3. /\ i \in Info /\ SameCall(info[p], i) /\ i.opened = file
        /\ i.tempOverlay = info[p].tempOverlay
    BY <2>1, <2>2, RecordOpened
  <2>4. /\ pc' = [pc EXCEPT ![p] = "pixels"] /\ info' = [info EXCEPT ![p] = i]
        /\ alone' = alone
    BY <1>1 DEF ConvertColours, Goto
  <2> HIDE DEF i
  <2>5. StageOK(i, "pixels")
    BY <2>1, <2>2, <2>3, OverlayAssumption DEF StageOK, SameCall
  <2>6. Moves(p, i, "pixels")
    BY <2>1, <2>3, <2>4, <2>5 DEF Moves, CallStage
  <2>7. QED BY <2>6 DEF i
<1>2. ASSUME ConvertPixels(p)
      PROVE  Moves(p, [info[p] EXCEPT !.opened = Blank], "save")
  <2> DEFINE i == [info[p] EXCEPT !.opened = Blank]
  <2>1. InCall(p) /\ info[p] \in Info /\ StageOK(info[p], pc[p])
    BY <1>2, AtStage DEF ConvertPixels, CallStage
  <2>2. /\ i \in Info /\ SameCall(info[p], i)
        /\ i.tempOverlay = info[p].tempOverlay
    BY <2>1, RecordOpened
  <2>3. /\ pc' = [pc EXCEPT ![p] = "save"] /\ info' = [info EXCEPT ![p] = i]
        /\ alone' = alone
    BY <1>2 DEF ConvertPixels, Goto
  <2> HIDE DEF i
  <2>4. StageOK(i, "save")
    BY <2>1, <2>2 DEF StageOK, SameCall
  <2>5. Moves(p, i, "save")
    BY <2>1, <2>2, <2>3, <2>4 DEF Moves, CallStage
  <2>6. QED BY <2>5 DEF i
<1>3. ASSUME ConvertFails(p)
      PROVE  Moves(p, [info[p] EXCEPT !.failed = @ \union {"convert"}], "save")
  <2> DEFINE i == [info[p] EXCEPT !.failed = @ \union {"convert"}]
  <2>1. InCall(p) /\ info[p] \in Info /\ StageOK(info[p], pc[p])
    BY <1>3, AtStage DEF ConvertFails, CallStage
  <2>2. /\ i \in Info /\ SameCall(info[p], i)
        /\ i.tempOverlay = info[p].tempOverlay
    BY <2>1, RecordFailed
  <2>3. /\ pc' = [pc EXCEPT ![p] = "save"] /\ info' = [info EXCEPT ![p] = i]
        /\ alone' = alone
    BY <1>3, <2>1 DEF ConvertFails, GoOnWithout, Goto
  <2> HIDE DEF i
  <2>4. StageOK(i, "save")
    BY <2>1, <2>2 DEF StageOK, SameCall
  <2>5. Moves(p, i, "save")
    BY <2>1, <2>2, <2>3, <2>4 DEF Moves, CallStage
  <2>6. QED BY <2>5 DEF i
<1>4. QED BY <1>1, <1>2, <1>3

LEMMA SaveMoves ==
  ASSUME CallInv, NEW p \in Proc
  PROVE  /\ Save(p) =>
              \/ Moves(p, [info[p] EXCEPT !.tempOverlay = insert[info[p].streamID]],
                       "set")
              \/ Leaves(p, "idle")
         /\ SaveFails(p) =>
              \/ Moves(p, [info[p] EXCEPT !.failed = @ \union {"save"}], "set")
              \/ Leaves(p, "idle")
<1> USE DEF CallInv
<1>1. ASSUME NEW i \in Info, InCall(p), SameCall(info[p], i), StageOK(i, "set"),
             CheckSize(p, i)
      PROVE  Moves(p, i, "set") \/ Leaves(p, "idle")
  BY <1>1 DEF CheckSize, Return, Goto, Moves, Leaves, CallStage
<1>2. ASSUME Save(p)
      PROVE  \/ Moves(p, [info[p] EXCEPT !.tempOverlay = insert[info[p].streamID]],
                      "set")
             \/ Leaves(p, "idle")
  <2> DEFINE n == insert[info[p].streamID]
             i == [info[p] EXCEPT !.tempOverlay = n]
  <2>1. InCall(p) /\ info[p] \in Info /\ StageOK(info[p], pc[p])
    BY <1>2, AtStage DEF Save, CallStage
  <2>2. /\ n \in Insertion \union {Blank}
        /\ n # Blank => n.data = info[p].streamID
    BY <1>2, DeviceValues DEF Save, DeviceTypeOK
  <2>3. i \in Info /\ SameCall(info[p], i) /\ i.tempOverlay = n
    BY <2>1, <2>2, RecordSaved
  <2>4. CheckSize(p, i)
    BY <1>2 DEF Save
  <2> HIDE DEF i
  <2>5. StageOK(i, "set")
    BY <2>1, <2>2, <2>3 DEF StageOK, SameCall
  <2>6. Moves(p, i, "set") \/ Leaves(p, "idle")
    BY <1>1, <2>1, <2>3, <2>4, <2>5
  <2>7. QED BY <2>6 DEF i
<1>3. ASSUME SaveFails(p)
      PROVE  \/ Moves(p, [info[p] EXCEPT !.failed = @ \union {"save"}], "set")
             \/ Leaves(p, "idle")
  <2> DEFINE i == [info[p] EXCEPT !.failed = @ \union {"save"}]
  <2>1. InCall(p) /\ info[p] \in Info /\ StageOK(info[p], pc[p])
    BY <1>3, AtStage DEF SaveFails, CallStage
  <2>2. i \in Info /\ SameCall(info[p], i) /\ i.tempOverlay = info[p].tempOverlay
    BY <2>1, RecordFailed
  <2>3. CheckSize(p, i)
    BY <1>3 DEF SaveFails
  <2> HIDE DEF i
  <2>4. StageOK(i, "set")
    BY <2>1, <2>2 DEF StageOK, SameCall
  <2>5. Moves(p, i, "set") \/ Leaves(p, "idle")
    BY <1>1, <2>1, <2>2, <2>3, <2>4
  <2>6. QED BY <2>5 DEF i
<1>4. QED BY <1>2, <1>3

LEMMA SetMoves ==
  ASSUME CallInv, NEW p \in Proc
  PROVE  /\ Set(p) \/ Revert(p) \/ RevertFails(p) => InCall(p) /\ Leaves(p, "idle")
         /\ SetFails(p) =>
              \/ Moves(p, [info[p] EXCEPT !.failed = @ \union {"set"}], "revert")
              \/ InCall(p) /\ Leaves(p, "idle")
<1> USE DEF CallInv
<1>1. Set(p) \/ Revert(p) \/ RevertFails(p) => InCall(p) /\ Leaves(p, "idle")
  BY AtStage DEF Set, Revert, RevertFails, Return, Goto, Leaves, CallStage
<1>2. ASSUME SetFails(p)
      PROVE  \/ Moves(p, [info[p] EXCEPT !.failed = @ \union {"set"}], "revert")
             \/ InCall(p) /\ Leaves(p, "idle")
  <2> DEFINE i == [info[p] EXCEPT !.failed = @ \union {"set"}]
  <2>1. InCall(p) /\ info[p] \in Info /\ StageOK(info[p], pc[p])
    BY <1>2, AtStage DEF SetFails, CallStage
  <2>2. /\ i \in Info /\ SameCall(info[p], i)
        /\ i.tempOverlay = info[p].tempOverlay
        /\ i.failed = info[p].failed \union {"set"}
    BY <2>1, RecordFailed
  <2>3. \/ /\ pc' = [pc EXCEPT ![p] = "revert"] /\ info' = [info EXCEPT ![p] = i]
           /\ alone' = alone
        \/ Leaves(p, "idle")
    BY <1>2, <2>1 DEF SetFails, GoOnWithout, Goto, Return, Leaves
  <2> HIDE DEF i
  <2>4. StageOK(i, "revert")
    BY <2>1, <2>2 DEF StageOK, SameCall
  <2>5. Moves(p, i, "revert") \/ Leaves(p, "idle")
    BY <2>1, <2>2, <2>3, <2>4 DEF Moves, CallStage
  <2>6. QED BY <2>1, <2>5 DEF i
<1>3. QED BY <1>1, <1>2

\* Outside of a call there is nothing to leave, and Exit leaves at any stage.
LEMMA ProcessLeaves ==
  ASSUME CallInv, NEW p \in Proc
  PROVE  /\ InitOverlay(p) => Leaves(p, "idle")
         /\ Exit(p) => Leaves(p, "new")
<1>1. ASSUME InitOverlay(p) PROVE Leaves(p, "idle")
  <2>1. info[p] = Blank /\ p \notin alone
    BY <1>1 DEF InitOverlay, CallInv, StageInv, ProcTypeOK, InCall, CallStage
  <2>2. info = [info EXCEPT ![p] = Blank] /\ alone = alone \ {p}
    BY <2>1 DEF CallInv, ProcTypeOK
  <2>3. QED BY <1>1, <2>2 DEF InitOverlay, GoOn, Goto, Leaves
<1>2. QED BY <1>1 DEF Exit, Goto, Leaves

\* A call begins: its record is new, and so is its process among the calls.
LEMMA ValidateBegins ==
  ASSUME CallInv, NEW p \in Proc, NEW s \in StreamID, NEW a \in AreaID,
         Validate(p, s, a)
  PROVE  /\ ProcTypeOK' /\ StageInv'
         /\ ~ InCall(p) /\ InCall(p)' /\ pc'[p] = "clut"
         /\ info'[p].streamID = s /\ info'[p].areaID = a /\ info'[p].geo = file
         /\ info'[p].failed = {}
         /\ \A q \in Proc : q # p => info'[q] = info[q] /\ pc'[q] = pc[q]
<1> USE DEF CallInv
<1> DEFINE i == [streamID |-> s, areaID |-> a, geo |-> file,
                 opened |-> Blank, tempOverlay |-> Blank, failed |-> {}]
           rivals == {q \in Proc : On(q, s)}
<1>1. i \in Info
  BY DEF Validate, Info
<1>2. /\ pc' = [pc EXCEPT ![p] = "clut"] /\ info' = [info EXCEPT ![p] = i]
      /\ alone' = IF rivals = {} THEN alone \union {p} ELSE alone \ rivals
  BY DEF Validate, Goto
<1>3. StageOK(i, "clut")
  BY DEF Validate, StageOK
<1>4. ~ InCall(p)
  BY DEF Validate, StageInv, CallStage
<1>5. i.streamID = s /\ i.areaID = a /\ i.geo = file /\ i.failed = {}
  OBVIOUS
<1> HIDE DEF i, rivals
<1>6. /\ \A q \in Proc : q # p => info'[q] = info[q] /\ pc'[q] = pc[q]
      /\ info'[p] = i /\ pc'[p] = "clut"
  BY <1>2 DEF ProcTypeOK
<1>7. InCall(p)' /\ \A q \in Proc : q # p => InCall(q)' = InCall(q)
  BY <1>1, <1>6, OverlayAssumption DEF InCall
<1>8. ProcTypeOK'
  BY <1>1, <1>2, <1>6, <1>7 DEF ProcTypeOK, CallStage
<1>9. StageInv'
  BY <1>3, <1>6, <1>7 DEF StageInv, CallStage
<1>10. QED BY <1>4, <1>5, <1>6, <1>7, <1>8, <1>9

-----------------------------------------------------------------------------
(* Types.                                                                  *)

\* The memory and the driver's settings keep their types.
LEMMA ConvertDeviceType ==
  ASSUME CallInv, NEW p \in Proc, ConvertColours(p) \/ ConvertPixels(p) \/ ConvertFails(p)
  PROVE  DeviceTypeOK'
<1> USE DEF CallInv
<1>1. CASE ConvertColours(p)
  <2>1. info[p] \in Info
    BY <1>1, AtStage DEF ConvertColours, CallStage
  <2> DEFINE c == ClutID(info[p])
  <2>2. c \in Nat
    BY <2>1, ClutIDType
  <2>3. file \in Bitmap
    BY <1>1, DeviceValues DEF ConvertColours
  <2>4. /\ lib' = [lib EXCEPT ![p].clutAddrOffset = c]
        /\ clut' = IF c \in Slot THEN [clut EXCEPT ![c] = file] ELSE clut
        /\ mem' = IF c \in Slot THEN mem ELSE [mem EXCEPT ![0] = <<file, file>>]
        /\ UNCHANGED <<file, insert>>
    BY <1>1 DEF ConvertColours
  <2> HIDE DEF c
  <2>5. lib' \in [Proc -> [clutAddrOffset : Nat, revertOverlay : BOOLEAN]]
    BY <2>2, <2>4 DEF DeviceTypeOK
  <2>6. clut' \in [Slot -> Bitmap \union {Blank}]
    BY <2>3, <2>4 DEF DeviceTypeOK
  <2>7. mem' \in [Region -> (Bitmap \X Bitmap) \union {Blank}]
    BY <2>3, <2>4 DEF DeviceTypeOK
  <2>8. QED BY <2>4, <2>5, <2>6, <2>7 DEF DeviceTypeOK
<1>2. CASE ConvertPixels(p)
  <2>1. info[p] \in Info /\ info[p].opened # Blank
    BY <1>2, AtStage DEF ConvertPixels, CallStage, StageOK
  <2>2. <<info[p].geo, info[p].opened>> \in Bitmap \X Bitmap
    BY <2>1 DEF Info, Bitmap
  <2> DEFINE x == <<info[p].geo, info[p].opened>>
  <2>3. mem' = [r \in Region |-> IF r \in Covered(info[p]) THEN x ELSE mem[r]]
    BY <1>2 DEF ConvertPixels
  <2>4. UNCHANGED <<lib, file, insert, clut>>
    BY <1>2 DEF ConvertPixels
  <2> HIDE DEF x
  <2>5. mem' \in [Region -> (Bitmap \X Bitmap) \union {Blank}]
    BY <2>2, <2>3 DEF DeviceTypeOK, x
  <2>6. QED BY <2>4, <2>5 DEF DeviceTypeOK
<1>3. CASE ConvertFails(p)
  BY <1>3 DEF ConvertFails, dev_vars, DeviceTypeOK
<1>4. QED BY <1>1, <1>2, <1>3

LEMMA SetDeviceType ==
  ASSUME CallInv, NEW p \in Proc,
         \/ Save(p) \/ SaveFails(p) \/ Set(p) \/ SetFails(p)
         \/ Revert(p) \/ RevertFails(p)
  PROVE  DeviceTypeOK'
<1> USE DEF CallInv
<1>1. CASE Save(p) \/ RevertFails(p)
  <2>1. PICK b \in BOOLEAN : lib' = [lib EXCEPT ![p].revertOverlay = b]
    BY <1>1 DEF Save, RevertFails
  <2>2. lib' \in [Proc -> [clutAddrOffset : Nat, revertOverlay : BOOLEAN]]
    BY <2>1, Zenon DEF DeviceTypeOK
  <2>3. UNCHANGED <<file, insert, clut, mem>>
    BY <1>1 DEF Save, RevertFails, dev_vars
  <2>4. QED BY <2>2, <2>3 DEF DeviceTypeOK
<1>2. CASE SaveFails(p) \/ SetFails(p)
  BY <1>2 DEF SaveFails, SetFails, dev_vars, DeviceTypeOK
<1>3. CASE Set(p) \/ Revert(p)
  <2>1. info[p] \in Info /\ StageOK(info[p], pc[p])
    BY <1>3, AtStage DEF Set, Revert, CallStage
  <2> DEFINE s == info[p].streamID
  <2>2. Wanted(p) \in Insertion /\ Wanted(p).data = s
    <3>1. lib[p].clutAddrOffset \in Nat
      BY DEF DeviceTypeOK
    <3>2. info[p].areaID \in AreaID /\ info[p].geo \in Image /\ s \in Nat
      BY <2>1, OverlayAssumption DEF Info
    <3>3. QED BY <3>1, <3>2 DEF Wanted, Insertion
  <2>3. /\ info[p].tempOverlay \in Insertion \union {Blank}
        /\ info[p].tempOverlay # Blank => info[p].tempOverlay.data = s
    BY <2>1 DEF Info, StageOK
  <2>4. PICK n \in Insertion \union {Blank} :
          /\ n # Blank => n.data = s
          /\ insert' = [insert EXCEPT ![s] = n]
    BY <1>3, <2>2, <2>3 DEF Set, Revert
  <2>5. UNCHANGED <<lib, file, clut, mem>>
    BY <1>3 DEF Set, Revert
  <2> HIDE DEF s
  <2>6. QED BY <2>4, <2>5 DEF DeviceTypeOK
<1>4. QED BY <1>1, <1>2, <1>3

LEMMA CallInvInit == Init => CallInv
<1> SUFFICES ASSUME Init PROVE CallInv
  OBVIOUS
<1>1. lib \in [Proc -> [clutAddrOffset : Nat, revertOverlay : BOOLEAN]]
  BY Zenon DEF Init, NoGlobals
<1>2. DeviceTypeOK
  BY <1>1 DEF Init, DeviceTypeOK
<1>3. ProcTypeOK /\ StageInv
  BY DEF Init, ProcTypeOK, StageInv, InCall, CallStage
<1>4. QED BY <1>2, <1>3 DEF CallInv

LEMMA CallInvStep == CallInv /\ [Next]_vars => CallInv'
<1> SUFFICES ASSUME CallInv, [Next]_vars PROVE CallInv'
  OBVIOUS
<1> USE DEF CallInv
<1>1. CASE ChangeFile
  <2>1. UNCHANGED <<pc, info>> /\ alone' = {}
    BY <1>1 DEF ChangeFile, proc_vars
  <2>2. UNCHANGED <<lib, insert, clut, mem>> /\ file' \in Contents
    BY <1>1 DEF ChangeFile, proc_vars, dev_vars
  <2>3. QED BY <2>1, <2>2 DEF ProcTypeOK, StageInv, InCall, DeviceTypeOK
<1>2. CASE UNCHANGED vars
  BY <1>2 DEF vars, proc_vars, dev_vars, ProcTypeOK, StageInv, InCall, DeviceTypeOK
<1>3. ASSUME NEW p \in Proc, InitOverlay(p) \/ Exit(p) PROVE CallInv'
  <2>1. ProcTypeOK' /\ StageInv'
    BY <1>3, ProcessLeaves, LeavesKeep
  <2>2. /\ lib' = lib \/ lib' = [lib EXCEPT ![p] = NoGlobals]
        /\ UNCHANGED <<file, insert, clut, mem>>
    BY <1>3 DEF InitOverlay, Exit, dev_vars
  <2>3. lib' \in [Proc -> [clutAddrOffset : Nat, revertOverlay : BOOLEAN]]
    <3>1. NoGlobals \in [clutAddrOffset : Nat, revertOverlay : BOOLEAN]
      BY DEF NoGlobals
    <3>2. QED BY <2>2, <3>1 DEF DeviceTypeOK
  <2>4. QED BY <2>1, <2>2, <2>3 DEF DeviceTypeOK
<1>4. ASSUME NEW p \in Proc, NEW s \in StreamID, NEW a \in AreaID, Validate(p, s, a)
      PROVE  CallInv'
  <2>1. ProcTypeOK' /\ StageInv'
    BY <1>4, ValidateBegins
  <2>2. UNCHANGED <<lib, file, insert, clut, mem>>
    BY <1>4 DEF Validate, dev_vars
  <2>3. QED BY <2>1, <2>2 DEF DeviceTypeOK
<1>5. ASSUME NEW p \in Proc, ConvertColours(p) \/ ConvertPixels(p) \/ ConvertFails(p)
      PROVE  CallInv'
  BY <1>5, ConvertMoves, MovesKeep, ConvertDeviceType
<1>6. ASSUME NEW p \in Proc, Save(p) \/ SaveFails(p) PROVE CallInv'
  BY <1>6, SaveMoves, MovesKeep, LeavesKeep, SetDeviceType
<1>7. ASSUME NEW p \in Proc, Set(p) \/ SetFails(p) \/ Revert(p) \/ RevertFails(p)
      PROVE  CallInv'
  BY <1>7, SetMoves, MovesKeep, LeavesKeep, SetDeviceType
<1>8. QED BY <1>1, <1>2, <1>3, <1>4, <1>5, <1>6, <1>7 DEF Next

\* Every variable of the library, the driver and the memory keeps its type.
THEOREM TypeCorrect == Spec => []TypeOK
<1>1. CallInv => TypeOK
  BY DEF CallInv, ProcTypeOK, DeviceTypeOK, CallStage, TypeOK
<1>2. QED BY <1>1, CallInvInit, CallInvStep, PTL DEF Spec

-----------------------------------------------------------------------------
(* Undisturbed calls.                                                      *)

\* A process in an undisturbed call is the only one on its stream.
AloneInv == \A p \in alone : \A q \in Proc \ {p} : ~ On(q, info[p].streamID)

\* What an undisturbed call saved is what the driver has until it sets.
SavedInv ==
  \A p \in alone :
    info[p].streamID \in Stream /\ "save" \notin info[p].failed
      /\ pc[p] \in {"set", "revert"} =>
        info[p].tempOverlay = insert[info[p].streamID]

\* A step within a call changes no stream and no other call; one that leaves
\* it ends only its own.
LEMMA MovesRecords ==
  ASSUME CallInv, NEW p \in Proc, NEW i, NEW l, Moves(p, i, l)
  PROVE  /\ info'[p] = i /\ pc'[p] = l /\ alone' = alone
         /\ \A q \in Proc : q # p => info'[q] = info[q] /\ pc'[q] = pc[q]
         /\ \A q \in Proc : info[q] # Blank => info'[q].streamID = info[q].streamID
         /\ \A q \in Proc, s \in Nat : On(q, s)' <=> On(q, s)
<1>1. /\ info'[p] = i /\ pc'[p] = l /\ alone' = alone
      /\ \A q \in Proc : q # p => info'[q] = info[q] /\ pc'[q] = pc[q]
  BY DEF Moves, CallInv, ProcTypeOK
<1>2. i # Blank /\ info[p] # Blank /\ i.streamID = info[p].streamID
  BY OverlayAssumption DEF Moves, SameCall, InCall
<1>3. QED BY <1>1, <1>2 DEF On, InCall

LEMMA LeavesRecords ==
  ASSUME CallInv, NEW p \in Proc, NEW l, Leaves(p, l)
  PROVE  /\ info'[p] = Blank /\ alone' = alone \ {p}
         /\ \A q \in Proc : q # p => info'[q] = info[q] /\ pc'[q] = pc[q]
         /\ \A q \in Proc, s \in Nat : On(q, s)' => On(q, s)
<1>1. /\ info'[p] = Blank /\ alone' = alone \ {p}
      /\ \A q \in Proc : q # p => info'[q] = info[q] /\ pc'[q] = pc[q]
  BY DEF Leaves, CallInv, ProcTypeOK
<1>2. QED BY <1>1 DEF On, InCall

\* Moving on, a call leaves the driver alone; setting an insertion it has
\* saved the driver's or failed to, and reverting it keeps what it saved.
Saving(p, i, l) ==
  /\ insert' = insert
  /\ l = "set" => "save" \in i.failed \/ i.tempOverlay = insert[i.streamID]
  /\ l = "revert" => pc[p] = "set" /\ i.tempOverlay = info[p].tempOverlay

LEMMA MovesSave ==
  ASSUME CallInv, NEW p \in Proc,
         \/ ConvertColours(p) \/ ConvertPixels(p) \/ ConvertFails(p)
         \/ Save(p) \/ SaveFails(p) \/ SetFails(p)
  PROVE  \/ \E i \in Info, l \in CallStage : Moves(p, i, l) /\ Saving(p, i, l)
         \/ Leaves(p, "idle") /\ insert' = insert
<1>1. insert' = insert
  BY DEF ConvertColours, ConvertPixels, ConvertFails, Save, SaveFails, SetFails,
         dev_vars
<1>2. info[p] \in Info
  BY AtStage DEF CallInv, CallStage, ConvertColours, ConvertPixels, ConvertFails, Save,
                 SaveFails, SetFails
<1>3. ASSUME NEW i, NEW l, Moves(p, i, l), Saving(p, i, l)
      PROVE  \E j \in Info, k \in CallStage : Moves(p, j, k) /\ Saving(p, j, k)
  BY <1>3 DEF Moves
<1>4. CASE ConvertColours(p)
  BY <1>1, <1>3, <1>4, ConvertMoves DEF Saving
<1>5. CASE ConvertPixels(p) \/ ConvertFails(p)
  BY <1>1, <1>3, <1>5, ConvertMoves DEF Saving
<1>6. CASE Save(p)
  <2> DEFINE n == insert[info[p].streamID]
             i == [info[p] EXCEPT !.tempOverlay = n]
  <2>1. Moves(p, i, "set") \/ Leaves(p, "idle")
    BY <1>6, SaveMoves
  <2>2. i.tempOverlay = n /\ i.streamID = info[p].streamID
    BY <1>2 DEF Info
  <2> HIDE DEF i
  <2>3. Saving(p, i, "set")
    BY <1>1, <2>2 DEF Saving
  <2>4. QED BY <1>1, <1>3, <2>1, <2>3
<1>7. CASE SaveFails(p)
  <2> DEFINE i == [info[p] EXCEPT !.failed = @ \union {"save"}]
  <2>1. Moves(p, i, "set") \/ Leaves(p, "idle")
    BY <1>7, SaveMoves
  <2>2. "save" \in i.failed
    BY <1>2, RecordFailed
  <2> HIDE DEF i
  <2>3. Saving(p, i, "set")
    BY <1>1, <2>2 DEF Saving
  <2>4. QED BY <1>1, <1>3, <2>1, <2>3
<1>8. CASE SetFails(p)
  <2> DEFINE i == [info[p] EXCEPT !.failed = @ \union {"set"}]
  <2>1. Moves(p, i, "revert") \/ Leaves(p, "idle")
    BY <1>8, SetMoves
  <2>2. i.tempOverlay = info[p].tempOverlay
    BY <1>2, RecordFailed
  <2> HIDE DEF i
  <2>3. Saving(p, i, "revert")
    BY <1>1, <1>8, <2>2 DEF Saving, SetFails
  <2>4. QED BY <1>1, <1>3, <2>1, <2>3
<1>9. QED BY <1>4, <1>5, <1>6, <1>7, <1>8

\* A process takes a stream only by a call that begins; every other step of it
\* is a move or an end.
LEMMA StepShapes ==
  ASSUME CallInv, [Next]_vars
  PROVE  \/ UNCHANGED <<pc, info, insert>> /\ alone' \in {alone, {}}
         \/ \E p \in Proc, s \in StreamID, a \in AreaID : Validate(p, s, a)
         \/ \E p \in Proc, i \in Info, l \in CallStage :
              Moves(p, i, l) /\ Saving(p, i, l)
         \/ \E p \in Proc, l \in {"new", "idle"} :
              Leaves(p, l) /\ (insert' = insert \/ Set(p) \/ Revert(p))
<1>1. CASE ChangeFile \/ UNCHANGED vars
  BY <1>1 DEF ChangeFile, vars, proc_vars, dev_vars
<1>2. ASSUME NEW p \in Proc, InitOverlay(p) \/ Exit(p)
      PROVE  \E l \in {"new", "idle"} : Leaves(p, l) /\ insert' = insert
  BY <1>2, ProcessLeaves DEF InitOverlay, Exit, dev_vars
<1>3. ASSUME NEW p \in Proc, Set(p) \/ Revert(p) \/ RevertFails(p)
      PROVE  Leaves(p, "idle") /\ (insert' = insert \/ Set(p) \/ Revert(p))
  BY <1>3, SetMoves DEF RevertFails, dev_vars
<1>4. QED BY <1>1, <1>2, <1>3, MovesSave DEF Next

LEMMA AloneStep == CallInv /\ AloneInv /\ [Next]_vars => AloneInv'
<1> SUFFICES ASSUME CallInv, AloneInv, [Next]_vars,
                    NEW p \in alone', NEW q \in Proc \ {p}
             PROVE  ~ On(q, info[p].streamID)'
  BY DEF AloneInv
<1>1. CASE UNCHANGED <<pc, info, insert>> /\ alone' \in {alone, {}}
  BY <1>1 DEF AloneInv, On, InCall
<1>2. ASSUME p \in alone PROVE info[p] \in Info /\ info[p].streamID \in Nat /\ p \in Proc
  BY <1>2, OverlayAssumption DEF CallInv, ProcTypeOK, InCall, Info
<1>3. ASSUME NEW r \in Proc, NEW s \in StreamID, NEW a \in AreaID, Validate(r, s, a)
      PROVE  ~ On(q, info[p].streamID)'
  <2>1. /\ ~ InCall(r) /\ info'[r].streamID = s
        /\ \A t \in Proc : t # r => info'[t] = info[t]
    BY <1>3, ValidateBegins
  <2>2. alone' = IF {t \in Proc : On(t, s)} = {} THEN alone \union {r}
                 ELSE alone \ {t \in Proc : On(t, s)}
    BY <1>3 DEF Validate
  <2>3. CASE p = r
    <3>1. r \notin alone
      BY <2>1 DEF CallInv, ProcTypeOK
    <3>2. ~ On(q, s) /\ q # r
      BY <2>2, <2>3, <3>1
    <3>3. QED BY <2>1, <2>3, <3>2 DEF On, InCall
  <2>4. CASE p # r
    <3>1. p \in alone /\ info'[p] = info[p]
      BY <1>2, <2>1, <2>2, <2>4
    <3>2. q # r => ~ On(q, info[p].streamID)'
      BY <2>1, <3>1 DEF AloneInv, On, InCall
    <3>3. q = r => info[p].streamID # s
      BY <1>2, <2>2, <2>4, <3>1 DEF On, CallInv, ProcTypeOK
    <3>4. QED BY <2>1, <3>1, <3>2, <3>3 DEF On
  <2>5. QED BY <2>3, <2>4
<1>4. ASSUME NEW r \in Proc, NEW i \in Info, NEW l \in CallStage, Moves(r, i, l)
      PROVE  ~ On(q, info[p].streamID)'
  <2>1. p \in alone /\ info'[p].streamID = info[p].streamID
    BY <1>2, <1>4, MovesRecords, OverlayAssumption
  <2>2. ~ On(q, info[p].streamID)
    BY <2>1 DEF AloneInv
  <2>3. \A s \in Nat : On(q, s)' <=> On(q, s)
    BY <1>4, MovesRecords
  <2>4. QED BY <1>2, <2>1, <2>2, <2>3 DEF On, InCall
<1>5. ASSUME NEW r \in Proc, NEW l, Leaves(r, l) PROVE ~ On(q, info[p].streamID)'
  <2>1. p \in alone /\ p # r
    BY <1>5, LeavesRecords
  <2>2. info'[p] = info[p] /\ (info'[q] = info[q] \/ info'[q] = Blank)
    BY <1>2, <1>5, <2>1, LeavesRecords
  <2>3. QED BY <2>1, <2>2 DEF AloneInv, On, InCall
<1>6. QED BY <1>1, <1>3, <1>4, <1>5, StepShapes

\* The driver's insertion of a stream changes only by a call on that stream.
LEMMA InsertionOf ==
  ASSUME CallInv, NEW p \in Proc, Set(p) \/ Revert(p), NEW s \in Stream, ~ On(p, s)
  PROVE  insert'[s] = insert[s]
<1>1. info[p].streamID # s
  BY AtStage DEF CallInv, Set, Revert, CallStage, On
<1>2. PICK n : insert' = [insert EXCEPT ![info[p].streamID] = n]
  BY DEF Set, Revert
<1>3. QED BY <1>1, <1>2 DEF CallInv, DeviceTypeOK

LEMMA SavedStep ==
  CallInv /\ AloneInv /\ SavedInv /\ [Next]_vars => SavedInv'
<1> SUFFICES ASSUME CallInv, AloneInv, SavedInv, [Next]_vars, NEW p \in alone',
                    info'[p].streamID \in Stream, "save" \notin info'[p].failed,
                    pc'[p] \in {"set", "revert"}
             PROVE  info'[p].tempOverlay = insert'[info'[p].streamID]
  BY DEF SavedInv
<1>1. CASE UNCHANGED <<pc, info, insert>> /\ alone' \in {alone, {}}
  BY <1>1 DEF SavedInv
<1>2. ASSUME p \in alone PROVE info[p] \in Info /\ p \in Proc
  BY <1>2 DEF CallInv, ProcTypeOK, InCall
<1>3. ASSUME p \in alone, info'[p] = info[p], pc'[p] = pc[p],
             insert'[info[p].streamID] = insert[info[p].streamID]
      PROVE  info'[p].tempOverlay = insert'[info'[p].streamID]
  BY <1>3 DEF SavedInv
<1>4. ASSUME NEW r \in Proc, NEW s \in StreamID, NEW a \in AreaID, Validate(r, s, a)
      PROVE  info'[p].tempOverlay = insert'[info'[p].streamID]
  <2>1. /\ pc'[r] = "clut"
        /\ \A t \in Proc : t # r => info'[t] = info[t] /\ pc'[t] = pc[t]
    BY <1>4, ValidateBegins
  <2>2. p \in alone \union {r} /\ insert' = insert
    BY <1>4 DEF Validate, dev_vars
  <2>3. p # r
    BY <2>1
  <2>4. QED BY <1>2, <1>3, <2>1, <2>2, <2>3
<1>5. ASSUME NEW r \in Proc, NEW i \in Info, NEW l \in CallStage, Moves(r, i, l),
             Saving(r, i, l)
      PROVE  info'[p].tempOverlay = insert'[info'[p].streamID]
  <2>1. p \in alone /\ p \in Proc /\ info[p] \in Info /\ insert' = insert
    BY <1>2, <1>5, MovesRecords DEF Saving
  <2>2. CASE r # p
    BY <1>3, <1>5, <2>1, <2>2, MovesRecords
  <2>3. CASE r = p
    <3>1. info'[p] = i /\ pc'[p] = l
      BY <1>5, <2>3, MovesRecords
    <3>2. CASE l = "set"
      BY <1>5, <2>1, <3>1, <3>2 DEF Saving
    <3>3. CASE l = "revert"
      <4>1. pc[p] = "set" /\ i.tempOverlay = info[p].tempOverlay
        BY <1>5, <2>3, <3>3 DEF Saving
      <4>2. i.streamID = info[p].streamID /\ info[p].failed \subseteq i.failed
        BY <1>5, <2>3 DEF Moves, SameCall
      <4>3. QED BY <2>1, <3>1, <4>1, <4>2 DEF SavedInv
    <3>4. QED BY <3>1, <3>2, <3>3
  <2>4. QED BY <2>2, <2>3
<1>6. ASSUME NEW r \in Proc, NEW l, Leaves(r, l),
             insert' = insert \/ Set(r) \/ Revert(r)
      PROVE  info'[p].tempOverlay = insert'[info'[p].streamID]
  <2>1. p \in alone /\ p # r
    BY <1>6, LeavesRecords
  <2>2. info'[p] = info[p] /\ pc'[p] = pc[p]
    BY <1>2, <1>6, <2>1, LeavesRecords
  <2>3. ~ On(r, info[p].streamID)
    BY <1>6, <2>1 DEF AloneInv
  <2>4. insert'[info[p].streamID] = insert[info[p].streamID]
    BY <1>6, <2>2, <2>3, InsertionOf
  <2>5. QED BY <1>3, <2>1, <2>2, <2>4
<1>7. QED BY <1>1, <1>4, <1>5, <1>6, StepShapes

LEMMA SavedInit == Init => AloneInv /\ SavedInv
BY DEF Init, AloneInv, SavedInv

\* During an undisturbed call that could save it, the insertion of its stream
\* stays or becomes the one the call wants: what a revert brings back is what
\* the driver had, and no other call comes between.
THEOREM InsertionIsKept == Spec => InsertionKept
<1>1. CallInv /\ AloneInv /\ SavedInv /\ [Next]_vars =>
        [\A p \in alone : info[p].streamID \in Stream /\ "save" \notin info[p].failed =>
           insert'[info[p].streamID] \in {insert[info[p].streamID], Wanted(p)}]_vars
  <2> SUFFICES ASSUME CallInv, AloneInv, SavedInv, [Next]_vars, NEW p \in alone,
                      info[p].streamID \in Stream, "save" \notin info[p].failed
               PROVE  insert'[info[p].streamID] \in
                        {insert[info[p].streamID], Wanted(p)}
    OBVIOUS
  <2>1. info[p] \in Info /\ p \in Proc
    BY DEF CallInv, ProcTypeOK, InCall
  <2>2. ASSUME NEW r \in Proc, Set(r) \/ Revert(r), r # p
        PROVE  insert'[info[p].streamID] = insert[info[p].streamID]
    BY <2>2, InsertionOf DEF AloneInv
  <2>3. CASE Set(p)
    BY <2>3 DEF Set, CallInv, DeviceTypeOK
  <2>4. CASE Revert(p)
    <3>1. info[p].tempOverlay = insert[info[p].streamID]
      BY <2>4 DEF Revert, SavedInv
    <3>2. QED BY <2>4, <3>1 DEF Revert, CallInv, DeviceTypeOK
  <2>5. CASE insert' = insert
    BY <2>5
  <2>6. insert' = insert \/ \E r \in Proc : Set(r) \/ Revert(r)
    BY StepShapes DEF Saving, Validate, dev_vars
  <2>7. QED BY <2>2, <2>3, <2>4, <2>5, <2>6
<1>2. QED BY <1>1, CallInvInit, CallInvStep, SavedInit, AloneStep, SavedStep, PTL
          DEF Spec, InsertionKept

-----------------------------------------------------------------------------
(* What holds if nobody passes the one id too many that the checks accept, *)
(* and every image fits a region.                                          *)

Careful ==
  /\ MAX_STREAM_NUM \notin StreamID /\ MAX_AREA_NUM \notin AreaID
  /\ \A i \in Image : Units(i) = 1

\* The tables of a stream are its own: MAX_AREA_NUM of them.
LEMMA TableOf ==
  ASSUME NEW s \in Stream, NEW a \in 0 .. MAX_AREA_NUM - 1
  PROVE  /\ s * MAX_AREA_NUM + a \in Slot
         /\ (s * MAX_AREA_NUM + a) \div MAX_AREA_NUM = s
<1> DEFINE M == MAX_AREA_NUM
           c == s * M + a
           q == c \div M
<1>1. M \in Nat \ {0} /\ MAX_STREAM_NUM \in Nat \ {0}
  BY OverlayAssumption
<1>2. s \in Nat /\ s <= MAX_STREAM_NUM - 1 /\ a \in Nat /\ a <= M - 1
  BY <1>1 DEF Stream
<1> HIDE DEF M
<1>3. s * M <= (MAX_STREAM_NUM - 1) * M
  BY <1>1, <1>2
<1>4. (MAX_STREAM_NUM - 1) * M = MAX_STREAM_NUM * M - M
  BY <1>1
<1>5. s * M \in Nat /\ MAX_STREAM_NUM * M \in Nat
  BY <1>1, <1>2
<1>6. c \in 0 .. MAX_STREAM_NUM * M - 1
  BY <1>1, <1>2, <1>3, <1>4, <1>5
<1>7. q \in Int /\ M * q <= c /\ c < M * q + M
  BY <1>1, <1>6
<1>8. q = s
  <2> HIDE DEF q
  <2>1. CASE q >= s + 1
    <3>1. M * q >= M * (s + 1)
      BY <1>1, <1>2, <1>7, <2>1
    <3>2. M * (s + 1) = s * M + M
      BY <1>1, <1>2
    <3>3. QED BY <1>1, <1>2, <1>5, <1>7, <3>1, <3>2
  <2>2. CASE q <= s - 1
    <3>1. M * (q + 1) <= M * s
      BY <1>1, <1>2, <1>7, <2>2
    <3>2. M * (q + 1) = M * q + M
      BY <1>1, <1>7
    <3>3. QED BY <1>1, <1>2, <1>5, <1>7, <3>1, <3>2
  <2>3. QED BY <1>2, <1>7, <2>1, <2>2
<1>9. QED BY <1>6, <1>8 DEF M, Slot

\* A call is on a stream the driver has, in a table of that stream, and fills
\* its region.
LEMMA CallInRange ==
  ASSUME Careful, CallInv, NEW p \in Proc, InCall(p)
  PROVE  /\ info[p] \in Info /\ info[p].streamID \in Stream
         /\ ClutID(info[p]) \in Slot
         /\ ClutID(info[p]) \div MAX_AREA_NUM = info[p].streamID
         /\ Covered(info[p]) = {info[p].streamID}
<1> DEFINE s == info[p].streamID
           a == info[p].areaID
<1>1. info[p] \in Info /\ ValidIds(s, a)
  BY DEF CallInv, ProcTypeOK, StageInv, StageOK, InCall
<1>2. s \in StreamID /\ a \in AreaID /\ info[p].geo \in Image
  BY <1>1 DEF Info
<1>3. s \in Stream /\ a \in 0 .. MAX_AREA_NUM - 1
  <2>1. /\ MAX_STREAM_NUM \in Nat /\ MAX_AREA_NUM \in Nat
        /\ s \in Nat /\ a \in Nat
    BY <1>2, OverlayAssumption
  <2>2. s # MAX_STREAM_NUM /\ a # MAX_AREA_NUM
    BY <1>2 DEF Careful
  <2>3. s <= MAX_STREAM_NUM /\ a <= MAX_AREA_NUM
    BY <1>1 DEF ValidIds
  <2> HIDE DEF s, a
  <2>4. QED BY <2>1, <2>2, <2>3 DEF Stream
<1>4. ClutID(info[p]) \in Slot /\ ClutID(info[p]) \div MAX_AREA_NUM = s
  BY <1>3, TableOf DEF ClutID
<1>5. Covered(info[p]) = {s}
  <2>1. Units(info[p].geo) = 1
    BY <1>2 DEF Careful
  <2>2. s \in Nat /\ s < MAX_STREAM_NUM
    BY <1>3, OverlayAssumption DEF Stream
  <2>3. s .. s + 1 - 1 = {s}
    BY <2>2
  <2>4. QED BY <2>1, <2>2, <2>3 DEF Covered
<1>6. QED BY <1>1, <1>3, <1>4, <1>5

\* Only a conversion writes to the memory, to the tables and the region of
\* its own stream.
LEMMA ConvertsOwn ==
  ASSUME Careful, CallInv, NEW p \in Proc, ConvertColours(p) \/ ConvertPixels(p)
  PROVE  /\ \A r \in Region : r # info[p].streamID => mem'[r] = mem[r]
         /\ \A c \in Slot :
              c \div MAX_AREA_NUM # info[p].streamID => clut'[c] = clut[c]
<1>1. InCall(p)
  BY AtStage DEF CallInv, CallStage, ConvertColours, ConvertPixels
<1>2. CASE ConvertColours(p)
  <2> DEFINE k == ClutID(info[p])
  <2>1. k \in Slot /\ k \div MAX_AREA_NUM = info[p].streamID
    BY <1>1, CallInRange
  <2>2. mem' = mem /\ clut' = [clut EXCEPT ![k] = file]
    BY <1>2, <2>1 DEF ConvertColours
  <2> HIDE DEF k
  <2>3. QED BY <2>1, <2>2 DEF CallInv, DeviceTypeOK
<1>3. CASE ConvertPixels(p)
  <2>1. /\ clut' = clut
        /\ \A r \in Region : r \notin Covered(info[p]) => mem'[r] = mem[r]
    BY <1>3 DEF ConvertPixels
  <2>2. QED BY <1>1, <2>1, CallInRange
<1>4. QED BY <1>2, <1>3

\* Every other step leaves it alone.
LEMMA OthersKeepMemory ==
  [Next]_vars =>
    UNCHANGED <<clut, mem>> \/ \E p \in Proc : ConvertColours(p) \/ ConvertPixels(p)
BY DEF Next, vars, dev_vars, ChangeFile, InitOverlay, Exit, Validate, ConvertFails, Save,
       SaveFails, Set, SetFails, Revert, RevertFails

\* Nothing is ever written past the end of the mapped memory.
THEOREM InsideAlways == ASSUME Careful PROVE Spec => []InsideMapping
<1>1. Init => InsideMapping
  BY OverlayAssumption DEF Init, InsideMapping, Region
<1>2. CallInv /\ InsideMapping /\ [Next]_vars => InsideMapping'
  <2> SUFFICES ASSUME CallInv, InsideMapping, [Next]_vars
               PROVE  InsideMapping'
    OBVIOUS
  <2>1. ASSUME NEW p \in Proc, ConvertColours(p) \/ ConvertPixels(p)
        PROVE  InsideMapping'
    <3>1. InCall(p)
      BY <2>1, AtStage DEF CallInv, CallStage, ConvertColours, ConvertPixels
    <3>2. info[p].streamID # MAX_STREAM_NUM /\ MAX_STREAM_NUM \in Region
      BY <3>1, CallInRange, OverlayAssumption DEF Stream, Region
    <3>3. QED BY <2>1, <3>2, ConvertsOwn DEF InsideMapping
  <2>2. QED BY <2>1, OthersKeepMemory DEF InsideMapping
<1>3. QED BY <1>1, <1>2, CallInvInit, CallInvStep, PTL DEF Spec

\* A step of process p: all but the file's changing under it.
ProcStep(p) ==
  \/ InitOverlay(p) \/ Exit(p)
  \/ \E s \in StreamID, a \in AreaID : Validate(p, s, a)
  \/ ConvertColours(p) \/ ConvertPixels(p) \/ ConvertFails(p)
  \/ Save(p) \/ SaveFails(p)
  \/ Set(p) \/ SetFails(p) \/ Revert(p) \/ RevertFails(p)

\* A process touches nothing of a stream its call is not on; what such a
\* stream shows stays, unless it shows another stream's colours.
LEMMA OwnStreamOnly ==
  ASSUME Careful, CallInv, NEW p \in Proc, ProcStep(p),
         NEW s \in Stream, ~ On(p, s)
  PROVE  /\ insert'[s] = insert[s] /\ Garbled(s)' = Garbled(s)
         /\ ~ Garbled(s) => Picture(s)' = Picture(s)
<1>1. insert'[s] = insert[s]
  BY InsertionOf DEF ProcStep, InitOverlay, Exit, Validate, ConvertColours,
     ConvertPixels, ConvertFails, Save, SaveFails, SetFails, RevertFails, dev_vars
<1>2. Garbled(s)' = Garbled(s)
  BY <1>1, Zenon DEF Garbled
<1>3. ASSUME ~ Garbled(s) PROVE Picture(s)' = Picture(s)
  <2> DEFINE n == insert[s]
  <2>1. CASE n = Blank
    BY <1>1, <2>1 DEF Picture, PictureOf
  <2>2. CASE n # Blank
    <3>1. n.clut \div MAX_AREA_NUM = s /\ n.data = s
      BY <1>3, <2>2 DEF Garbled, CallInv, DeviceTypeOK
    <3>2. /\ mem'[s] = mem[s]
          /\ n.clut \in Slot => clut'[n.clut] = clut[n.clut]
      <4>1. CASE ConvertColours(p) \/ ConvertPixels(p)
        <5>1. InCall(p)
          BY <4>1, AtStage DEF CallInv, CallStage, ConvertColours, ConvertPixels
        <5>2. info[p].streamID # s /\ s \in Region
          BY <5>1, OverlayAssumption DEF On, Stream, Region
        <5>3. QED BY <3>1, <4>1, <5>2, ConvertsOwn
      <4>2. CASE ~ (ConvertColours(p) \/ ConvertPixels(p))
        <5>1. mem' = mem /\ clut' = clut
          BY <4>2 DEF ProcStep, InitOverlay, Exit, Validate, ConvertFails, Save,
             SaveFails, Set, SetFails, Revert, RevertFails, dev_vars
        <5>2. QED BY <5>1
      <4>3. QED BY <4>1, <4>2
    <3> HIDE DEF n
    <3>3. Picture(s)' = (IF n = Blank THEN Blank ELSE
             [area |-> n.area, geo |-> n.geo,
              colours |-> IF n.clut \in Slot THEN clut'[n.clut] ELSE Blank,
              pixels |-> mem'[n.data]])
      BY <1>1 DEF Picture, PictureOf, n
    <3>4. QED BY <3>1, <3>2, <3>3 DEF Picture, PictureOf, n
  <2>3. QED BY <2>1, <2>2
<1>4. QED BY <1>1, <1>2, <1>3

\* What a stream shows changes only while a process is in a call on it, if it
\* has the colours of its own.
THEOREM OthersAreUntouched == ASSUME Careful PROVE Spec => OthersUntouched
<1>1. CallInv /\ [Next]_vars =>
        [\A s \in Stream :
           Picture(s)' # Picture(s) => Garbled(s) \/ \E p \in Proc : On(p, s)]_vars
  <2> SUFFICES ASSUME CallInv, Next, NEW s \in Stream, ~ Garbled(s),
                      \A p \in Proc : ~ On(p, s)
               PROVE  Picture(s)' = Picture(s)
    OBVIOUS
  <2>1. CASE ChangeFile
    BY <2>1 DEF ChangeFile, dev_vars, Picture, PictureOf
  <2>2. CASE \E p \in Proc : ProcStep(p)
    BY <2>2, OwnStreamOnly
  <2>3. QED BY <2>1, <2>2 DEF Next, ProcStep
<1>2. QED BY <1>1, CallInvInit, CallInvStep, PTL DEF Spec, OthersUntouched

-----------------------------------------------------------------------------
(* What an undisturbed call has drawn.                                     *)

\* Nobody disturbed the call and nothing failed in it: what it converted so
\* far is the bitmap whose header it read, and where it put the colours is
\* where it will say they are.
Drawn(p) ==
  LET i == info[p]
  IN  /\ pc[p] = "clut" => file = i.geo
      /\ pc[p] \in {"pixels", "save", "set"} =>
           /\ lib[p].clutAddrOffset = ClutID(i)
           /\ clut[ClutID(i)] = i.geo
      /\ pc[p] = "pixels" => i.opened = i.geo
      /\ pc[p] \in {"save", "set"} => mem[i.streamID] = <<i.geo, i.geo>>

DrawnInv == \A p \in alone : info[p].failed = {} => Drawn(p)

\* A step of another process leaves what is drawn as it is.
LEMMA BystanderKeeps ==
  ASSUME Careful, CallInv, AloneInv, DrawnInv,
         NEW p \in Proc, p \in alone, p \in alone', info'[p].failed = {},
         NEW q \in Proc, q # p, ProcStep(q)
  PROVE  Drawn(p)'
<1>1. InCall(p) /\ ~ On(q, info[p].streamID)
  BY DEF CallInv, ProcTypeOK, AloneInv
<1>2. /\ info[p] \in Info /\ info[p].streamID \in Stream
      /\ ClutID(info[p]) \in Slot
      /\ ClutID(info[p]) \div MAX_AREA_NUM = info[p].streamID
  BY <1>1, CallInRange
<1>3. info'[p] = info[p] /\ pc'[p] = pc[p]
  <2>1. ASSUME NEW s \in StreamID, NEW a \in AreaID, Validate(q, s, a)
        PROVE  info'[p] = info[p] /\ pc'[p] = pc[p]
    BY <2>1, ValidateBegins
  <2>2. ASSUME NEW i, NEW l, Moves(q, i, l)
        PROVE  info'[p] = info[p] /\ pc'[p] = pc[p]
    BY <2>2, MovesRecords
  <2>3. ASSUME NEW l, Leaves(q, l)
        PROVE  info'[p] = info[p] /\ pc'[p] = pc[p]
    BY <2>3, LeavesRecords
  <2>4. QED BY <2>1, <2>2, <2>3, ProcessLeaves, MovesSave, SetMoves DEF ProcStep
<1>4. lib'[p] = lib[p] /\ file' = file
  <2>1. \/ lib' = lib
        \/ \E g : lib' = [lib EXCEPT ![q] = g]
    BY DEF ProcStep, InitOverlay, Exit, Validate, ConvertColours, ConvertPixels,
       ConvertFails, Save, SaveFails, Set, SetFails, Revert, RevertFails
  <2>2. file' = file
    BY DEF ProcStep, InitOverlay, Exit, Validate, ConvertColours, ConvertPixels,
       ConvertFails, Save, SaveFails, Set, SetFails, Revert, RevertFails
  <2>3. QED BY <2>1, <2>2 DEF CallInv, DeviceTypeOK
<1>5. /\ mem'[info[p].streamID] = mem[info[p].streamID]
      /\ clut'[ClutID(info[p])] = clut[ClutID(info[p])]
  <2>1. CASE ConvertColours(q) \/ ConvertPixels(q)
    <3>1. InCall(q)
      BY <2>1, AtStage DEF CallInv, CallStage, ConvertColours, ConvertPixels
    <3>2. info[q].streamID # info[p].streamID
      BY <1>1, <3>1 DEF On
    <3>3. info[p].streamID \in Region
      BY <1>2, OverlayAssumption DEF Stream, Region
    <3>4. QED BY <1>2, <2>1, <3>2, <3>3, ConvertsOwn
  <2>2. CASE ~ (ConvertColours(q) \/ ConvertPixels(q))
    BY <2>2 DEF ProcStep, InitOverlay, Exit, Validate, ConvertFails, Save,
       SaveFails, Set, SetFails, Revert, RevertFails, dev_vars
  <2>3. QED BY <2>1, <2>2
<1>6. Drawn(p)
  BY <1>3 DEF DrawnInv
<1>7. ClutID(info'[p]) = ClutID(info[p])
  BY <1>3
<1>8. QED BY <1>3, <1>4, <1>5, <1>6, <1>7 DEF Drawn, ClutID

\* A step of the call itself draws what it should, or fails.
LEMMA OwnStepDraws ==
  ASSUME Careful, CallInv, DrawnInv,
         NEW p \in Proc, p \in alone', info'[p].failed = {}, ProcStep(p)
  PROVE  Drawn(p)'
<1>1. ASSUME NEW s \in StreamID, NEW a \in AreaID, Validate(p, s, a)
      PROVE  Drawn(p)'
  <2>1. pc'[p] = "clut" /\ info'[p].geo = file
    BY <1>1, ValidateBegins
  <2>2. file' = file
    BY <1>1 DEF Validate
  <2>3. QED BY <2>1, <2>2 DEF Drawn
<1>2. ASSUME NEW l, Leaves(p, l) PROVE FALSE
  BY <1>2, LeavesRecords
<1>3. ASSUME NEW i, NEW l, Moves(p, i, l)
      PROVE  /\ p \in alone /\ info[p].failed = {} /\ Drawn(p)
             /\ InCall(p) /\ info[p] \in Info
             /\ info'[p] = i /\ pc'[p] = l /\ i.streamID = info[p].streamID
             /\ i.geo = info[p].geo /\ ClutID(i) = ClutID(info[p])
             /\ ClutID(i) \in Slot /\ info[p].streamID \in Stream
             /\ Covered(info[p]) = {info[p].streamID}
  <2>1. p \in alone /\ info'[p] = i /\ pc'[p] = l
    BY <1>3, MovesRecords
  <2>2. SameCall(info[p], i) /\ InCall(p)
    BY <1>3 DEF Moves
  <2>3. info[p].failed = {} /\ ClutID(i) = ClutID(info[p])
    BY <2>1, <2>2 DEF SameCall, ClutID
  <2>4. QED BY <2>1, <2>2, <2>3, CallInRange DEF SameCall, DrawnInv
<1>4. CASE ConvertColours(p)
  <2> DEFINE i == [info[p] EXCEPT !.opened = file]
  <2>1. Moves(p, i, "pixels")
    BY <1>4, ConvertMoves
  <2>2. /\ Drawn(p) /\ info[p] \in Info
        /\ info'[p] = i /\ pc'[p] = "pixels" /\ i.geo = info[p].geo
        /\ ClutID(i) = ClutID(info[p]) /\ ClutID(i) \in Slot
    BY <1>3, <2>1
  <2>3. i.opened = file
    BY <2>2 DEF Info
  <2> HIDE DEF i
  <2>4. file = i.geo
    BY <1>4, <2>2 DEF Drawn, ConvertColours
  <2>5. /\ lib' = [lib EXCEPT ![p].clutAddrOffset = ClutID(info[p])]
        /\ clut' = [clut EXCEPT ![ClutID(info[p])] = file]
    BY <1>4, <2>2 DEF ConvertColours
  <2>6. lib'[p].clutAddrOffset = ClutID(i) /\ clut'[ClutID(i)] = i.geo
    BY <2>2, <2>4, <2>5 DEF CallInv, DeviceTypeOK
  <2>7. ClutID(info'[p]) = ClutID(i)
    BY <2>2
  <2>8. QED BY <2>2, <2>3, <2>4, <2>6, <2>7 DEF Drawn, ClutID
<1>5. CASE ConvertPixels(p)
  <2> DEFINE i == [info[p] EXCEPT !.opened = Blank]
  <2>1. Moves(p, i, "save")
    BY <1>5, ConvertMoves
  <2>2. /\ Drawn(p) /\ info[p] \in Info
        /\ info'[p] = i /\ pc'[p] = "save" /\ i.geo = info[p].geo
        /\ ClutID(i) = ClutID(info[p]) /\ i.streamID = info[p].streamID
        /\ info[p].streamID \in Stream /\ Covered(info[p]) = {info[p].streamID}
    BY <1>3, <2>1
  <2> HIDE DEF i
  <2>3. /\ pc[p] = "pixels" /\ lib' = lib /\ clut' = clut
        /\ mem' = [r \in Region |-> IF r \in Covered(info[p])
                                    THEN <<info[p].geo, info[p].opened>> ELSE mem[r]]
    BY <1>5 DEF ConvertPixels
  <2>4. info[p].opened = info[p].geo
    BY <2>2, <2>3 DEF Drawn
  <2>5. info[p].streamID \in Region
    BY <2>2, OverlayAssumption DEF Stream, Region
  <2>6. mem'[i.streamID] = <<i.geo, i.geo>>
    BY <2>2, <2>3, <2>4, <2>5
  <2>7. lib'[p].clutAddrOffset = ClutID(i) /\ clut'[ClutID(i)] = i.geo
    BY <2>2, <2>3 DEF Drawn
  <2>8. QED BY <2>2, <2>6, <2>7 DEF Drawn, ClutID
<1>6. CASE Save(p)
  <2> DEFINE i == [info[p] EXCEPT !.tempOverlay = insert[info[p].streamID]]
  <2>1. Moves(p, i, "set")
    BY <1>2, <1>6, SaveMoves
  <2>2. /\ Drawn(p)
        /\ info'[p] = i /\ pc'[p] = "set" /\ i.geo = info[p].geo
        /\ ClutID(i) = ClutID(info[p]) /\ i.streamID = info[p].streamID
    BY <1>3, <2>1
  <2> HIDE DEF i
  <2>3. /\ pc[p] = "save" /\ lib' = [lib EXCEPT ![p].revertOverlay = TRUE]
        /\ clut' = clut /\ mem' = mem
    BY <1>6 DEF Save, dev_vars
  <2>4. lib'[p].clutAddrOffset = lib[p].clutAddrOffset
    BY <2>3 DEF CallInv, DeviceTypeOK
  <2>5. QED BY <2>2, <2>3, <2>4 DEF Drawn, ClutID
<1>7. CASE ConvertFails(p)
  <2> DEFINE i == [info[p] EXCEPT !.failed = @ \union {"convert"}]
  <2>1. Moves(p, i, "save")
    BY <1>7, ConvertMoves
  <2>2. "convert" \in i.failed
    BY <1>3, <2>1, RecordFailed
  <2>3. QED BY <1>3, <2>1, <2>2
<1>8. CASE SaveFails(p)
  <2> DEFINE i == [info[p] EXCEPT !.failed = @ \union {"save"}]
  <2>1. Moves(p, i, "set")
    BY <1>2, <1>8, SaveMoves
  <2>2. "save" \in i.failed
    BY <1>3, <2>1, RecordFailed
  <2>3. QED BY <1>3, <2>1, <2>2
<1>9. CASE SetFails(p)
  <2> DEFINE i == [info[p] EXCEPT !.failed = @ \union {"set"}]
  <2>1. Moves(p, i, "revert")
    BY <1>2, <1>9, SetMoves
  <2>2. "set" \in i.failed
    BY <1>3, <2>1, RecordFailed
  <2>3. QED BY <1>3, <2>1, <2>2
<1>10. CASE Set(p) \/ Revert(p) \/ RevertFails(p) \/ InitOverlay(p) \/ Exit(p)
  BY <1>2, <1>10, SetMoves, ProcessLeaves
<1>11. QED BY <1>1, <1>4, <1>5, <1>6, <1>7, <1>8, <1>9, <1>10 DEF ProcStep

LEMMA DrawnStep ==
  ASSUME Careful, CallInv, AloneInv, DrawnInv, [Next]_vars
  PROVE  DrawnInv'
<1> SUFFICES ASSUME NEW p \in alone', info'[p].failed = {} PROVE Drawn(p)'
  BY DEF DrawnInv
<1>1. p \in Proc
  BY CallInvStep DEF CallInv, ProcTypeOK
<1>2. CASE ChangeFile
  BY <1>2 DEF ChangeFile
<1>3. CASE UNCHANGED vars
  BY <1>3 DEF vars, proc_vars, dev_vars, DrawnInv, Drawn, ClutID
<1>4. ASSUME NEW q \in Proc, ProcStep(q), q # p PROVE Drawn(p)'
  <2>1. p \in alone
    <3>1. ASSUME NEW s \in StreamID, NEW a \in AreaID, Validate(q, s, a)
          PROVE  p \in alone
      BY <1>4, <3>1 DEF Validate
    <3>2. ASSUME NEW i, NEW l, Moves(q, i, l) PROVE p \in alone
      BY <3>2, MovesRecords
    <3>3. ASSUME NEW l, Leaves(q, l) PROVE p \in alone
      BY <3>3, LeavesRecords
    <3>4. QED BY <1>4, <3>1, <3>2, <3>3, ProcessLeaves, MovesSave, SetMoves DEF ProcStep
  <2>2. QED BY <1>1, <1>4, <2>1, BystanderKeeps
<1>5. ASSUME ProcStep(p) PROVE Drawn(p)'
  BY <1>1, <1>5, OwnStepDraws
<1>6. QED BY <1>2, <1>3, <1>4, <1>5 DEF Next, ProcStep

-----------------------------------------------------------------------------
(* The library implements OverlayService.                                  *)

\* The service's variables, as the library implements them.
Screen == [s \in Stream |-> Picture(s)]

CallOf(p) ==
  IF InCall(p) THEN [stream |-> info[p].streamID, picture |-> Requested(p)]
  ELSE Blank
Calls == [p \in Proc |-> CallOf(p)]

Quiet == {p \in alone : info[p].failed = {}}

GarbledStreams == {s \in Stream : Garbled(s)}

\* A move within a call asks for what the call asked for before.
LEMMA MovesMap ==
  ASSUME CallInv, NEW p \in Proc, NEW i, NEW l, Moves(p, i, l)
  PROVE  /\ Calls' = Calls /\ Quiet' \subseteq Quiet
         /\ i.failed = info[p].failed => Quiet' = Quiet
<1>1. /\ info'[p] = i /\ alone' = alone
      /\ \A q \in Proc : q # p => info'[q] = info[q]
  BY MovesRecords
<1>2. /\ info[p] # Blank /\ i # Blank
      /\ i.streamID = info[p].streamID /\ i.areaID = info[p].areaID
      /\ i.geo = info[p].geo /\ info[p].failed \subseteq i.failed
  BY OverlayAssumption DEF Moves, SameCall, InCall
<1>3. CallOf(p)' = CallOf(p)
  BY <1>1, <1>2 DEF CallOf, InCall, Requested
<1>4. \A q \in Proc : q # p => CallOf(q)' = CallOf(q)
  BY <1>1 DEF CallOf, InCall, Requested
<1>5. Calls' = Calls
  BY <1>3, <1>4 DEF Calls
<1>6. alone \subseteq Proc
  BY DEF CallInv, ProcTypeOK
<1>7. Quiet' \subseteq Quiet /\ (i.failed = info[p].failed => Quiet' = Quiet)
  BY <1>1, <1>2, <1>6 DEF Quiet
<1>8. QED BY <1>5, <1>7

LEMMA LeavesMap ==
  ASSUME CallInv, NEW p \in Proc, NEW l, Leaves(p, l)
  PROVE  /\ Calls' = [Calls EXCEPT ![p] = Blank]
         /\ Quiet' = Quiet \ {p}
<1>1. /\ info'[p] = Blank /\ alone' = alone \ {p}
      /\ \A q \in Proc : q # p => info'[q] = info[q]
  BY LeavesRecords
<1>2. CallOf(p)' = Blank
  BY <1>1 DEF CallOf, InCall
<1>3. \A q \in Proc : q # p => CallOf(q)' = CallOf(q)
  BY <1>1 DEF CallOf, InCall, Requested
<1>4. Calls' = [Calls EXCEPT ![p] = Blank]
  BY <1>2, <1>3 DEF Calls
<1>5. alone \subseteq Proc
  BY DEF CallInv, ProcTypeOK
<1>6. QED BY <1>1, <1>4, <1>5 DEF Quiet

\* What is drawn by a step of p in a call is drawn on its stream.
LEMMA DrawsOnlyOn ==
  ASSUME Careful, CallInv, NEW p \in Proc, InCall(p), ProcStep(p)
  PROVE  /\ \A s \in Stream \ ({info[p].streamID} \union GarbledStreams) :
              Screen'[s] = Screen[s]
         /\ GarbledStreams' \ {info[p].streamID} =
              GarbledStreams \ {info[p].streamID}
<1>1. ASSUME NEW s \in Stream, s # info[p].streamID
      PROVE  Garbled(s)' = Garbled(s) /\ (~ Garbled(s) => Picture(s)' = Picture(s))
  BY <1>1, OwnStreamOnly DEF On
<1>2. \A s \in Stream : Screen[s] = Picture(s) /\ Screen'[s] = Picture(s)'
  BY DEF Screen
<1>3. QED BY <1>1, <1>2 DEF GarbledStreams

\* A step that leaves the driver and the memory alone changes no screen.
LEMMA ScreenKept ==
  UNCHANGED dev_vars => Screen' = Screen /\ GarbledStreams' = GarbledStreams
BY DEF dev_vars, Screen, Picture, PictureOf, GarbledStreams, Garbled

\* Every stream a call in progress names, as the service sees it.
LEMMA CallMaps ==
  ASSUME Careful, CallInv, NEW p \in Proc, InCall(p)
  PROVE  /\ Calls[p] # Blank /\ Calls[p].stream = info[p].streamID
         /\ Calls[p].picture = Requested(p)
<1>1. info[p] \in Info
  BY CallInRange
<1>2. CallOf(p) \in [stream : StreamID,
                     picture : [area : AreaID, geo : Image, colours : Image,
                                pixels : Image \X Image]]
  BY <1>1 DEF CallOf, Requested, Info
<1>3. CallOf(p) # Blank
  BY <1>2, OverlayAssumption
<1>4. Calls[p] = CallOf(p)
  BY DEF Calls
<1>5. QED BY <1>3, <1>4 DEF CallOf

\* A call of the library is a call of the service.
LEMMA ValidateCalls ==
  ASSUME Careful, CallInv, NEW p \in Proc, NEW s \in StreamID, NEW a \in AreaID,
         Validate(p, s, a)
  PROVE  Service!Call(p)
<1>1. /\ CallInv' /\ ~ InCall(p) /\ InCall(p)' /\ info'[p].streamID = s
      /\ info'[p].failed = {}
      /\ \A q \in Proc : q # p => info'[q] = info[q]
  BY ValidateBegins, CallInvStep DEF Next
<1>2. Calls[p] = Blank
  BY <1>1 DEF Calls, CallOf
<1>3. Calls'[p] # Blank /\ Calls'[p].stream = s
  <2>1. info'[p] \in Info
    BY <1>1 DEF CallInv, ProcTypeOK, InCall
  <2>2. CallOf(p)' \in [stream : StreamID,
                        picture : [area : AreaID, geo : Image, colours : Image,
                                   pixels : Image \X Image]]
    BY <1>1, <2>1 DEF CallOf, Requested, Info
  <2>3. Calls'[p] = CallOf(p)'
    BY DEF Calls
  <2>4. QED BY <1>1, <2>2, <2>3, OverlayAssumption DEF CallOf
<1>4. \A q \in Proc \ {p} : Calls'[q] = Calls[q]
  BY <1>1 DEF Calls, CallOf, InCall, Requested
<1>5. {q \in Proc : Service!Draws(q, s)} = {q \in Proc : On(q, s)}
  <2>1. ASSUME NEW q \in Proc PROVE Service!Draws(q, s) <=> On(q, s)
    <3>1. CASE InCall(q)
      BY <3>1, CallMaps DEF Service!Draws, Service!Idle, Calls, CallOf, On
    <3>2. CASE ~ InCall(q)
      BY <3>2 DEF Service!Draws, Service!Idle, On
    <3>3. QED BY <3>1, <3>2
  <2>2. QED BY <2>1
<1>6. Quiet' = IF {q \in Proc : On(q, s)} = {} THEN Quiet \union {p}
               ELSE Quiet \ {q \in Proc : On(q, s)}
  <2>1. alone' = IF {q \in Proc : On(q, s)} = {} THEN alone \union {p}
                 ELSE alone \ {q \in Proc : On(q, s)}
    BY DEF Validate
  <2>2. alone \subseteq Proc /\ p \notin alone
    BY <1>1 DEF CallInv, ProcTypeOK
  <2>3. QED BY <1>1, <2>1, <2>2 DEF Quiet
<1>7. Screen' = Screen /\ GarbledStreams' = GarbledStreams
  BY ScreenKept DEF Validate
<1>8. QED BY <1>2, <1>3, <1>4, <1>5, <1>6, <1>7
          DEF Service!Call, Service!Idle, Calls, CallOf, Quiet, Screen, GarbledStreams

\* A step within a call that draws, ...
LEMMA MoveDraws ==
  ASSUME Careful, CallInv, NEW p \in Proc, NEW i, NEW l, Moves(p, i, l), ProcStep(p),
         i.failed = info[p].failed
  PROVE  Service!Draw(p)
<1>1. InCall(p)
  BY DEF Moves
<1>2. Calls' = Calls /\ Quiet' = Quiet
  BY MovesMap
<1>3. Calls[p] # Blank /\ Calls[p].stream = info[p].streamID
  BY <1>1, CallMaps
<1>4. /\ \A s \in Stream \ ({info[p].streamID} \union GarbledStreams) :
           Screen'[s] = Screen[s]
      /\ GarbledStreams' \ {info[p].streamID} = GarbledStreams \ {info[p].streamID}
  BY <1>1, DrawsOnlyOn
<1>5. QED BY <1>2, <1>3, <1>4
          DEF Service!Draw, Service!OnlyOn, Service!Idle, Calls, CallOf, Quiet,
              Screen, GarbledStreams

\* ... one in which something fails, ...
LEMMA MoveDisturbs ==
  ASSUME Careful, CallInv, NEW p \in Proc, NEW i, NEW l, Moves(p, i, l),
         UNCHANGED dev_vars
  PROVE  Service!Disturb
<1>1. Calls' = Calls /\ Quiet' \subseteq Quiet
  BY MovesMap
<1>2. Screen' = Screen /\ GarbledStreams' = GarbledStreams
  BY ScreenKept
<1>3. QED BY <1>1, <1>2
          DEF Service!Disturb, Calls, CallOf, Quiet, Screen, GarbledStreams

\* ... one that ends the call and leaves the driver alone, ...
LEMMA LeaveFails ==
  ASSUME Careful, CallInv, NEW p \in Proc, NEW l, InCall(p), Leaves(p, l),
         UNCHANGED dev_vars
  PROVE  Service!Fail(p)
<1>1. Calls' = [Calls EXCEPT ![p] = Blank] /\ Quiet' = Quiet \ {p}
  BY LeavesMap
<1>2. Screen' = Screen /\ GarbledStreams' = GarbledStreams
  BY ScreenKept
<1>3. Calls[p] # Blank
  BY CallMaps
<1>4. QED BY <1>1, <1>2, <1>3
          DEF Service!Fail, Service!Idle, Calls, CallOf, Quiet, Screen, GarbledStreams

\* ... and one that sets an insertion and succeeds.
LEMMA SetSucceeds ==
  ASSUME Careful, CallInv, DrawnInv, NEW p \in Proc, Set(p) \/ Revert(p)
  PROVE  Service!Succeed(p)
<1> DEFINE t == info[p].streamID
<1>1. InCall(p) /\ Leaves(p, "idle")
  BY SetMoves
<1>2. Calls' = [Calls EXCEPT ![p] = Blank] /\ Quiet' = Quiet \ {p}
  BY <1>1, LeavesMap
<1>3. /\ Calls[p] # Blank /\ Calls[p].stream = t
      /\ Calls[p].picture = Requested(p)
  BY <1>1, CallMaps
<1>4. /\ \A s \in Stream \ ({t} \union GarbledStreams) : Screen'[s] = Screen[s]
      /\ GarbledStreams' \ {t} = GarbledStreams \ {t}
  BY <1>1, DrawsOnlyOn DEF ProcStep
<1>5. ASSUME p \in Quiet PROVE Screen'[t] = Requested(p) /\ t \notin GarbledStreams'
  <2>1. info[p].failed = {} /\ Drawn(p)
    BY <1>5 DEF Quiet, DrawnInv
  <2>2. CASE Revert(p)
    <3>1. "set" \in info[p].failed
      BY <2>2, AtStage DEF CallInv, CallStage, Revert, StageOK
    <3>2. QED BY <2>1, <3>1
  <2>3. CASE Set(p)
    <3>1. /\ insert' = [insert EXCEPT ![t] = Wanted(p)] /\ t \in Stream
          /\ clut' = clut /\ mem' = mem /\ pc[p] = "set"
      BY <2>3 DEF Set
    <3>2. /\ lib[p].clutAddrOffset = ClutID(info[p])
          /\ clut[ClutID(info[p])] = info[p].geo
          /\ mem[t] = <<info[p].geo, info[p].geo>>
      BY <2>1, <3>1 DEF Drawn
    <3>3. ClutID(info[p]) \in Slot /\ ClutID(info[p]) \div MAX_AREA_NUM = t
      BY <1>1, CallInRange
    <3> DEFINE w == Wanted(p)
    <3>4. /\ w.area = info[p].areaID /\ w.geo = info[p].geo
          /\ w.clut = ClutID(info[p]) /\ w.data = t
      BY <3>2 DEF Wanted
    <3>5. w # Blank
      <4>1. info[p] \in Info
        BY <1>1, CallInRange
      <4>2. lib[p].clutAddrOffset \in Nat /\ t \in Nat
        BY <3>1 DEF CallInv, DeviceTypeOK, Stream
      <4>3. w \in Insertion
        BY <4>1, <4>2 DEF Wanted, Insertion, Info
      <4>4. QED BY <4>3, OverlayAssumption
    <3>6. insert'[t] = w
      BY <3>1 DEF CallInv, DeviceTypeOK
    <3> HIDE DEF w
    <3>7. PICK s \in Stream : s = t
      BY <3>1
    <3>8. insert'[s] = w
      BY <3>6, <3>7
    <3>9. Picture(s)' = Requested(p)
      <4>1. Picture(s)' =
              [area |-> w.area, geo |-> w.geo,
               colours |-> IF w.clut \in Slot THEN clut[w.clut] ELSE Blank,
               pixels |-> mem[w.data]]
        BY <3>1, <3>5, <3>8 DEF Picture, PictureOf
      <4>2. QED BY <3>2, <3>3, <3>4, <3>7, <4>1 DEF Requested
    <3>10. ~ Garbled(s)'
      BY <3>3, <3>4, <3>7, <3>8 DEF Garbled
    <3>11. Screen'[s] = Requested(p) /\ s \notin GarbledStreams'
      BY <3>9, <3>10 DEF Screen, GarbledStreams
    <3>12. QED BY <3>7, <3>11
  <2>4. QED BY <2>2, <2>3
<1> HIDE DEF t
<1>6. QED BY <1>2, <1>3, <1>4, <1>5
          DEF Service!Succeed, Service!OnlyOn, Service!Idle, Calls, CallOf, Quiet,
              Screen, GarbledStreams

\* A process that is in no call draws nothing.
LEMMA IdleStutters ==
  ASSUME CallInv, NEW p \in Proc, NEW l, ~ InCall(p), Leaves(p, l), UNCHANGED dev_vars
  PROVE  UNCHANGED <<Screen, Calls, Quiet, GarbledStreams>>
<1>1. Calls' = [Calls EXCEPT ![p] = Blank] /\ Quiet' = Quiet \ {p}
  BY LeavesMap
<1>2. Calls[p] = Blank /\ p \notin Quiet
  BY DEF Calls, CallOf, Quiet, CallInv, ProcTypeOK
<1>3. Calls' = Calls /\ Quiet' = Quiet
  BY <1>1, <1>2 DEF Calls
<1>4. QED BY <1>3, ScreenKept

LEMMA StepsOfService ==
  ASSUME Careful, CallInv, DrawnInv, NEW p \in Proc, ProcStep(p)
  PROVE  \/ Service!Next
         \/ UNCHANGED <<Screen, Calls, Quiet, GarbledStreams>>
<1>1. ASSUME NEW s \in StreamID, NEW a \in AreaID, Validate(p, s, a)
      PROVE  Service!Next
  BY <1>1, ValidateCalls DEF Service!Next
<1>2. CASE ConvertColours(p)
  <2>1. info[p] \in Info
    BY <1>2, AtStage DEF CallInv, CallStage, ConvertColours
  <2>2. [info[p] EXCEPT !.opened = file].failed = info[p].failed
    BY <2>1 DEF Info
  <2>3. Service!Draw(p)
    BY <1>2, <2>2, ConvertMoves, MoveDraws
  <2>4. QED BY <2>3 DEF Service!Next
<1>3. CASE ConvertPixels(p)
  <2>1. info[p] \in Info
    BY <1>3, AtStage DEF CallInv, CallStage, ConvertPixels
  <2>2. [info[p] EXCEPT !.opened = Blank].failed = info[p].failed
    BY <2>1, RecordOpened
  <2>3. Service!Draw(p)
    BY <1>3, <2>2, ConvertMoves, MoveDraws
  <2>4. QED BY <2>3 DEF Service!Next
<1>4. CASE ConvertFails(p) \/ Save(p) \/ SaveFails(p) \/ SetFails(p)
  <2>1. UNCHANGED dev_vars /\ InCall(p)
    BY <1>4, AtStage DEF CallInv, CallStage, ConvertFails, Save, SaveFails, SetFails
  <2>2. \/ \E i, l : Moves(p, i, l)
        \/ Leaves(p, "idle")
    BY <1>4, ConvertMoves, SaveMoves, SetMoves
  <2>3. QED BY <2>1, <2>2, MoveDisturbs, LeaveFails DEF Service!Next
<1>5. CASE Set(p) \/ Revert(p)
  BY <1>5, SetSucceeds DEF Service!Next
<1>6. CASE RevertFails(p)
  <2>1. UNCHANGED dev_vars
    BY <1>6 DEF RevertFails
  <2>2. QED BY <1>6, <2>1, SetMoves, LeaveFails DEF Service!Next
<1>7. CASE InitOverlay(p) \/ Exit(p)
  <2>1. UNCHANGED dev_vars
    BY <1>7 DEF InitOverlay, Exit
  <2>2. \E l : Leaves(p, l)
    BY <1>7, ProcessLeaves
  <2>3. QED BY <2>1, <2>2, LeaveFails, IdleStutters DEF Service!Next
<1>8. QED BY <1>1, <1>2, <1>3, <1>4, <1>5, <1>6, <1>7 DEF ProcStep

\* An undisturbed call in which nothing failed and that reports success leaves
\* the requested picture on its stream, complete; the streams of others show
\* what they showed.
THEOREM ServiceIsImplemented == ASSUME Careful PROVE Spec => ImplementsService
<1>1. Init => Service!Init
  <2> SUFFICES ASSUME Init PROVE Service!Init
    OBVIOUS
  <2>1. Calls = [p \in Proc |-> Blank] /\ Quiet = {}
    BY DEF Init, Calls, CallOf, InCall, Quiet
  <2>2. Screen = [s \in Stream |-> Blank] /\ GarbledStreams = {}
    BY DEF Init, Screen, Picture, PictureOf, GarbledStreams, Garbled
  <2>3. QED BY <2>1, <2>2
            DEF Service!Init, Service!Idle, Calls, CallOf, Quiet, Screen, GarbledStreams
<1>2. CallInv /\ DrawnInv /\ [Next]_vars => [Service!Next]_(Service!svars)
  <2> SUFFICES ASSUME CallInv, DrawnInv, [Next]_vars
               PROVE  Service!Next \/ UNCHANGED Service!svars
    OBVIOUS
  <2>1. ASSUME UNCHANGED <<Screen, Calls, Quiet, GarbledStreams>>
        PROVE  UNCHANGED Service!svars
    BY <2>1 DEF Service!svars, Calls, CallOf, Quiet, Screen, GarbledStreams
  <2>2. CASE ChangeFile
    <3>1. Screen' = Screen /\ GarbledStreams' = GarbledStreams
      BY <2>2, ScreenKept DEF ChangeFile
    <3>2. Calls' = Calls /\ Quiet' = {}
      BY <2>2 DEF ChangeFile, proc_vars, Calls, CallOf, InCall, Requested, Quiet
    <3>3. Service!Disturb
      BY <3>1, <3>2 DEF Service!Disturb, Calls, CallOf, Quiet, Screen, GarbledStreams
    <3>4. QED BY <3>3 DEF Service!Next
  <2>3. CASE UNCHANGED vars
    <3>1. Screen' = Screen /\ GarbledStreams' = GarbledStreams
      BY <2>3, ScreenKept DEF vars
    <3>2. Calls' = Calls /\ Quiet' = Quiet
      BY <2>3 DEF vars, proc_vars, Calls, CallOf, InCall, Requested, Quiet
    <3>3. QED BY <2>1, <3>1, <3>2
  <2>4. ASSUME NEW p \in Proc, ProcStep(p)
        PROVE  Service!Next \/ UNCHANGED Service!svars
    BY <2>1, <2>4, StepsOfService
  <2>5. QED BY <2>2, <2>3, <2>4 DEF Next, ProcStep
<1>3. Init => DrawnInv
  BY DEF Init, DrawnInv
<1>4. CallInv /\ AloneInv /\ DrawnInv /\ [Next]_vars => DrawnInv'
  BY DrawnStep
<1>5. Init => AloneInv
  BY SavedInit
<1>6. QED BY <1>1, <1>2, <1>3, <1>4, <1>5, CallInvInit, CallInvStep, AloneStep, PTL
          DEF Spec, ImplementsService, Service!Spec
=============================================================================
