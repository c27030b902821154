---------------------------- MODULE SampleApp_proofs ----------------------------
(***************************************************************************)
(* Proofs about the plugin factory and the sample application on top of    *)
(* it: for any number of clients, and as long as their calls do not        *)
(* overlap, there is one instance of a kind, and the sample's camera stays *)
(* until somebody destroys it.                                             *)
(***************************************************************************)
EXTENDS SampleApp, SequenceTheorems, TLAPS

\* What a call under way may be.
Calling == [step : {"idle", "new", "delete", "clear"}, kind : Kind]

\* The types the argument needs.
Typed ==
  /\ instance \in [Kind -> Nat] /\ made \in Nat
  /\ \A o \in alive : o \in Nat /\ 1 <= o /\ o <= made
  /\ call \in [Client -> Calling]
  /\ \A c \in Client : call[c].step = "idle" => call[c] = Idle
  /\ overlapped \in BOOLEAN /\ misused \in BOOLEAN

\* What a client in the middle of a call knows of the pointer it is about.
CallsFit ==
  \A c \in Client :
    LET p == instance[call[c].kind]
    IN  /\ call[c].step = "new" => p = NULL
        /\ call[c].step = "delete" => p \in alive
        /\ call[c].step = "clear" => p \notin alive

\* Objects and pointers: no object without a pointer, no pointer to two
\* kinds, no pointer to what is gone but while it is about to be cleared.
PointersFit ==
  /\ \A o \in alive : \E k \in Kind : instance[k] = o
  /\ \A j \in Kind, k \in Kind : instance[j] = instance[k] /\ instance[j] # NULL => j = k
  /\ \A k \in Kind : instance[k] <= made
  /\ \A k \in Kind :
       instance[k] # NULL =>
         instance[k] \in alive \/ \E c \in Client : call[c].step = "clear" /\ call[c].kind = k

\* One client at most is in a call.
OneCalls == \A c, d \in Client : call[c] # Idle /\ call[d] # Idle => c = d

\* The inductive invariant of the factory.
FactoryInv ==
  Typed /\ (~overlapped => ~misused /\ CallsFit /\ PointersFit /\ OneCalls)

Steps == \E c \in Client : FactoryStep(c)

\* The pointers are NULL at first.
LEMMA FactoryInvInit == FactoryInit => FactoryInv
<1> SUFFICES ASSUME FactoryInit PROVE FactoryInv
  OBVIOUS
<1>1. /\ \A k \in Kind : instance[k] = 0
      /\ instance \in [Kind -> Nat]
  BY DEF FactoryInit, NULL
<1>2. Idle \in Calling /\ Idle.step = "idle"
  BY DEF Idle, Calling, Kind
<1>3. /\ \A c \in Client : call[c] = Idle
      /\ call \in [Client -> Calling]
  BY <1>2 DEF FactoryInit
<1>4. Typed
  BY <1>1, <1>3 DEF FactoryInit, Typed
<1>5. CallsFit /\ OneCalls
  BY <1>2, <1>3 DEF CallsFit, OneCalls
<1>6. PointersFit
  BY <1>1 DEF FactoryInit, PointersFit, NULL
<1> QED BY <1>4, <1>5, <1>6 DEF FactoryInit, FactoryInv

\* A call that starts with nobody else in one finds every client idle.
LEMMA AloneIsIdle ==
  ASSUME NEW c \in Client, NEW k \in Kind, Typed, Calls(c, k), ~overlapped'
  PROVE  ~overlapped /\ \A d \in Client : call[d] = Idle
BY DEF Calls, Typed

\* Create returns, or takes note of the NULL it saw.
LEMMA CreateKeeps ==
  ASSUME NEW c \in Client, NEW k \in Kind, FactoryInv, Create(c, k)
  PROVE  FactoryInv'
<1>1. Typed'
  BY DEF FactoryInv, Typed, Create, Calls, Calling, Idle, Kind
<1>2. ASSUME ~overlapped' PROVE (~misused /\ CallsFit /\ PointersFit /\ OneCalls)'
  <2>1. ~overlapped /\ \A d \in Client : call[d] = Idle
    BY <1>2, AloneIsIdle DEF FactoryInv, Create
  <2>2. ~misused /\ PointersFit /\ UNCHANGED <<instance, alive, made, misused>>
    BY <2>1 DEF FactoryInv, Create
  <2>3. \A d \in Client \ {c} : call'[d] = Idle
    BY <2>1 DEF Create, FactoryInv, Typed
  <2>4. call'[c] = Idle \/ (call'[c] = [step |-> "new", kind |-> k] /\ instance[k] = NULL)
    BY <2>1 DEF Create, FactoryInv, Typed
  <2>5. CallsFit'
    BY <2>2, <2>3, <2>4 DEF CallsFit, Idle
  <2>6. PointersFit'
    BY <2>1, <2>2 DEF PointersFit, Idle
  <2>7. OneCalls'
    BY <2>3 DEF OneCalls
  <2> QED BY <2>2, <2>5, <2>6, <2>7
<1> QED BY <1>1, <1>2 DEF FactoryInv

\* Whoever is in a call is the only one.
LEMMA OthersIdle ==
  ASSUME NEW c \in Client, FactoryInv, ~overlapped, call[c].step # "idle"
  PROVE  \A d \in Client \ {c} : call[d] = Idle
BY DEF FactoryInv, OneCalls, Idle

\* A new object has a number nobody has, and the pointer was NULL.
LEMMA MakeKeeps ==
  ASSUME NEW c \in Client, FactoryInv, Make(c)
  PROVE  FactoryInv'
<1> DEFINE k == call[c].kind
<1>0. k \in Kind /\ call[c].step = "new"
  BY DEF FactoryInv, Typed, Calling, Make
<1>1. Typed'
  BY <1>0 DEF FactoryInv, Typed, Make, Calling, Idle, Kind
<1>2. ASSUME ~overlapped' PROVE (~misused /\ CallsFit /\ PointersFit /\ OneCalls)'
  <2>1. /\ ~overlapped /\ ~misused /\ CallsFit /\ PointersFit
        /\ UNCHANGED misused
    BY <1>2 DEF FactoryInv, Make
  <2>2. \A d \in Client \ {c} : call[d] = Idle
    BY <2>1, <1>0, OthersIdle
  <2>3. \A d \in Client : call'[d] = Idle
    BY <2>2 DEF Make, FactoryInv, Typed
  <2>4. instance[k] = NULL
    BY <2>1, <1>0 DEF CallsFit
  <2>5. /\ made \in Nat /\ made' = made + 1 /\ alive' = alive \union {made + 1}
        /\ instance'[k] = made + 1
        /\ \A j \in Kind : j # k => instance'[j] = instance[j]
    BY <1>0 DEF FactoryInv, Typed, Make
  <2>6. \A j \in Kind : instance[j] \in Nat /\ instance[j] <= made
    BY <2>1 DEF FactoryInv, Typed, PointersFit
  <2>7. PointersFit'
    <3>1. \A o \in alive' : \E j \in Kind : instance'[j] = o
      <4>1. ASSUME NEW o \in alive PROVE \E j \in Kind : instance'[j] = o
        <5>1. PICK j \in Kind : instance[j] = o
          BY <4>1, <2>1 DEF PointersFit
        <5>2. j # k
          BY <5>1, <4>1, <2>4 DEF FactoryInv, Typed, NULL
        <5> QED BY <5>1, <5>2, <2>5
      <4> QED BY <4>1, <2>5, <1>0
    <3>2. \A i \in Kind, j \in Kind : instance'[i] = instance'[j] /\ instance'[i] # NULL => i = j
      BY <2>5, <2>6, <2>1 DEF PointersFit
    <3>3. \A j \in Kind : instance'[j] <= made'
      BY <2>5, <2>6
    <3>4. \A j \in Kind : instance'[j] # NULL => instance'[j] \in alive'
      <4>1. ASSUME NEW j \in Kind, j # k, instance'[j] # NULL PROVE instance'[j] \in alive'
        BY <4>1, <2>1, <2>2, <2>5, <1>0 DEF PointersFit, Idle
      <4> QED BY <4>1, <2>5
    <3> QED BY <3>1, <3>2, <3>3, <3>4 DEF PointersFit
  <2> QED BY <2>1, <2>3, <2>7 DEF CallsFit, OneCalls, Idle
<1> QED BY <1>1, <1>2 DEF FactoryInv

\* Destroy has seen a pointer, and with every client idle that is one to an
\* object that exists.
LEMMA DestroyKeeps ==
  ASSUME NEW c \in Client, NEW k \in Kind, FactoryInv, Destroy(c, k)
  PROVE  FactoryInv'
<1>1. Typed'
  BY DEF FactoryInv, Typed, Destroy, Calls, Calling, Idle, Kind
<1>2. ASSUME ~overlapped' PROVE (~misused /\ CallsFit /\ PointersFit /\ OneCalls)'
  <2>1. ~overlapped /\ \A d \in Client : call[d] = Idle
    BY <1>2, AloneIsIdle DEF FactoryInv, Destroy
  <2>2. ~misused /\ PointersFit /\ UNCHANGED <<instance, alive, made, misused>>
    BY <2>1 DEF FactoryInv, Destroy
  <2>3. /\ \A d \in Client \ {c} : call'[d] = Idle
        /\ call'[c] = [step |-> "delete", kind |-> k]
    BY <2>1 DEF Destroy, FactoryInv, Typed
  <2>4. instance[k] \in alive
    BY <2>1, <2>2 DEF PointersFit, Destroy, Idle
  <2>5. CallsFit'
    BY <2>2, <2>3, <2>4 DEF CallsFit, Idle
  <2>6. PointersFit'
    BY <2>1, <2>2 DEF PointersFit, Idle
  <2>7. OneCalls'
    BY <2>3 DEF OneCalls
  <2> QED BY <2>2, <2>5, <2>6, <2>7
<1> QED BY <1>1, <1>2 DEF FactoryInv

\* What is deleted exists, and only its own pointer is left to it.
LEMMA DeleteKeeps ==
  ASSUME NEW c \in Client, FactoryInv, Delete(c)
  PROVE  FactoryInv'
<1> DEFINE k == call[c].kind
<1>0. k \in Kind /\ call[c].step = "delete"
  BY DEF FactoryInv, Typed, Calling, Delete
<1>1. Typed'
  BY <1>0 DEF FactoryInv, Typed, Delete, At, Calling, Idle, Kind
<1>2. ASSUME ~overlapped' PROVE (~misused /\ CallsFit /\ PointersFit /\ OneCalls)'
  <2>1. ~overlapped /\ ~misused /\ CallsFit /\ PointersFit
    BY <1>2 DEF FactoryInv, Delete
  <2>2. \A d \in Client \ {c} : call[d] = Idle /\ call'[d] = Idle
    BY <2>1, <1>0, OthersIdle DEF Delete, At, FactoryInv, Typed
  <2>3. instance[k] \in alive
    BY <2>1, <1>0 DEF CallsFit
  <2>4. /\ call'[c].step = "clear" /\ call'[c].kind = k
        /\ alive' = alive \ {instance[k]} /\ UNCHANGED <<instance, made>>
    BY <1>0 DEF Delete, At, FactoryInv, Typed, Calling
  <2>5. ~misused'
    BY <2>1, <2>3 DEF Delete
  <2>6. PointersFit'
    <3>1. ASSUME NEW j \in Kind, instance[j] # NULL, j # k PROVE instance[j] \in alive'
      <4>1. instance[j] # instance[k]
        BY <3>1, <2>1, <1>0 DEF PointersFit
      <4>2. instance[j] \in alive
        BY <3>1, <2>1, <2>2, <1>0 DEF PointersFit, Idle
      <4> QED BY <4>1, <4>2, <2>4
    <3> QED BY <3>1, <2>1, <2>4, <1>0 DEF PointersFit
  <2>7. CallsFit'
    BY <2>2, <2>4 DEF CallsFit, Idle
  <2>8. OneCalls'
    BY <2>2 DEF OneCalls
  <2> QED BY <2>5, <2>6, <2>7, <2>8
<1> QED BY <1>1, <1>2 DEF FactoryInv

\* The pointer that is cleared pointed to nothing any more.
LEMMA ClearKeeps ==
  ASSUME NEW c \in Client, FactoryInv, Clear(c)
  PROVE  FactoryInv'
<1> DEFINE k == call[c].kind
<1>0. k \in Kind /\ call[c].step = "clear"
  BY DEF FactoryInv, Typed, Calling, Clear
<1>1. Typed'
  BY <1>0 DEF FactoryInv, Typed, Clear, Calling, Idle, Kind, NULL
<1>2. ASSUME ~overlapped' PROVE (~misused /\ CallsFit /\ PointersFit /\ OneCalls)'
  <2>1. /\ ~overlapped /\ ~misused /\ CallsFit /\ PointersFit
        /\ UNCHANGED <<misused, alive, made>>
    BY <1>2 DEF FactoryInv, Clear
  <2>2. \A d \in Client \ {c} : call[d] = Idle
    BY <2>1, <1>0, OthersIdle
  <2>3. \A d \in Client : call'[d] = Idle
    BY <2>2 DEF Clear, FactoryInv, Typed
  <2>4. /\ instance'[k] = NULL
        /\ \A j \in Kind : j # k => instance'[j] = instance[j]
    BY <1>0 DEF Clear, FactoryInv, Typed
  <2>5. instance[k] \notin alive
    BY <2>1, <1>0 DEF CallsFit
  <2>6. PointersFit'
    <3>1. \A o \in alive : \E j \in Kind : instance'[j] = o
      BY <2>1, <2>4, <2>5 DEF PointersFit
    <3>2. ASSUME NEW j \in Kind, instance'[j] # NULL PROVE instance'[j] \in alive
      BY <3>2, <2>1, <2>2, <2>4, <1>0 DEF PointersFit, Idle
    <3>3. \A i \in Kind, j \in Kind : instance'[i] = instance'[j] /\ instance'[i] # NULL => i = j
      BY <2>1, <2>4, <1>0 DEF PointersFit
    <3>4. \A j \in Kind : instance'[j] <= made
      BY <2>1, <2>4, <1>0 DEF PointersFit, FactoryInv, Typed, NULL
    <3> QED BY <2>1, <3>1, <3>2, <3>3, <3>4 DEF PointersFit
  <2> QED BY <2>1, <2>3, <2>6 DEF CallsFit, OneCalls, Idle
<1> QED BY <1>1, <1>2 DEF FactoryInv

\* Every step of a client, and every step that leaves the factory alone.
LEMMA FactoryInvStep == FactoryInv /\ [Steps]_factory_vars => FactoryInv'
<1> SUFFICES ASSUME FactoryInv, [Steps]_factory_vars PROVE FactoryInv'
  OBVIOUS
<1>1. CASE UNCHANGED factory_vars
  BY <1>1 DEF factory_vars, FactoryInv, Typed, CallsFit, PointersFit, OneCalls
<1>2. ASSUME NEW c \in Client, FactoryStep(c) PROVE FactoryInv'
  BY <1>2, CreateKeeps, MakeKeeps, DestroyKeeps, DeleteKeeps, ClearKeeps DEF FactoryStep
<1> QED BY <1>1, <1>2 DEF Steps

\* With every client idle nothing is about to be cleared.
LEMMA FactoryInvImplies == FactoryInv => OneInstance
BY DEF FactoryInv, PointersFit, OneInstance, Idle

-----------------------------------------------------------------------------
\* For any number of clients: as long as their calls do not overlap, the
\* factory keeps one instance of a kind, loses none and deletes none twice.
THEOREM FactoryKeepsOne == FactorySpec => []OneInstance
<1>1. FactoryInv /\ [\E c \in Client : FactoryStep(c)]_factory_vars => FactoryInv'
  BY FactoryInvStep DEF Steps
<1> QED BY FactoryInvInit, <1>1, FactoryInvImplies, PTL DEF FactorySpec

\* Every step of the sample is one of its client main in the factory, one of
\* another client, or none.
LEMMA SampleUsesFactory == SampleAssumption /\ [Next]_vars => [Steps]_factory_vars
<1> SUFFICES ASSUME SampleAssumption, [Next]_vars PROVE [Steps]_factory_vars
  OBVIOUS
<1>1. CASE UNCHANGED vars
  BY <1>1 DEF vars, factory_vars
<1>2. CASE Others
  BY <1>2 DEF Others, Steps
<1>3. CASE GetFactory
  BY <1>3 DEF GetFactory, GetInstance, Steps, FactoryStep, Kind, SampleAssumption
<1>4. CASE GetCamera
  BY <1>4 DEF GetCamera, GetInstance, Steps, FactoryStep, Kind, SampleAssumption
<1>5. CASE Construct \/ StartThread
  BY <1>5 DEF Construct, StartThread, factory_vars
<1>6. CASE App
  BY <1>6 DEF App, Register, StartCamera, SetBitRate, SetFrameRate, Uses, factory_vars
<1>7. CASE Frame
  BY <1>7 DEF Frame, factory_vars
<1> QED BY <1>1, <1>2, <1>3, <1>4, <1>5, <1>6, <1>7 DEF Next, Main

\* The sample application and the others share that factory.
THEOREM SampleKeepsOne == Spec => []OneInstance
<1>1. Init => FactoryInv
  BY FactoryInvInit DEF Init
<1>2. FactoryInv /\ [Next]_vars => FactoryInv'
  BY SampleAssumption, SampleUsesFactory, FactoryInvStep
<1> QED BY <1>1, <1>2, FactoryInvImplies, PTL DEF Spec
-----------------------------------------------------------------------------
\* The camera main was given is the one the factory still points to.
CameraKept ==
  held[main]["Video"] # NULL /\ ~video_deleted /\ ~overlapped =>
    held[main]["Video"] = instance["Video"] /\ instance["Video"] \in alive

\* What the argument needs to know of the variables it is about.
CameraTyped ==
  /\ held \in [Client -> [Kind -> Nat]]
  /\ video_deleted \in BOOLEAN

CameraInv == FactoryInv /\ CameraTyped /\ CameraKept

\* main is in a call only while it gets its instances, and what a call gives
\* is what the factory points to.
LEMMA MainKeepsCamera ==
  ASSUME NEW k \in Kind, NEW next, SampleAssumption, CameraInv, FactoryInv',
         GetInstance(k, next)
  PROVE  CameraKept' /\ CameraTyped'
<1>1. CASE Create(main, k)
  <2>1. CameraTyped'
    <3>1. instance[k] \in Nat
      BY DEF CameraInv, FactoryInv, Typed
    <3>2. held' = held \/ held' = [held EXCEPT ![main][k] = instance[k]]
      BY <1>1 DEF Create
    <3>3. held' \in [Client -> [Kind -> Nat]]
      BY <3>1, <3>2 DEF CameraInv, CameraTyped
    <3> QED BY <3>3 DEF GetInstance, CameraInv, CameraTyped
  <2>2. ASSUME held'[main]["Video"] # NULL, ~video_deleted', ~overlapped'
        PROVE  held'[main]["Video"] = instance'["Video"] /\ instance'["Video"] \in alive'
    <3>1. /\ ~overlapped /\ ~video_deleted /\ \A d \in Client : call[d] = Idle
      BY <1>1, <2>2, AloneIsIdle DEF GetInstance, Create, CameraInv, FactoryInv, SampleAssumption
    <3>2. UNCHANGED <<instance, alive>> /\ "Video" \in Kind
      BY <1>1 DEF Create, Kind
    <3>3. CASE held' = held
      BY <3>1, <3>2, <3>3, <2>2 DEF CameraInv, CameraKept
    <3>4. CASE held' = [held EXCEPT ![main][k] = instance[k]] /\ k = "Video"
      <4>1. held'[main]["Video"] = instance["Video"]
        BY <3>2, <3>4 DEF CameraInv, CameraTyped, SampleAssumption
      <4>2. instance["Video"] \in alive
        BY <4>1, <2>2, <3>1, <3>2 DEF CameraInv, FactoryInv, PointersFit, Idle
      <4> QED BY <4>1, <4>2, <3>2
    <3>5. CASE held' = [held EXCEPT ![main][k] = instance[k]] /\ k # "Video"
      <4>1. held'[main]["Video"] = held[main]["Video"]
        BY <3>2, <3>5 DEF CameraInv, CameraTyped, SampleAssumption
      <4> QED BY <4>1, <3>1, <3>2, <2>2 DEF CameraInv, CameraKept
    <3> QED BY <1>1, <3>3, <3>4, <3>5 DEF Create
  <2> QED BY <2>1, <2>2 DEF CameraKept
<1>2. CASE Make(main)
  <2> DEFINE m == call[main].kind
  <2>0. main \in Client /\ m \in Kind /\ call[main].step = "new" /\ "Video" \in Kind
    BY <1>2 DEF SampleAssumption, CameraInv, FactoryInv, Typed, Calling, Make, Kind
  <2>1. CameraTyped'
    BY <1>2, <2>0 DEF CameraInv, CameraTyped, GetInstance, Make, FactoryInv, Typed
  <2>2. ASSUME held'[main]["Video"] # NULL, ~video_deleted', ~overlapped'
        PROVE  held'[main]["Video"] = instance'["Video"] /\ instance'["Video"] \in alive'
    <3>1. ~overlapped /\ ~video_deleted
      BY <1>2, <2>2 DEF GetInstance, Make
    <3>2. CASE m = "Video"
      BY <1>2, <2>0, <3>2 DEF Make, CameraInv, CameraTyped, FactoryInv, Typed
    <3>3. CASE m # "Video"
      <4>1. held'[main]["Video"] = held[main]["Video"] /\ instance'["Video"] = instance["Video"]
        BY <1>2, <2>0, <3>3 DEF Make, CameraInv, CameraTyped, FactoryInv, Typed
      <4>2. alive \subseteq alive'
        BY <1>2 DEF Make
      <4> QED BY <4>1, <4>2, <3>1, <2>2 DEF CameraInv, CameraKept
    <3> QED BY <3>2, <3>3
  <2> QED BY <2>1, <2>2 DEF CameraKept
<1> QED BY <1>1, <1>2 DEF GetInstance

\* Another client's step takes the camera away only by deleting it.
LEMMA OthersKeepCamera ==
  ASSUME SampleAssumption, CameraInv, Others
  PROVE  CameraKept' /\ CameraTyped'
<1> PICK c \in Client \ {main} : FactoryStep(c)
  BY DEF Others
<1>1. main \in Client /\ "Video" \in Kind /\ call[c].kind \in Kind
  BY DEF SampleAssumption, Kind, CameraInv, FactoryInv, Typed, Calling
<1>2. held'[main] = held[main] /\ held' \in [Client -> [Kind -> Nat]]
  BY <1>1 DEF FactoryStep, Create, Destroy, Make, Delete, Clear, CameraInv, CameraTyped, FactoryInv, Typed
<1>3. CameraTyped'
  BY <1>2 DEF CameraTyped, CameraInv, Others
<1>4. ASSUME held[main]["Video"] # NULL, ~video_deleted', ~overlapped'
      PROVE  held[main]["Video"] = instance'["Video"] /\ instance'["Video"] \in alive'
  <2>1. ~video_deleted
    BY <1>4 DEF Others
  <2>2. ~overlapped
    BY <1>4 DEF FactoryStep, Create, Destroy, Calls, Make, Delete, Clear
  <2>3. held[main]["Video"] = instance["Video"] /\ instance["Video"] \in alive /\ instance["Video"] # NULL
    BY <1>4, <2>1, <2>2 DEF CameraInv, CameraKept
  <2>4. CallsFit /\ PointersFit
    BY <2>2 DEF CameraInv, FactoryInv
  <2>5. CASE \E k \in Kind : Create(c, k) \/ Destroy(c, k)
    BY <2>3, <2>5 DEF Create, Destroy
  <2>6. CASE Make(c)
    <3>1. call[c].kind # "Video"
      BY <2>3, <2>4, <2>6 DEF CallsFit, Make
    <3> QED BY <3>1, <2>3, <2>6, <1>1 DEF Make, CameraInv, FactoryInv, Typed
  <2>7. CASE Delete(c)
    <3>1. call'[c].step = "clear" /\ call[c].step = "delete"
      BY <2>7, <1>1 DEF Delete, At, CameraInv, FactoryInv, Typed, Calling
    <3>2. call[c].kind # "Video"
      BY <3>1, <1>4 DEF Others
    <3>3. instance["Video"] # instance[call[c].kind]
      BY <3>2, <2>3, <2>4, <1>1 DEF PointersFit
    <3> QED BY <3>3, <2>3, <2>7 DEF Delete
  <2>8. CASE Clear(c)
    <3>1. call[c].kind # "Video"
      BY <2>3, <2>4, <2>8 DEF CallsFit, Clear
    <3> QED BY <3>1, <2>3, <2>8, <1>1 DEF Clear, CameraInv, FactoryInv, Typed
  <2> QED BY <2>5, <2>6, <2>7, <2>8 DEF FactoryStep
<1> QED BY <1>2, <1>3, <1>4 DEF CameraKept

\* For any number of clients: destroying and making factories and microphones
\* leaves the camera of the sample alone.
THEOREM CameraOutlives == Spec => []CameraOutlivesFactory
<1>1. Init => CameraInv
  <2> SUFFICES ASSUME Init PROVE CameraInv
    OBVIOUS
  <2>1. FactoryInv /\ CameraTyped
    BY FactoryInvInit DEF Init, FactoryInit, CameraTyped, NULL
  <2>2. held[main]["Video"] = NULL
    BY SampleAssumption DEF SampleAssumption, Init, FactoryInit, Kind
  <2> QED BY <2>1, <2>2 DEF CameraInv, CameraKept
<1>2. CameraInv /\ [Next]_vars => CameraInv'
  <2> SUFFICES ASSUME CameraInv, [Next]_vars PROVE CameraInv'
    OBVIOUS
  <2> USE SampleAssumption
  <2>1. FactoryInv'
    BY SampleUsesFactory, FactoryInvStep DEF CameraInv
  <2>2. CASE Others
    BY <2>1, <2>2, OthersKeepCamera DEF CameraInv
  <2>3. CASE GetFactory \/ GetCamera
    <3>1. CameraKept' /\ CameraTyped'
      BY <2>1, <2>3, MainKeepsCamera DEF GetFactory, GetCamera, Kind
    <3> QED BY <2>1, <3>1 DEF CameraInv
  <2>4. CASE UNCHANGED <<factory_vars, video_deleted>>
    BY <2>1, <2>4 DEF factory_vars, CameraInv, CameraKept, CameraTyped
  <2>5. CASE Construct \/ StartThread \/ App \/ Frame \/ UNCHANGED vars
    <3>1. UNCHANGED <<factory_vars, video_deleted>>
      BY <2>5 DEF Construct, StartThread, App, Register, StartCamera, SetBitRate,
                  SetFrameRate, Uses, Frame, vars
    <3> QED BY <3>1, <2>4
  <2> QED BY <2>2, <2>3, <2>5 DEF Next, Main
<1>3. CameraInv => CameraOutlivesFactory
  BY DEF CameraInv, CameraKept, CameraOutlivesFactory
<1> QED BY <1>1, <1>2, <1>3, PTL DEF Spec
-----------------------------------------------------------------------------
\* What the callback keeps of the frames it counted.
FramesInv ==
  /\ frame_ctr \in Nat /\ write_failed \in BOOLEAN
  /\ ~write_failed => file = [i \in 1 .. frame_ctr |-> i]
  /\ process = "running" => frame_ctr < FRAME_LIMIT
  /\ process = "exited" => frame_ctr = FRAME_LIMIT /\ fp = "closed"

\* A written frame comes after those written before it.
LEMMA OneMoreFrame ==
  ASSUME NEW n \in Nat, NEW s, s = [i \in 1 .. n |-> i]
  PROVE  Append(s, n + 1) = [i \in 1 .. n + 1 |-> i]
<1>1. s \in Seq(Nat) /\ Len(s) = n
  BY LenProperties
<1> DEFINE t == Append(s, n + 1)
<1>2. /\ t \in Seq(Nat) /\ Len(t) = n + 1 /\ t[n + 1] = n + 1
      /\ \A i \in 1 .. n : t[i] = i
  BY <1>1, AppendProperties
<1>3. DOMAIN t = 1 .. n + 1 /\ t = [i \in 1 .. n + 1 |-> t[i]]
  BY <1>2
<1> QED BY <1>2, <1>3

\* The one step that counts a frame, writes it and may end the process.
LEMMA FrameKeeps ==
  ASSUME SampleAssumption, FramesInv, process = "running",
         NEW written \in BOOLEAN, OnEncodedFrames(written)
  PROVE  FramesInv'
<1>1. frame_ctr' = frame_ctr + 1 /\ frame_ctr < FRAME_LIMIT /\ FRAME_LIMIT \in Nat
  BY DEF SampleAssumption, FramesInv, OnEncodedFrames
<1>2. write_failed' \in BOOLEAN
  BY DEF OnEncodedFrames, FramesInv
<1>3. ASSUME ~write_failed' PROVE file' = [i \in 1 .. frame_ctr' |-> i]
  <2>1. file = [i \in 1 .. frame_ctr |-> i] /\ file' = Append(file, frame_ctr + 1)
    BY <1>3 DEF OnEncodedFrames, FramesInv
  <2> QED BY <2>1, <1>1, OneMoreFrame DEF FramesInv
<1>4. CASE frame_ctr' = FRAME_LIMIT
  BY <1>1, <1>2, <1>3, <1>4 DEF OnEncodedFrames, FramesInv
<1>5. CASE frame_ctr' # FRAME_LIMIT
  BY <1>1, <1>2, <1>3, <1>5 DEF OnEncodedFrames, FramesInv
<1> QED BY <1>4, <1>5

\* No other step counts, writes or ends the process in order; what closes the
\* file is over then.
LEMMA FramesInvStep == SampleAssumption /\ FramesInv /\ [Next]_vars => FramesInv'
<1> SUFFICES ASSUME SampleAssumption, FramesInv, [Next]_vars PROVE FramesInv'
  OBVIOUS
<1>1. CASE process = "running" /\ Frame
  BY <1>1, FrameKeeps DEF Frame
<1>2. CASE UNCHANGED <<frame_ctr, file, write_failed, process, fp>>
  BY <1>2 DEF FramesInv
<1>3. CASE process = "running" /\ UNCHANGED <<frame_ctr, file, write_failed>>
           /\ process' \in {"running", "crashed"}
  BY <1>3 DEF FramesInv
<1>4. CASE process = "running" /\ (Construct \/ App)
  BY <1>3, <1>4 DEF Construct, App, Register, StartCamera, SetBitRate, SetFrameRate,
                    Uses, Through
<1>5. CASE GetFactory \/ GetCamera \/ StartThread \/ Others \/ UNCHANGED vars
  BY <1>2, <1>5 DEF GetFactory, GetCamera, GetInstance, StartThread, Others, vars,
                    sample_vars
<1> QED BY <1>1, <1>4, <1>5 DEF Next, Main

\* Whatever the limit, the clients and the order of the camera's and the
\* application's threads: a process that exits leaves a closed file, with the
\* first FRAME_LIMIT frames in order if every write succeeded.
THEOREM FileHasFirstFrames == Spec => []FirstFrames
<1>1. Init => FramesInv
  <2> SUFFICES ASSUME Init PROVE FramesInv
    OBVIOUS
  <2>1. <<>> = [i \in 1 .. 0 |-> i]
    OBVIOUS
  <2>2. frame_ctr = 0 /\ file = [i \in 1 .. frame_ctr |-> i]
    BY <2>1 DEF Init
  <2>3. /\ frame_ctr \in Nat /\ frame_ctr < FRAME_LIMIT
        /\ process = "running" /\ "running" # "exited"
    BY <2>2, SampleAssumption DEF Init, SampleAssumption
  <2>4. write_failed \in BOOLEAN
    BY Zenon DEF Init
  <2> QED BY <2>2, <2>3, <2>4, Zenon DEF FramesInv
<1>2. FramesInv /\ [Next]_vars => FramesInv'
  BY SampleAssumption, FramesInvStep
<1>3. FramesInv => FirstFrames
  BY DEF FramesInv, FirstFrames
<1> QED BY <1>1, <1>2, <1>3, PTL DEF Spec
=============================================================================
