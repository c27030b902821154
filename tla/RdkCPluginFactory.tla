--------------------------- MODULE RdkCPluginFactory ---------------------------
(***************************************************************************)
(* The plugin factory (RdkCPluginFactory.cpp): one factory, one video and  *)
(* one audio capturer for the whole process, behind three global pointers  *)
(* that are tested and set without a lock.  Objects are numbered in the    *)
(* order they are made, 0 is NULL; a pointer is re-read wherever the code  *)
(* names it.  RFC only selects the class of the audio capturer.            *)
(***************************************************************************)
EXTENDS Naturals

CONSTANTS
  Client,   \* threads that call the factory
  MaxMade   \* bound: objects made

Kind == {"Factory", "Video", "Audio"}
NULL == 0

ASSUME FactoryAssumption == MaxMade \in Nat

VARIABLES
  built,      \* the kinds this build has classes for: a platform or none
  instance,   \* FactoryInstance, VCInstance and ACInstance
  alive,      \* objects that exist
  made,       \* how many there have been
  call,       \* per client: the step its call is at, and the kind
  held,       \* per client and kind: what it was given last
  overlapped, \* history: two calls were under way at the same time
  misused     \* history: an object was deleted again

factory_vars == <<built, instance, alive, made, call, held, overlapped, misused>>

Idle == [step |-> "idle", kind |-> "Factory"]

FactoryInit ==
  /\ built \in {{"Factory"}, Kind}
  /\ instance = [k \in Kind |-> NULL]
  /\ alive = {} /\ made = 0
  /\ call = [c \in Client |-> Idle]
  /\ held = [c \in Client |-> [k \in Kind |-> NULL]]
  /\ overlapped = FALSE /\ misused = FALSE

\* Client c calls a function for kind k; the capturers' are methods of a
\* factory, of whose object they use nothing.
Calls(c, k) ==
  /\ call[c] = Idle
  /\ k # "Factory" => held[c]["Factory"] # NULL
  /\ overlapped' = (overlapped \/ \E d \in Client \ {c} : call[d] # Idle)

At(c, step) == [call EXCEPT ![c].step = step]

\* CreatePluginFactoryInstance, CreateVideoCapturer, CreateAudioCapturer: the
\* pointer is tested; what there is already, or NULL for want of a platform,
\* is returned at once.
Create(c, k) ==
  /\ Calls(c, k)
  /\ IF instance[k] = NULL /\ k \in built
       THEN call' = [call EXCEPT ![c] = [step |-> "new", kind |-> k]] /\ UNCHANGED held
       ELSE held' = [held EXCEPT ![c][k] = instance[k]] /\ UNCHANGED call
  /\ UNCHANGED <<built, instance, alive, made, misused>>

\* new, the assignment and the return.
Make(c) ==
  LET k == call[c].kind
  IN  /\ call[c].step = "new" /\ made < MaxMade
      /\ made' = made + 1 /\ alive' = alive \union {made'}
      /\ instance' = [instance EXCEPT ![k] = made']
      /\ held' = [held EXCEPT ![c][k] = made']
      /\ call' = [call EXCEPT ![c] = Idle]
      /\ UNCHANGED <<built, overlapped, misused>>

\* DestroyPluginFactoryInstance and the capturers': nothing to do without an
\* instance.
Destroy(c, k) ==
  /\ Calls(c, k) /\ instance[k] # NULL
  /\ call' = [call EXCEPT ![c] = [step |-> "delete", kind |-> k]]
  /\ UNCHANGED <<built, instance, alive, made, held, misused>>

\* Mutant of Delete: the factory takes the video capturer along, as a comment
\* has it.
DeleteWithVideo(c) ==
  LET k == call[c].kind
      gone == {instance[k]} \union IF k = "Factory" THEN {instance["Video"]} ELSE {}
  IN  /\ call[c].step = "delete"
      /\ alive' = alive \ gone
      /\ misused' = (misused \/ (instance[k] # NULL /\ instance[k] \notin alive))
      /\ call' = At(c, "clear")
      /\ UNCHANGED <<built, instance, made, held, overlapped>>

Delete(c) ==
  LET p == instance[call[c].kind]
  IN  /\ call[c].step = "delete"
      /\ alive' = alive \ {p}
      /\ misused' = (misused \/ (p # NULL /\ p \notin alive))
      /\ call' = At(c, "clear")
      /\ UNCHANGED <<built, instance, made, held, overlapped>>

\* Mutant of Clear: the pointer keeps the address.
ClearKept(c) ==
  /\ call[c].step = "clear"
  /\ call' = [call EXCEPT ![c] = Idle]
  /\ UNCHANGED <<built, instance, alive, made, held, overlapped, misused>>

Clear(c) ==
  /\ call[c].step = "clear"
  /\ instance' = [instance EXCEPT ![call[c].kind] = NULL]
  /\ call' = [call EXCEPT ![c] = Idle]
  /\ UNCHANGED <<built, alive, made, held, overlapped, misused>>

FactoryStep(c) ==
  \/ \E k \in Kind : Create(c, k) \/ Destroy(c, k)
  \/ Make(c) \/ Delete(c) \/ Clear(c)

FactorySpec == FactoryInit /\ [][\E c \in Client : FactoryStep(c)]_factory_vars

-----------------------------------------------------------------------------
(* Properties.                                                             *)

FactoryTypeOK ==
  /\ built \subseteq Kind
  /\ instance \in [Kind -> 0 .. MaxMade] /\ made \in 0 .. MaxMade
  /\ alive \subseteq 1 .. made
  /\ call \in [Client -> [step : {"idle", "new", "delete", "clear"}, kind : Kind]]
  /\ held \in [Client -> [Kind -> 0 .. MaxMade]]
  /\ {overlapped, misused} \subseteq BOOLEAN

\* As long as calls do not overlap, what exists is what the pointers point to,
\* through every sequence of creating and destroying, whoever calls: there is
\* one instance of a kind at most, none is lost, none is deleted twice.
OneInstance ==
  ~overlapped =>
    /\ ~misused
    /\ \A o \in alive : \E k \in Kind : instance[k] = o
    /\ \A k \in Kind :
         (\A c \in Client : call[c] = Idle) /\ instance[k] # NULL => instance[k] \in alive
=============================================================================
