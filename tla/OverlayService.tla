--------------------------- MODULE OverlayService ---------------------------
(***************************************************************************)
(* What a caller of the overlay library may rely on.  Every stream shows   *)
(* some picture.  A call names the stream, the area and the picture it     *)
(* wants; while it runs, its own stream may show anything, the others keep *)
(* what they show.  A call nobody disturbed that reports success leaves    *)
(* exactly its picture on its stream.  A call that was disturbed, or in    *)
(* which something failed, may leave its stream garbled: from then on it   *)
(* may show anything at any time, until a call succeeds on it.             *)
(***************************************************************************)
CONSTANTS Proc, Stream, Blank

VARIABLES
  screen,  \* what each stream shows
  call,    \* the call of each process, or Blank
  alone,   \* processes in a call nobody has disturbed, nothing failing in it
  garbled  \* streams that may show anything

svars == <<screen, call, alone, garbled>>

Idle == Blank

\* The stream of a process in a call.
Draws(p, s) == call[p] # Idle /\ call[p].stream = s

Init ==
  /\ call = [p \in Proc |-> Idle]
  /\ alone = {}
  /\ screen = [s \in Stream |-> Blank]
  /\ garbled = {}

\* Only stream t, and what is garbled, may show something else.
OnlyOn(t) ==
  /\ \A s \in Stream \ ({t} \union garbled) : screen'[s] = screen[s]
  /\ garbled' \ {t} = garbled \ {t}

\* A process starts to draw: nobody who draws on that stream is alone now.
Call(p) ==
  /\ call[p] = Idle /\ call'[p] # Idle
  /\ \A q \in Proc \ {p} : call'[q] = call[q]
  /\ LET rivals == {q \in Proc : Draws(q, call'[p].stream)}
     IN  alone' = IF rivals = {} THEN alone \union {p} ELSE alone \ rivals
  /\ UNCHANGED <<screen, garbled>>

\* Some change of the stream the process draws on.
Draw(p) ==
  /\ call[p] # Idle /\ OnlyOn(call[p].stream)
  /\ UNCHANGED <<call, alone>>

\* The file of a call changed under it, or something in a call failed.
Disturb == alone' \subseteq alone /\ UNCHANGED <<screen, call, garbled>>

\* The call is over and reports success ...
Succeed(p) ==
  /\ call[p] # Idle /\ call' = [call EXCEPT ![p] = Idle]
  /\ OnlyOn(call[p].stream)
  /\ p \in alone => /\ screen'[call[p].stream] = call[p].picture
                    /\ call[p].stream \notin garbled'
  /\ alone' = alone \ {p}

\* ... or failure, or its process died.
Fail(p) ==
  /\ call[p] # Idle /\ call' = [call EXCEPT ![p] = Idle]
  /\ alone' = alone \ {p} /\ UNCHANGED <<screen, garbled>>

Next ==
  \/ Disturb
  \/ \E p \in Proc : Call(p) \/ Draw(p) \/ Succeed(p) \/ Fail(p)

Spec == Init /\ [][Next]_svars
=============================================================================
