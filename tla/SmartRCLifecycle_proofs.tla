---------------------- MODULE SmartRCLifecycle_proofs -----------------------
(***************************************************************************)
(* Theorems about SmartRCLifecycle, for every selection of streams, every  *)
(* set of signals and every number of them.                                *)
(***************************************************************************)
EXTENDS SmartRCLifecycle, TLAPS

-----------------------------------------------------------------------------
(* The scan over the streams.                                              *)

\* The scan finds the least selected stream from i on, if there is one.
LEMMA FirstFromLeast ==
  ASSUME NEW i \in Nat, \E s \in Stream : s >= i
  PROVE  /\ FirstFrom(i) \in Stream
         /\ FirstFrom(i) >= i
         /\ \A t \in Stream : t >= i => FirstFrom(i) <= t
<1> DEFINE Least(s) == s >= i /\ \A t \in Stream : t >= i => s <= t
<1>1. \E s \in Stream : Least(s)
  <2>1. \A s \in Stream : s \in {0, 1, 2, 3, 4}
    <3>1. \A s \in 0 .. 4 : s \in {0, 1, 2, 3, 4}
      OBVIOUS
    <3>2. QED BY <3>1, StreamAssumption
  <2>2. CASE 0 \in Stream /\ 0 >= i
    BY <2>1, <2>2
  <2>3. CASE ~ (0 \in Stream /\ 0 >= i) /\ 1 \in Stream /\ 1 >= i
    BY <2>1, <2>3
  <2>4. CASE /\ ~ (0 \in Stream /\ 0 >= i) /\ ~ (1 \in Stream /\ 1 >= i)
             /\ 2 \in Stream /\ 2 >= i
    BY <2>1, <2>4
  <2>5. CASE /\ ~ (0 \in Stream /\ 0 >= i) /\ ~ (1 \in Stream /\ 1 >= i)
             /\ ~ (2 \in Stream /\ 2 >= i)
             /\ 3 \in Stream /\ 3 >= i
    BY <2>1, <2>5
  <2>6. CASE /\ ~ (0 \in Stream /\ 0 >= i) /\ ~ (1 \in Stream /\ 1 >= i)
             /\ ~ (2 \in Stream /\ 2 >= i) /\ ~ (3 \in Stream /\ 3 >= i)
    BY <2>1, <2>6
  <2>7. QED BY <2>2, <2>3, <2>4, <2>5, <2>6
<1>2. FirstFrom(i) = CHOOSE s \in Stream : Least(s)
  BY DEF FirstFrom
<1>3. QED BY <1>1, <1>2

\* A scan from the start finds a stream: one is always selected.
LEMMA FirstFromZero == FirstFrom(0) \in Stream
<1>1. \E s \in Stream : s >= 0
  <2>1. PICK s \in Stream : s \in 0 .. 4
    BY StreamAssumption
  <2>2. s >= 0
    BY <2>1
  <2>3. QED BY <2>2
<1>2. 0 \in Nat
  OBVIOUS
<1>3. QED BY <1>1, <1>2, FirstFromLeast

\* The scan yields a stream or says that there is none.
LEMMA FirstFromType ==
  ASSUME NEW i \in Nat PROVE FirstFrom(i) \in Stream \/ FirstFrom(i) = NoStream
<1>1. CASE \E s \in Stream : s >= i
  BY <1>1, FirstFromLeast
<1>2. CASE ~ \E s \in Stream : s >= i
  BY <1>2 DEF FirstFrom
<1>3. QED BY <1>1, <1>2

\* The stream after a: nothing selected lies between, and when there is none,
\* nothing selected lies behind a.
LEMMA NextStream ==
  ASSUME NEW a \in Stream
  PROVE  /\ FirstFrom(a + 1) # NoStream =>
              /\ FirstFrom(a + 1) \in Stream
              /\ \A s \in Stream : s < FirstFrom(a + 1) <=> s <= a
         /\ FirstFrom(a + 1) = NoStream => \A s \in Stream : s <= a
<1>1. a + 1 \in Nat /\ \A s \in Stream : s \in 0 .. 4
  BY StreamAssumption
<1>2. CASE \E s \in Stream : s >= a + 1
  <2>1. /\ FirstFrom(a + 1) \in Stream
        /\ FirstFrom(a + 1) >= a + 1
        /\ \A t \in Stream : t >= a + 1 => FirstFrom(a + 1) <= t
    BY <1>1, <1>2, FirstFromLeast
  <2>2. FirstFrom(a + 1) # NoStream
    BY <1>1, <2>1 DEF NoStream
  <2>3. QED BY <1>1, <2>1, <2>2
<1>3. CASE ~ \E s \in Stream : s >= a + 1
  <2>1. FirstFrom(a + 1) = NoStream
    BY <1>3 DEF FirstFrom
  <2>2. ASSUME NEW s \in Stream PROVE s <= a
    <3>1. s \in Nat /\ a \in Nat
      BY StreamAssumption
    <3>2. ~ (s >= a + 1)
      BY <1>3
    <3>3. QED BY <3>1, <3>2
  <2>3. QED BY <2>1, <2>2
<1>4. QED BY <1>2, <1>3

\* A step on to the next stream leaves the thread at a selected stream.
LEMMA StepStreamType ==
  ASSUME NEW t \in Thread, at \in [Thread -> Stream],
         NEW p, NEW q, NEW r, StepStream(t, p, q, r)
  PROVE  at' \in [Thread -> Stream]
<1>1. at[t] \in Stream
  OBVIOUS
<1>2. FirstFrom(at[t] + 1) # NoStream => FirstFrom(at[t] + 1) \in Stream
  BY <1>1, NextStream
<1>3. QED BY <1>2, FirstFromZero DEF StepStream

\* What Blame records is one of the known kinds.
LEMMA BlameType ==
  ASSUME misuse \subseteq Misuse, NEW k \in Misuse, NEW bad, Blame(k, bad)
  PROVE  misuse' \subseteq Misuse
BY DEF Blame

-----------------------------------------------------------------------------
(* Type correctness.                                                       *)

LEMMA TypeMain == TypeOK /\ Main => TypeOK'
<1> SUFFICES ASSUME TypeOK, Main PROVE TypeOK'
  OBVIOUS
<1> USE DEF TypeOK, ResType, Thread, InitPc, LoopPc, StopPc, TearPc, stop_vars, sig_vars
<1>1. CASE OpenIav
  BY <1>1 DEF OpenIav, Step
<1>2. CASE InitLib
  BY <1>2 DEF InitLib, Step
<1>3. CASE InitStream
  BY <1>3 DEF InitStream, Step
<1>4. CASE Malloc
  BY <1>4 DEF Malloc, Step
<1>5. CASE Allocated
  BY <1>5, StepStreamType DEF Allocated, StepStream
<1>6. CASE StartMdet
  BY <1>6, StepStreamType DEF StartMdet, StepStream
<1>7. CASE InitFails
  BY <1>7 DEF InitFails, End
<1>8. CASE StartThread
  BY <1>8 DEF StartThread
<1>9. CASE StartThreadFails
  BY <1>9 DEF StartThreadFails, Step
<1>10. CASE Poll
  BY <1>10 DEF Poll, Step
<1>11. QED BY <1>1, <1>2, <1>3, <1>4, <1>5, <1>6, <1>7, <1>8, <1>9, <1>10 DEF Main

LEMMA TypeControl == TypeOK /\ Control => TypeOK'
<1> SUFFICES ASSUME TypeOK, Control PROVE TypeOK'
  OBVIOUS
<1> USE DEF TypeOK, ResType, Thread, InitPc, LoopPc, StopPc, TearPc, stop_vars, sig_vars
<1>1. CASE LoopTest
  BY <1>1 DEF LoopTest, Step
<1>2. CASE NewFrame
  BY <1>2 DEF NewFrame, Step
<1>3. CASE LoopStream
  BY <1>3, BlameType, StepStreamType DEF LoopStream, StepStream, Misuse
<1>4. CASE LoopDumpFails
  BY <1>4, BlameType DEF LoopDumpFails, Step, Misuse
<1>5. QED BY <1>1, <1>2, <1>3, <1>4 DEF Control

LEMMA TypeDeinit ==
  ASSUME TypeOK, NEW t \in Thread, Deinit(t) PROVE TypeOK'
<1> USE DEF TypeOK, ResType, Thread, InitPc, LoopPc, StopPc, TearPc, stop_vars, sig_vars
<1>1. CASE Stop(t)
  <2>1. UNCHANGED <<running, at, quit_file, sig_vars, res, heap, misuse,
                    smartrc_thread_id, joining>>
    BY <1>1 DEF Stop, Step
  <2>2. pc' \in [Thread -> InitPc \union LoopPc \union StopPc \union TearPc
                          \union {"none", "poll", "ended"}]
    BY <1>1 DEF Stop, Step
  <2>3. smartrc_exit_flag' \in BOOLEAN
    BY <1>1 DEF Stop
  <2>4. res' \in ResType
    BY <2>1
  <2>5. QED BY <2>1, <2>2, <2>3, <2>4
<1>2. CASE JoinFails(t)
  BY <1>2, BlameType DEF JoinFails, Step, Misuse
<1>3. CASE StopRoi(t)
  BY <1>3, BlameType DEF StopRoi, Step, Misuse
<1>4. CASE Free(t)
  BY <1>4 DEF Free, Step
<1>5. CASE Freed(t)
  BY <1>5, BlameType DEF Freed, Step, Misuse
<1>6. CASE Clear(t)
  BY <1>6 DEF Clear, Step
<1>7. CASE CloseDump(t)
  BY <1>7, BlameType DEF CloseDump, Step, Misuse
<1>8. CASE Reset(t)
  <2>1. at' \in [Thread -> Stream]
    BY <1>8, StepStreamType DEF Reset
  <2>2. misuse' \subseteq Misuse
    BY <1>8, BlameType DEF Reset, Misuse
  <2>3. res' \in ResType
    <3>1. res' = [res EXCEPT !.reset = @ \union {at[t]}]
      BY <1>8 DEF Reset
    <3>2. res.reset \union {at[t]} \in SUBSET Stream
      OBVIOUS
    <3>3. QED BY <3>1, <3>2
  <2>4. UNCHANGED <<running, quit_file, sig_vars, stop_vars, heap>>
    BY <1>8 DEF Reset, StepStream
  <2>5. pc' \in [Thread -> InitPc \union LoopPc \union StopPc \union TearPc
                          \union {"none", "poll", "ended"}]
    BY <1>8 DEF Reset, StepStream
  <2>6. QED BY <2>1, <2>2, <2>3, <2>4, <2>5
<1>9. CASE DeinitLib(t)
  BY <1>9, BlameType DEF DeinitLib, Step, Misuse
<1>10. CASE ExitIav(t)
  BY <1>10, BlameType DEF ExitIav, Step, Misuse
<1>11. CASE End(t, "exit")
  <2>1. running' \in BOOLEAN /\ res' \in ResType
    BY <1>11 DEF End
  <2>2. QED BY <1>11, <2>1 DEF End
<1>12. QED BY <1>1, <1>2, <1>3, <1>4, <1>5, <1>6, <1>7, <1>8, <1>9, <1>10, <1>11
           DEF Deinit

\* Every variable keeps its type; the type of at says that no loop over the
\* streams ever works on an id that is not selected.
THEOREM TypeCorrect == Spec => []TypeOK
<1>1. Init => TypeOK
  <2> SUFFICES ASSUME Init PROVE TypeOK
    OBVIOUS
  <2>1. res \in ResType
    BY DEF Init, ResType
  <2>2. at \in [Thread -> Stream]
    BY FirstFromZero DEF Init
  <2>3. pc \in [Thread -> InitPc \union {"none"}]
    BY DEF Init, InitPc
  <2>4. blocked \in [Thread -> SUBSET Signals] /\ signals_left \in Nat
    BY LifecycleAssumption DEF Init
  <2>5. misuse \subseteq Misuse
    BY DEF Init
  <2>6. QED BY <2>1, <2>2, <2>3, <2>4, <2>5 DEF Init, TypeOK
<1>2. TypeOK /\ [Next]_vars => TypeOK'
  <2> SUFFICES ASSUME TypeOK, [Next]_vars PROVE TypeOK'
    OBVIOUS
  <2>1. CASE Main
    BY <2>1, TypeMain
  <2>2. CASE Control
    BY <2>2, TypeControl
  <2>3. CASE \E t \in Thread : Deinit(t)
    BY <2>3, TypeDeinit
  <2>4. CASE Join \/ Joined
    BY <2>4 DEF Join, Joined, Step, TypeOK, Thread, StopPc, TearPc, sig_vars
  <2>5. CASE RemoveFile
    BY <2>5 DEF RemoveFile, TypeOK, stop_vars, sig_vars
  <2>6. ASSUME NEW t \in Thread, NEW g \in Signals, TakeSignal(t, g)
        PROVE  TypeOK'
    <3>1. signals_left' \in Nat /\ unsafe' \in BOOLEAN
      BY <2>6 DEF TakeSignal, TypeOK
    <3>2. QED BY <2>6, <3>1, FirstFromZero DEF TakeSignal, TypeOK, StopPc, stop_vars
  <2>7. CASE UNCHANGED vars
    BY <2>7 DEF vars, TypeOK, stop_vars, sig_vars
  <2>8. QED BY <2>1, <2>2, <2>3, <2>4, <2>5, <2>6, <2>7
            DEF Next, MainThread, ControlThread, Thread
<1>3. QED BY <1>1, <1>2, PTL DEF Spec

-----------------------------------------------------------------------------
(* Nothing is released under the control thread.                           *)

\* Where the program counters and smartrc_thread_id can be as long as no
\* signal struck outside the poll loop.  TearDownAlone is not inductive: it
\* needs that main only gets past the join when the thread has returned or
\* never was (the last three conjuncts).
Quiet ==
  /\ pc["ctl"] \in {"none", "ended"} \union LoopPc
  /\ pc["main"] \in InitPc => pc["ctl"] = "none" /\ ~ joining
  /\ pc["main"] \in TearPc => pc["ctl"] \in {"none", "ended"}
  /\ joining => pc["main"] \in {"joining"} \union TearPc
  /\ pc["main"] = "joining" => joining
  /\ smartrc_thread_id # "ctl" => pc["ctl"] \in {"none", "ended"}

ControlInv ==
  /\ pc \in [Thread -> InitPc \union LoopPc \union StopPc \union TearPc
                         \union {"none", "poll", "ended"}]
  /\ pc["main"] \notin {"none", "ended"} \union LoopPc
  /\ unsafe \in BOOLEAN
  /\ ~ unsafe => Quiet

LEMMA ControlInvInit == Init => ControlInv
BY DEF Init, ControlInv, Quiet, Thread, InitPc, LoopPc, StopPc, TearPc

\* A step of main outside deinit keeps the invariant.
LEMMA ControlInvMain == ControlInv /\ Main => ControlInv'
<1> SUFFICES ASSUME ControlInv, Main PROVE ControlInv'
  OBVIOUS
<1> USE DEF ControlInv, Quiet, Thread, InitPc, LoopPc, StopPc, TearPc, stop_vars, sig_vars
<1>1. CASE OpenIav
  BY <1>1 DEF OpenIav, Step
<1>2. CASE InitLib
  BY <1>2 DEF InitLib, Step
<1>3. CASE InitStream
  BY <1>3 DEF InitStream, Step
<1>4. CASE Malloc
  BY <1>4 DEF Malloc, Step
<1>5. CASE Allocated
  BY <1>5 DEF Allocated, StepStream
<1>6. CASE StartMdet
  BY <1>6 DEF StartMdet, StepStream
<1>7. CASE InitFails
  BY <1>7 DEF InitFails, End
<1>8. CASE StartThread
  BY <1>8 DEF StartThread
<1>9. CASE StartThreadFails
  BY <1>9 DEF StartThreadFails, Step
<1>10. CASE Poll
  BY <1>10 DEF Poll, Step
<1>11. QED BY <1>1, <1>2, <1>3, <1>4, <1>5, <1>6, <1>7, <1>8, <1>9, <1>10 DEF Main

\* So does a step of the loop of the control thread.
LEMMA ControlInvControl == ControlInv /\ Control => ControlInv'
<1> SUFFICES ASSUME ControlInv, Control PROVE ControlInv'
  OBVIOUS
<1> USE DEF ControlInv, Quiet, Thread, InitPc, LoopPc, StopPc, TearPc, stop_vars, sig_vars
<1>1. CASE LoopTest
  BY <1>1 DEF LoopTest, Step
<1>2. CASE NewFrame
  BY <1>2 DEF NewFrame, Step
<1>3. CASE LoopStream
  BY <1>3 DEF LoopStream, StepStream
<1>4. CASE LoopDumpFails
  BY <1>4 DEF LoopDumpFails, Step
<1>5. QED BY <1>1, <1>2, <1>3, <1>4 DEF Control

\* So does a step of deinit: in main, because it passes the join only alone;
\* in the control thread, because no handler runs there.
LEMMA ControlInvDeinit ==
  ASSUME ControlInv, NEW t \in Thread, Deinit(t) PROVE ControlInv'
<1> USE DEF ControlInv, Quiet, Thread, InitPc, LoopPc, StopPc, TearPc, stop_vars, sig_vars
<1>1. CASE Stop(t)
  BY <1>1 DEF Stop, Step
<1>2. CASE JoinFails(t)
  BY <1>2 DEF JoinFails, Step
<1>3. CASE StopRoi(t)
  BY <1>3 DEF StopRoi, Step
<1>4. CASE Free(t)
  BY <1>4 DEF Free, Step
<1>5. CASE Freed(t)
  BY <1>5 DEF Freed, Step
<1>6. CASE Clear(t)
  BY <1>6 DEF Clear, Step
<1>7. CASE CloseDump(t)
  BY <1>7 DEF CloseDump, Step
<1>8. CASE Reset(t)
  BY <1>8 DEF Reset, StepStream
<1>9. CASE DeinitLib(t)
  BY <1>9 DEF DeinitLib, Step
<1>10. CASE ExitIav(t)
  BY <1>10 DEF ExitIav, Step
<1>11. CASE End(t, "exit")
  BY <1>11 DEF End
<1>12. QED BY <1>1, <1>2, <1>3, <1>4, <1>5, <1>6, <1>7, <1>8, <1>9, <1>10, <1>11
           DEF Deinit

\* So does every step.
LEMMA ControlInvStep == ControlInv /\ [Next]_vars => ControlInv'
<1> SUFFICES ASSUME ControlInv, [Next]_vars PROVE ControlInv'
  OBVIOUS
<1>1. CASE Main
  BY <1>1, ControlInvMain
<1>2. CASE Control
  BY <1>2, ControlInvControl
<1>3. CASE \E t \in Thread : Deinit(t)
  BY <1>3, ControlInvDeinit
<1>4. CASE Join
  BY <1>4 DEF Join, Step, ControlInv, Quiet, Thread, InitPc, LoopPc, StopPc,
              TearPc, sig_vars
<1>5. CASE Joined
  BY <1>5 DEF Joined, Step, ControlInv, Quiet, Thread, InitPc, LoopPc, StopPc,
              TearPc, sig_vars
<1>6. CASE RemoveFile
  BY <1>6 DEF RemoveFile, ControlInv, Quiet, stop_vars, sig_vars
<1>7. ASSUME NEW t \in Thread, NEW g \in Signals, TakeSignal(t, g)
      PROVE  ControlInv'
  BY <1>7 DEF TakeSignal, ControlInv, Quiet, Thread, InitPc, LoopPc, StopPc,
              TearPc, stop_vars
<1>8. CASE UNCHANGED vars
  BY <1>8 DEF vars, ControlInv, Quiet, stop_vars, sig_vars
<1>9. QED BY <1>1, <1>2, <1>3, <1>4, <1>5, <1>6, <1>7, <1>8
          DEF Next, MainThread, ControlThread, Thread

\* Unless a signal strikes outside the poll loop, whoever releases resources
\* in deinit does so with the control thread gone.
THEOREM TearDownIsAlone == Spec => []TearDownAlone
<1>1. ControlInv => TearDownAlone
  BY DEF ControlInv, Quiet, TearDownAlone
<1>2. QED BY <1>1, ControlInvInit, ControlInvStep, PTL DEF Spec

-----------------------------------------------------------------------------
(* Everything is acquired and given back once, in order.                   *)

\* How far main is with stream s, as long as no signal struck outside the
\* poll loop.  While main is at p, the streams before the one it is at have
\* been through the whole loop that p belongs to.
HasRoi(s) ==
  /\ pc["main"] \in {"open_iav", "init_lib", "init_stream"} => s < at["main"]
  /\ pc["main"] \in {"malloc", "in_malloc"} => s <= at["main"]
  /\ pc["main"] = "stop_roi" => s >= at["main"]
  /\ pc["main"] \in {"free", "in_free", "clear", "close_dump", "reset"} =>
       s > at["main"]
  /\ pc["main"] \notin {"deinit_lib", "exit_iav", "exit"}

HasMdet(s) ==
  /\ HasRoi(s)
  /\ pc["main"] \notin InitPc \ {"start_mdet", "start_thread"}
  /\ pc["main"] = "start_mdet" => s < at["main"]

\* in_malloc is left, and in_free is not.
HasBuffer(s) ==
  /\ pc["main"] \in {"open_iav", "init_lib", "init_stream", "malloc", "in_malloc"} =>
       s < at["main"]
  /\ pc["main"] \in {"stop_roi", "free", "in_free"} => s >= at["main"]
  /\ pc["main"] \in {"clear", "close_dump", "reset"} => s > at["main"]
  /\ pc["main"] \notin {"deinit_lib", "exit_iav", "exit"}

HasDump(s) ==
  /\ s \in Dump
  /\ pc["main"] \in {"open_iav", "init_lib", "init_stream", "malloc", "in_malloc"} =>
       s < at["main"]
  /\ pc["main"] \in TearPc \ {"reset"} => s >= at["main"]
  /\ pc["main"] = "reset" => s > at["main"]
  /\ pc["main"] \notin {"deinit_lib", "exit_iav", "exit"}

\* The levels of the stream are put back: Reset was the last to set them.
IsReset(s) ==
  \/ pc["main"] \in {"deinit_lib", "exit_iav", "exit"}
  \/ pc["main"] \in TearPc /\ s < at["main"]

\* Before, between and behind its loops main is at the first stream.
AtFirst ==
  pc["main"] \in {"open_iav", "init_lib", "start_thread", "poll"} \union StopPc =>
    \A s \in Stream : at["main"] <= s

Held(s) ==
  /\ s \in res.roi <=> HasRoi(s)
  /\ s \in res.mdet <=> HasMdet(s)
  /\ res.me_buf[s] = "live" <=> HasBuffer(s)
  /\ res.me_buf[s] = "freed" <=> pc["main"] = "clear" /\ s = at["main"]
  /\ res.dump_fd[s] = "open" <=> HasDump(s)
  /\ IsReset(s) => s \in res.reset

StreamsHeld == \A s \in Stream : Held(s)

DeviceHeld ==
  /\ res.fd_iav = "none" <=> pc["main"] = "open_iav"
  /\ res.fd_iav = "closed" <=> pc["main"] = "exit"
  /\ res.mem_mapped <=> pc["main"] \notin {"open_iav", "exit"}
  /\ res.lib = "new" <=> pc["main"] \in {"open_iav", "init_lib"}
  /\ res.lib = "down" <=> pc["main"] \in {"exit_iav", "exit"}

\* AllReleased and NoMisuse are the ends of this: what is held is known at
\* every step, so each Blame finds what it looks for.
ResInv == ~ unsafe => AtFirst /\ StreamsHeld /\ DeviceHeld /\ NoMisuse

LEMMA StreamsAreNumbers == Stream \subseteq Int
BY StreamAssumption

\* Before the first stream there is none, whatever the scan returns.
LEMMA FirstIsLeast ==
  /\ FirstFrom(0) \in Stream
  /\ \A s \in Stream : FirstFrom(0) <= s /\ ~ (s < FirstFrom(0))
<1> DEFINE f == FirstFrom(0)
<1>1. f \in Stream
  BY FirstFromZero
<1>2. \E s \in Stream : s >= 0
  <2>1. PICK s \in Stream : s \in 0 .. 4
    BY StreamAssumption
  <2>2. QED BY <2>1
<1>3. \A s \in Stream : s >= 0 => f <= s
  BY <1>2, FirstFromLeast
<1> HIDE DEF f
<1>4. ASSUME NEW s \in Stream PROVE f <= s /\ ~ (s < f)
  <2>1. s \in Nat /\ f \in Nat
    BY <1>1, StreamAssumption
  <2>2. QED BY <1>3, <2>1
<1>5. QED BY <1>1, <1>4 DEF f

\* Main goes on to the next stream, or was at the last one and begins anew.
LEMMA MainStep ==
  ASSUME TypeOK, NEW p, NEW q, NEW r, StepStream("main", p, q, r)
  PROVE  /\ at'["main"] \in Stream
         /\ \/ /\ pc' = [pc EXCEPT !["main"] = q]
               /\ \A s \in Stream : s < at'["main"] <=> s <= at["main"]
            \/ /\ pc' = [pc EXCEPT !["main"] = r]
               /\ \A s \in Stream : s <= at["main"]
               /\ \A s \in Stream : at'["main"] <= s
<1> DEFINE a == at["main"]
           n == FirstFrom(a + 1)
           f == FirstFrom(0)
<1>1. a \in Stream /\ at \in [Thread -> Stream] /\ "main" \in Thread
  BY DEF TypeOK, Thread
<1>2. /\ n # NoStream => n \in Stream /\ \A s \in Stream : s < n <=> s <= a
      /\ n = NoStream => \A s \in Stream : s <= a
  BY <1>1, NextStream
<1>3. f \in Stream /\ \A s \in Stream : f <= s
  BY FirstIsLeast
<1>4. /\ pc' = [pc EXCEPT !["main"] = IF n = NoStream THEN r ELSE q]
      /\ at' = [at EXCEPT !["main"] = IF n = NoStream THEN f ELSE n]
  BY DEF StepStream
<1> HIDE DEF n, f
<1>5. CASE n = NoStream
  BY <1>1, <1>2, <1>3, <1>4, <1>5
<1>6. CASE n # NoStream
  BY <1>1, <1>2, <1>4, <1>6
<1>7. QED BY <1>5, <1>6

LEMMA ResInvInit == Init => ResInv
<1> SUFFICES ASSUME Init PROVE ResInv
  OBVIOUS
<1>1. at["main"] = FirstFrom(0) /\ pc["main"] = "open_iav"
  BY DEF Init, Thread
<1>2. \A s \in Stream : at["main"] <= s /\ ~ (s < at["main"])
  BY <1>1, FirstIsLeast, Zenon
<1>3. AtFirst
  BY <1>2 DEF AtFirst
<1>4. StreamsHeld
  BY <1>2 DEF Init, Thread, StreamsHeld, Held, HasRoi, HasMdet, HasBuffer, HasDump, IsReset,
                    TearPc, InitPc
<1>5. DeviceHeld /\ NoMisuse
  BY DEF Init, Thread, DeviceHeld, NoMisuse
<1>6. QED BY <1>3, <1>4, <1>5 DEF ResInv

\* A step of main outside deinit.
LEMMA ResInvMain ==
  ASSUME TypeOK, ControlInv, ResInv, Main PROVE ResInv'
<1> SUFFICES ASSUME ~ unsafe' PROVE AtFirst' /\ StreamsHeld' /\ DeviceHeld' /\ NoMisuse'
  BY DEF ResInv
<1> USE StreamsAreNumbers
    DEF Thread, InitPc, TearPc, StopPc, stop_vars, sig_vars
<1>1. /\ ~ unsafe /\ UNCHANGED unsafe /\ misuse' = misuse
      /\ pc \in [Thread -> InitPc \union LoopPc \union StopPc \union TearPc
                          \union {"none", "poll", "ended"}]
      /\ at["main"] \in Stream
      /\ res \in ResType
  <2>1. UNCHANGED <<unsafe, misuse>>
    BY DEF Main, OpenIav, InitLib, InitStream, Malloc, Allocated, StartMdet,
           InitFails, StartThread, StartThreadFails, Poll, Step, StepStream, End
  <2>2. QED BY <2>1 DEF TypeOK
<1>2. AtFirst /\ StreamsHeld /\ DeviceHeld /\ NoMisuse /\ NoMisuse'
  BY <1>1 DEF ResInv, NoMisuse
<1>3. CASE OpenIav
  <2>1. /\ pc["main"] = "open_iav" /\ pc' = [pc EXCEPT !["main"] = "init_lib"]
        /\ at' = at /\ res' = [res EXCEPT !.fd_iav = "open", !.mem_mapped = TRUE]
    BY <1>3 DEF OpenIav, Step
  <2>2. AtFirst'
    BY <1>1, <1>2, <2>1 DEF AtFirst
  <2>3. StreamsHeld'
    BY <1>1, <1>2, <2>1 DEF StreamsHeld, Held, HasRoi, HasMdet, HasBuffer, HasDump, IsReset,
                            ResType
  <2>4. DeviceHeld'
    BY <1>1, <1>2, <2>1 DEF DeviceHeld, ResType
  <2>5. QED BY <1>2, <2>2, <2>3, <2>4
<1>4. CASE InitLib
  <2>1. /\ pc["main"] = "init_lib" /\ pc' = [pc EXCEPT !["main"] = "init_stream"]
        /\ at' = at /\ res' = [res EXCEPT !.lib = "up"]
    BY <1>4 DEF InitLib, Step
  <2>2. AtFirst'
    BY <1>1, <1>2, <2>1 DEF AtFirst
  <2>3. StreamsHeld'
    BY <1>1, <1>2, <2>1 DEF StreamsHeld, Held, HasRoi, HasMdet, HasBuffer, HasDump, IsReset,
                            ResType
  <2>4. DeviceHeld'
    BY <1>1, <1>2, <2>1 DEF DeviceHeld, ResType
  <2>5. QED BY <1>2, <2>2, <2>3, <2>4
<1>5. CASE InitStream
  <2>1. /\ pc["main"] = "init_stream" /\ pc' = [pc EXCEPT !["main"] = "malloc"]
        /\ at' = at /\ res' = [res EXCEPT !.roi = @ \union {at["main"]}]
    BY <1>5 DEF InitStream, Step
  <2>2. AtFirst'
    BY <1>1, <1>2, <2>1 DEF AtFirst
  <2>3. StreamsHeld'
    BY <1>1, <1>2, <2>1 DEF StreamsHeld, Held, HasRoi, HasMdet, HasBuffer, HasDump, IsReset,
                            ResType
  <2>4. DeviceHeld'
    BY <1>1, <1>2, <2>1 DEF DeviceHeld, ResType
  <2>5. QED BY <1>2, <2>2, <2>3, <2>4
<1>6. CASE Malloc
  <2>1. /\ pc["main"] = "malloc" /\ pc' = [pc EXCEPT !["main"] = "in_malloc"]
        /\ at' = at /\ res' = res
    BY <1>6 DEF Malloc, Step
  <2>2. AtFirst'
    BY <1>1, <1>2, <2>1 DEF AtFirst
  <2>3. StreamsHeld'
    BY <1>1, <1>2, <2>1 DEF StreamsHeld, Held, HasRoi, HasMdet, HasBuffer, HasDump, IsReset,
                            ResType
  <2>4. DeviceHeld'
    BY <1>1, <1>2, <2>1 DEF DeviceHeld, ResType
  <2>5. QED BY <1>2, <2>2, <2>3, <2>4
<1>7. CASE Allocated
  <2>1. /\ pc["main"] = "in_malloc"
        /\ res' = [res EXCEPT
             !.me_buf[at["main"]] = "live",
             !.dump_fd[at["main"]] = IF at["main"] \in Dump THEN "open" ELSE @]
    BY <1>7 DEF Allocated, StepStream
  <2>2. \/ /\ pc' = [pc EXCEPT !["main"] = "init_stream"]
           /\ at'["main"] \in Stream
           /\ \A s \in Stream : s < at'["main"] <=> s <= at["main"]
        \/ /\ pc' = [pc EXCEPT !["main"] = "start_mdet"]
           /\ at'["main"] \in Stream
           /\ \A s \in Stream : s <= at["main"]
           /\ \A s \in Stream : at'["main"] <= s
    BY <1>7, MainStep DEF Allocated
  <2>3. AtFirst'
    BY <1>1, <1>2, <2>1, <2>2 DEF AtFirst
  <2>4. StreamsHeld'
    BY <1>1, <1>2, <2>1, <2>2 DEF StreamsHeld, Held, HasRoi, HasMdet, HasBuffer, HasDump,
                                  IsReset, ResType
  <2>5. DeviceHeld'
    BY <1>1, <1>2, <2>1, <2>2 DEF DeviceHeld, ResType
  <2>6. QED BY <1>2, <2>3, <2>4, <2>5
<1>8. CASE StartMdet
  <2>1. /\ pc["main"] = "start_mdet"
        /\ res' = [res EXCEPT !.mdet = @ \union {at["main"]}]
    BY <1>8 DEF StartMdet, StepStream
  <2>2. \/ /\ pc' = [pc EXCEPT !["main"] = "start_mdet"]
           /\ at'["main"] \in Stream
           /\ \A s \in Stream : s < at'["main"] <=> s <= at["main"]
        \/ /\ pc' = [pc EXCEPT !["main"] = "start_thread"]
           /\ at'["main"] \in Stream
           /\ \A s \in Stream : s <= at["main"]
           /\ \A s \in Stream : at'["main"] <= s
    BY <1>8, MainStep DEF StartMdet
  <2>3. AtFirst'
    BY <1>1, <1>2, <2>1, <2>2 DEF AtFirst
  <2>4. StreamsHeld'
    BY <1>1, <1>2, <2>1, <2>2 DEF StreamsHeld, Held, HasRoi, HasMdet, HasBuffer, HasDump,
                                  IsReset, ResType
  <2>5. DeviceHeld'
    BY <1>1, <1>2, <2>1, <2>2 DEF DeviceHeld, ResType
  <2>6. QED BY <1>2, <2>3, <2>4, <2>5
<1>9. CASE InitFails
  <2>1. UNCHANGED <<pc, at, res>>
    BY <1>9 DEF InitFails, End
  <2>2. AtFirst' /\ DeviceHeld'
    BY <1>2, <2>1 DEF AtFirst, DeviceHeld
  <2>3. ASSUME NEW s \in Stream PROVE Held(s)'
    BY <1>2, <2>1 DEF StreamsHeld, Held, HasRoi, HasMdet, HasBuffer, HasDump, IsReset
  <2>4. QED BY <1>2, <2>2, <2>3 DEF StreamsHeld
<1>10. CASE StartThread \/ StartThreadFails
  <2>1. /\ pc["main"] = "start_thread" /\ UNCHANGED <<at, res>>
        /\ pc' \in {[pc EXCEPT !["main"] = "poll", !["ctl"] = "test"],
                    [pc EXCEPT !["main"] = "poll"]}
    BY <1>10 DEF StartThread, StartThreadFails, Step
  <2>2. AtFirst'
    BY <1>1, <1>2, <2>1 DEF AtFirst
  <2>3. StreamsHeld'
    BY <1>1, <1>2, <2>1 DEF StreamsHeld, Held, HasRoi, HasMdet, HasBuffer, HasDump, IsReset
  <2>4. DeviceHeld'
    BY <1>1, <1>2, <2>1 DEF DeviceHeld
  <2>5. QED BY <1>2, <2>2, <2>3, <2>4
<1>11. CASE Poll
  <2>1. /\ pc["main"] = "poll" /\ pc' = [pc EXCEPT !["main"] = "stop"]
        /\ at' = at /\ res' = res
    BY <1>11 DEF Poll, Step
  <2>2. AtFirst'
    BY <1>1, <1>2, <2>1 DEF AtFirst
  <2>3. StreamsHeld'
    BY <1>1, <1>2, <2>1 DEF StreamsHeld, Held, HasRoi, HasMdet, HasBuffer, HasDump, IsReset,
                            ResType
  <2>4. DeviceHeld'
    BY <1>1, <1>2, <2>1 DEF DeviceHeld, ResType
  <2>5. QED BY <1>2, <2>2, <2>3, <2>4
<1>12. QED BY <1>3, <1>4, <1>5, <1>6, <1>7, <1>8, <1>9, <1>10, <1>11 DEF Main

\* A step of the loop of the control thread: main holds everything, is at the
\* first stream and not yet giving back.
LEMMA ResInvControl ==
  ASSUME TypeOK, ControlInv, ResInv, Control PROVE ResInv'
<1> SUFFICES ASSUME ~ unsafe' PROVE AtFirst' /\ StreamsHeld' /\ DeviceHeld' /\ NoMisuse'
  BY DEF ResInv
<1>1. /\ ~ unsafe /\ UNCHANGED <<unsafe, smartrc_thread_id, joining>>
      /\ pc["ctl"] \in LoopPc
      /\ pc'["main"] = pc["main"] /\ at'["main"] = at["main"]
      /\ at["ctl"] \in Stream /\ at["main"] \in Stream
  BY DEF Control, LoopTest, NewFrame, LoopStream, LoopDumpFails, Step, StepStream,
         LoopPc, TypeOK, Thread, stop_vars, sig_vars
<1>2. AtFirst /\ StreamsHeld /\ DeviceHeld /\ NoMisuse
  BY <1>1 DEF ResInv
<1>3. pc["main"] \in {"poll"} \union StopPc
  BY <1>1 DEF ControlInv, Quiet, Thread, InitPc, LoopPc, StopPc, TearPc
<1>4. \A s \in Stream : InUse(s)
  BY <1>2, <1>3 DEF StreamsHeld, Held, DeviceHeld, HasRoi, HasMdet, HasBuffer, InUse, TypeOK,
                    ResType, InitPc, StopPc
<1>5. /\ misuse' = misuse
      /\ res' = res \/ \E s \in Stream : res' = [res EXCEPT !.reset = @ \ {s}]
  BY <1>1, <1>4 DEF Control, LoopTest, NewFrame, LoopStream, LoopDumpFails, Blame
<1>6. /\ res'.roi = res.roi /\ res'.mdet = res.mdet /\ res'.me_buf = res.me_buf
      /\ res'.dump_fd = res.dump_fd /\ res'.fd_iav = res.fd_iav
      /\ res'.mem_mapped = res.mem_mapped /\ res'.lib = res.lib
  BY <1>5 DEF TypeOK, ResType
<1>7. AtFirst' /\ NoMisuse'
  BY <1>1, <1>2, <1>5 DEF AtFirst, NoMisuse
<1>8. StreamsHeld'
  <2>1. \A s : ~ IsReset(s) /\ ~ IsReset(s)'
    BY <1>1, <1>3 DEF IsReset, TearPc, StopPc
  <2>2. QED BY <1>1, <1>2, <1>6, <2>1
               DEF StreamsHeld, Held, HasRoi, HasMdet, HasBuffer, HasDump
<1>9. DeviceHeld'
  BY <1>1, <1>2, <1>6 DEF DeviceHeld
<1>10. QED BY <1>7, <1>8, <1>9

\* A step of deinit by main.
LEMMA ResInvDeinit ==
  ASSUME TypeOK, ResInv, Deinit("main") \/ Join \/ Joined PROVE ResInv'
<1> SUFFICES ASSUME ~ unsafe' PROVE AtFirst' /\ StreamsHeld' /\ DeviceHeld' /\ NoMisuse'
  BY DEF ResInv
<1> USE StreamsAreNumbers
    DEF Thread, InitPc, TearPc, StopPc, stop_vars, sig_vars
<1>1. /\ ~ unsafe /\ UNCHANGED unsafe
      /\ pc \in [Thread -> InitPc \union LoopPc \union StopPc \union TearPc
                          \union {"none", "poll", "ended"}]
      /\ at["main"] \in Stream
      /\ \A s \in Stream : s \in Int
      /\ res \in ResType
  <2>1. UNCHANGED unsafe
    BY DEF Deinit, Stop, JoinFails, Join, Joined, StopRoi, Free, Freed, Clear,
           CloseDump, Reset, DeinitLib, ExitIav, Step, StepStream, End
  <2>2. QED BY <2>1 DEF TypeOK
<1>2. AtFirst /\ (\A s \in Stream : Held(s)) /\ DeviceHeld /\ NoMisuse
  BY <1>1 DEF ResInv, StreamsHeld
<1>3. at["main"] \in Int /\ Held(at["main"])
  BY <1>1, <1>2
<1>4. CASE Stop("main") \/ Join \/ Joined \/ JoinFails("main")
  <2>1. /\ pc["main"] \in StopPc /\ UNCHANGED <<at, res>>
        /\ \E q \in StopPc \union {"stop_roi"} : pc' = [pc EXCEPT !["main"] = q]
        /\ misuse' \subseteq misuse \union {"join of no thread"}
    BY <1>4 DEF Stop, Join, Joined, JoinFails, Step, Blame
  <2>2. AtFirst'
    BY <1>1, <1>2, <2>1 DEF AtFirst
  <2>3. ASSUME NEW s \in Stream PROVE Held(s)'
    <3>1. s \in Int /\ at["main"] \in Int /\ Held(s) /\ at["main"] <= s
      BY <1>1, <1>2, <2>1 DEF AtFirst
    <3>2. ~ (s < at["main"])
      BY <3>1
    <3>3. QED BY <1>1, <2>1, <3>1, <3>2
                 DEF Held, HasRoi, HasMdet, HasBuffer, HasDump, IsReset
  <2>4. DeviceHeld'
    BY <1>1, <1>2, <2>1 DEF DeviceHeld
  <2>5. NoMisuse'
    BY <1>1, <1>2, <2>1 DEF NoMisuse
  <2>6. QED BY <2>2, <2>3, <2>4, <2>5 DEF StreamsHeld
<1>5. CASE StopRoi("main")
  <2>1. /\ pc["main"] = "stop_roi"
        /\ pc' = [pc EXCEPT !["main"] = IF res.me_buf[at["main"]] = "null"
                                     THEN "close_dump" ELSE "free"]
        /\ at' = at
        /\ res' = [res EXCEPT !.roi = @ \ {at["main"]}, !.mdet = @ \ {at["main"]}]
        /\ Blame("stop of a stopped session",
                 at["main"] \notin res.roi \/ at["main"] \notin res.mdet)
    BY <1>5 DEF StopRoi, Step
  <2>2. pc["main"] = "stop_roi"
    BY <2>1
  <2>3. at["main"] \in res.roi /\ at["main"] \in res.mdet /\ res.me_buf[at["main"]] = "live"
    BY <1>3, <2>2 DEF Held, HasRoi, HasMdet, HasBuffer, HasDump
  <2>4. /\ pc'["main"] = "free" /\ at'["main"] = at["main"]
        /\ pc["main"] = "stop_roi" /\ misuse' = misuse
    BY <1>1, <2>1, <2>3 DEF Blame
  <2>5. AtFirst' /\ NoMisuse'
    BY <1>1, <1>2, <2>1, <2>4 DEF AtFirst, NoMisuse
  <2>6. ASSUME NEW s \in Stream PROVE Held(s)'
    <3>1. s \in Int /\ at["main"] \in Int /\ Held(s)
      BY <1>1, <1>2, <1>3
    <3>2. /\ (s \in res'.roi <=> s \in res.roi /\ s # at["main"])
          /\ (s \in res'.mdet <=> s \in res.mdet /\ s # at["main"])
          /\ res'.me_buf[s] = res.me_buf[s]
          /\ res'.dump_fd[s] = res.dump_fd[s]
          /\ (s \in res'.reset <=> s \in res.reset)
      BY <1>1, <2>1 DEF ResType
    <3>3. QED BY <2>3, <2>4, <3>1, <3>2
                 DEF Held, HasRoi, HasMdet, HasBuffer, HasDump, IsReset
  <2>7. DeviceHeld'
    BY <1>1, <1>2, <2>1, <2>4 DEF DeviceHeld, ResType
  <2>8. QED BY <2>5, <2>6, <2>7 DEF StreamsHeld
<1>6. CASE Free("main")
  <2>1. /\ pc["main"] = "free"
        /\ pc' = [pc EXCEPT !["main"] = "in_free"]
        /\ at' = at
        /\ res' = res
        /\ misuse' = misuse
    BY <1>6 DEF Free, Step
  <2>2. pc["main"] = "free"
    BY <2>1
  <2>3. res.me_buf[at["main"]] = "live"
    BY <1>3, <2>2 DEF Held, HasRoi, HasMdet, HasBuffer, HasDump
  <2>4. /\ pc'["main"] = "in_free" /\ at'["main"] = at["main"]
        /\ pc["main"] = "free" /\ misuse' = misuse
    BY <1>1, <2>1, <2>3 DEF Blame
  <2>5. AtFirst' /\ NoMisuse'
    BY <1>1, <1>2, <2>1, <2>4 DEF AtFirst, NoMisuse
  <2>6. ASSUME NEW s \in Stream PROVE Held(s)'
    <3>1. s \in Int /\ at["main"] \in Int /\ Held(s)
      BY <1>1, <1>2, <1>3
    <3>2. /\ (s \in res'.roi <=> s \in res.roi)
          /\ (s \in res'.mdet <=> s \in res.mdet)
          /\ res'.me_buf[s] = res.me_buf[s]
          /\ res'.dump_fd[s] = res.dump_fd[s]
          /\ (s \in res'.reset <=> s \in res.reset)
      BY <1>1, <2>1 DEF ResType
    <3>3. QED BY <2>3, <2>4, <3>1, <3>2
                 DEF Held, HasRoi, HasMdet, HasBuffer, HasDump, IsReset
  <2>7. DeviceHeld'
    BY <1>1, <1>2, <2>1, <2>4 DEF DeviceHeld, ResType
  <2>8. QED BY <2>5, <2>6, <2>7 DEF StreamsHeld
<1>7. CASE Freed("main")
  <2>1. /\ pc["main"] = "in_free"
        /\ pc' = [pc EXCEPT !["main"] = "clear"]
        /\ at' = at
        /\ res' = [res EXCEPT !.me_buf[at["main"]] = "freed"]
        /\ Blame("double free", res.me_buf[at["main"]] # "live")
    BY <1>7 DEF Freed, Step
  <2>2. pc["main"] = "in_free"
    BY <2>1
  <2>3. res.me_buf[at["main"]] = "live"
    BY <1>3, <2>2 DEF Held, HasRoi, HasMdet, HasBuffer, HasDump
  <2>4. /\ pc'["main"] = "clear" /\ at'["main"] = at["main"]
        /\ pc["main"] = "in_free" /\ misuse' = misuse
    BY <1>1, <2>1, <2>3 DEF Blame
  <2>5. AtFirst' /\ NoMisuse'
    BY <1>1, <1>2, <2>1, <2>4 DEF AtFirst, NoMisuse
  <2>6. ASSUME NEW s \in Stream PROVE Held(s)'
    <3>1. s \in Int /\ at["main"] \in Int /\ Held(s)
      BY <1>1, <1>2, <1>3
    <3>2. /\ (s \in res'.roi <=> s \in res.roi)
          /\ (s \in res'.mdet <=> s \in res.mdet)
          /\ res'.me_buf[s] = IF s = at["main"] THEN "freed" ELSE res.me_buf[s]
          /\ res'.dump_fd[s] = res.dump_fd[s]
          /\ (s \in res'.reset <=> s \in res.reset)
      BY <1>1, <2>1 DEF ResType
    <3>3. QED BY <2>3, <2>4, <3>1, <3>2
                 DEF Held, HasRoi, HasMdet, HasBuffer, HasDump, IsReset
  <2>7. DeviceHeld'
    BY <1>1, <1>2, <2>1, <2>4 DEF DeviceHeld, ResType
  <2>8. QED BY <2>5, <2>6, <2>7 DEF StreamsHeld
<1>8. CASE Clear("main")
  <2>1. /\ pc["main"] = "clear"
        /\ pc' = [pc EXCEPT !["main"] = "close_dump"]
        /\ at' = at
        /\ res' = [res EXCEPT !.me_buf[at["main"]] = "null"]
        /\ misuse' = misuse
    BY <1>8 DEF Clear, Step
  <2>2. pc["main"] = "clear"
    BY <2>1
  <2>3. res.me_buf[at["main"]] = "freed"
    BY <1>3, <2>2 DEF Held, HasRoi, HasMdet, HasBuffer, HasDump
  <2>4. /\ pc'["main"] = "close_dump" /\ at'["main"] = at["main"]
        /\ pc["main"] = "clear" /\ misuse' = misuse
    BY <1>1, <2>1, <2>3 DEF Blame
  <2>5. AtFirst' /\ NoMisuse'
    BY <1>1, <1>2, <2>1, <2>4 DEF AtFirst, NoMisuse
  <2>6. ASSUME NEW s \in Stream PROVE Held(s)'
    <3>1. s \in Int /\ at["main"] \in Int /\ Held(s)
      BY <1>1, <1>2, <1>3
    <3>2. /\ (s \in res'.roi <=> s \in res.roi)
          /\ (s \in res'.mdet <=> s \in res.mdet)
          /\ res'.me_buf[s] = IF s = at["main"] THEN "null" ELSE res.me_buf[s]
          /\ res'.dump_fd[s] = res.dump_fd[s]
          /\ (s \in res'.reset <=> s \in res.reset)
      BY <1>1, <2>1 DEF ResType
    <3>3. QED BY <2>3, <2>4, <3>1, <3>2
                 DEF Held, HasRoi, HasMdet, HasBuffer, HasDump, IsReset
  <2>7. DeviceHeld'
    BY <1>1, <1>2, <2>1, <2>4 DEF DeviceHeld, ResType
  <2>8. QED BY <2>5, <2>6, <2>7 DEF StreamsHeld
<1>9. CASE CloseDump("main")
  <2>1. /\ pc["main"] = "close_dump"
        /\ pc' = [pc EXCEPT !["main"] = "reset"]
        /\ at' = at
        /\ res' = [res EXCEPT
             !.dump_fd[at["main"]] = IF at["main"] \in Dump THEN "closed" ELSE @]
        /\ Blame("close of a closed file",
                 at["main"] \in Dump /\ res.dump_fd[at["main"]] # "open")
    BY <1>9 DEF CloseDump, Step
  <2>2. pc["main"] = "close_dump"
    BY <2>1
  <2>3. at["main"] \in Dump => res.dump_fd[at["main"]] = "open"
    BY <1>3, <2>2 DEF Held, HasRoi, HasMdet, HasBuffer, HasDump
  <2>4. /\ pc'["main"] = "reset" /\ at'["main"] = at["main"]
        /\ pc["main"] = "close_dump" /\ misuse' = misuse
    BY <1>1, <2>1, <2>3 DEF Blame
  <2>5. AtFirst' /\ NoMisuse'
    BY <1>1, <1>2, <2>1, <2>4 DEF AtFirst, NoMisuse
  <2>6. ASSUME NEW s \in Stream PROVE Held(s)'
    <3>1. s \in Int /\ at["main"] \in Int /\ Held(s)
      BY <1>1, <1>2, <1>3
    <3>2. /\ (s \in res'.roi <=> s \in res.roi)
          /\ (s \in res'.mdet <=> s \in res.mdet)
          /\ res'.me_buf[s] = res.me_buf[s]
          /\ res'.dump_fd[s] = IF s = at["main"] /\ s \in Dump THEN "closed"
                                 ELSE res.dump_fd[s]
          /\ (s \in res'.reset <=> s \in res.reset)
      BY <1>1, <2>1 DEF ResType
    <3>3. QED BY <2>3, <2>4, <3>1, <3>2
                 DEF Held, HasRoi, HasMdet, HasBuffer, HasDump, IsReset
  <2>7. DeviceHeld'
    BY <1>1, <1>2, <2>1, <2>4 DEF DeviceHeld, ResType
  <2>8. QED BY <2>5, <2>6, <2>7 DEF StreamsHeld
<1>10. CASE Reset("main")
  <2>1. /\ pc["main"] = "reset"
        /\ res' = [res EXCEPT !.reset = @ \union {at["main"]}]
        /\ Blame("call of a closed library", res.lib # "up")
    BY <1>10 DEF Reset, StepStream
  <2>2. \/ /\ pc' = [pc EXCEPT !["main"] = "stop_roi"]
           /\ at'["main"] \in Stream
           /\ \A s \in Stream : s < at'["main"] <=> s <= at["main"]
        \/ /\ pc' = [pc EXCEPT !["main"] = "deinit_lib"]
           /\ at'["main"] \in Stream
           /\ \A s \in Stream : s <= at["main"]
           /\ \A s \in Stream : at'["main"] <= s
    BY <1>10, MainStep DEF Reset
  <2>3. AtFirst'
    BY <1>1, <1>2, <2>1, <2>2 DEF AtFirst
  <2>4. ASSUME NEW s \in Stream PROVE Held(s)'
    <3>1. s \in Int /\ at["main"] \in Int /\ at'["main"] \in Int /\ Held(s)
      BY <1>1, <1>2, <1>3, <2>2
    <3>2. \/ pc'["main"] = "stop_roi" /\ (s < at'["main"] <=> s <= at["main"])
          \/ pc'["main"] = "deinit_lib" /\ s <= at["main"]
      BY <1>1, <2>2
    <3>3. /\ res'.roi = res.roi /\ res'.mdet = res.mdet
          /\ res'.me_buf = res.me_buf /\ res'.dump_fd = res.dump_fd
          /\ (s \in res'.reset <=> s \in res.reset \/ s = at["main"])
      BY <1>1, <2>1 DEF ResType
    <3>4. pc["main"] = "reset"
      BY <2>1
    <3>5. QED BY <3>1, <3>2, <3>3, <3>4
                 DEF Held, HasRoi, HasMdet, HasBuffer, HasDump, IsReset
  <2>5. DeviceHeld'
    BY <1>1, <1>2, <2>1, <2>2 DEF DeviceHeld, ResType
  <2>6. NoMisuse'
    <3>1. res.lib = "up"
      BY <1>1, <1>2, <2>1 DEF DeviceHeld, ResType
    <3>2. QED BY <1>1, <1>2, <2>1, <3>1 DEF NoMisuse, Blame
  <2>7. QED BY <2>3, <2>4, <2>5, <2>6 DEF StreamsHeld
<1>11. CASE DeinitLib("main")
  <2>1. /\ pc["main"] = "deinit_lib"
        /\ pc' = [pc EXCEPT !["main"] = "exit_iav"]
        /\ at' = at
        /\ res' = [res EXCEPT !.lib = "down"]
        /\ Blame("call of a closed library", res.lib # "up")
    BY <1>11 DEF DeinitLib, Step
  <2>2. res.lib = "up"
    BY <1>1, <1>2, <2>1 DEF DeviceHeld, ResType
  <2>3. /\ pc'["main"] = "exit_iav" /\ at'["main"] = at["main"]
        /\ pc["main"] = "deinit_lib" /\ misuse' = misuse
    BY <1>1, <2>1, <2>2 DEF Blame
  <2>4. AtFirst' /\ NoMisuse'
    BY <1>1, <1>2, <2>1, <2>3 DEF AtFirst, NoMisuse
  <2>5. ASSUME NEW s \in Stream PROVE Held(s)'
    <3>1. s \in Int /\ at["main"] \in Int /\ Held(s)
      BY <1>1, <1>2, <1>3
    <3>2. /\ (s \in res'.roi <=> s \in res.roi)
          /\ (s \in res'.mdet <=> s \in res.mdet)
          /\ res'.me_buf[s] = res.me_buf[s]
          /\ res'.dump_fd[s] = res.dump_fd[s]
          /\ (s \in res'.reset <=> s \in res.reset)
      BY <1>1, <2>1 DEF ResType
    <3>3. QED BY <2>2, <2>3, <3>1, <3>2
                 DEF Held, HasRoi, HasMdet, HasBuffer, HasDump, IsReset
  <2>6. DeviceHeld'
    BY <1>1, <1>2, <2>1, <2>3 DEF DeviceHeld, ResType
  <2>7. QED BY <2>4, <2>5, <2>6 DEF StreamsHeld
<1>12. CASE ExitIav("main")
  <2>1. /\ pc["main"] = "exit_iav"
        /\ pc' = [pc EXCEPT !["main"] = "exit"]
        /\ at' = at
        /\ res' = [res EXCEPT
             !.fd_iav = IF @ = "none" THEN @ ELSE "closed", !.mem_mapped = FALSE]
        /\ Blame("close of a closed file", res.fd_iav = "closed")
    BY <1>12 DEF ExitIav, Step
  <2>2. res.fd_iav = "open"
    BY <1>1, <1>2, <2>1 DEF DeviceHeld, ResType
  <2>3. /\ pc'["main"] = "exit" /\ at'["main"] = at["main"]
        /\ pc["main"] = "exit_iav" /\ misuse' = misuse
    BY <1>1, <2>1, <2>2 DEF Blame
  <2>4. AtFirst' /\ NoMisuse'
    BY <1>1, <1>2, <2>1, <2>3 DEF AtFirst, NoMisuse
  <2>5. ASSUME NEW s \in Stream PROVE Held(s)'
    <3>1. s \in Int /\ at["main"] \in Int /\ Held(s)
      BY <1>1, <1>2, <1>3
    <3>2. /\ (s \in res'.roi <=> s \in res.roi)
          /\ (s \in res'.mdet <=> s \in res.mdet)
          /\ res'.me_buf[s] = res.me_buf[s]
          /\ res'.dump_fd[s] = res.dump_fd[s]
          /\ (s \in res'.reset <=> s \in res.reset)
      BY <1>1, <2>1 DEF ResType
    <3>3. QED BY <2>2, <2>3, <3>1, <3>2
                 DEF Held, HasRoi, HasMdet, HasBuffer, HasDump, IsReset
  <2>6. DeviceHeld'
    BY <1>1, <1>2, <2>1, <2>3 DEF DeviceHeld, ResType
  <2>7. QED BY <2>4, <2>5, <2>6 DEF StreamsHeld
<1>13. CASE End("main", "exit")
  <2>1. UNCHANGED <<pc, at, res, misuse>>
    BY <1>13 DEF End
  <2>2. AtFirst' /\ DeviceHeld' /\ NoMisuse'
    BY <1>1, <1>2, <2>1 DEF AtFirst, DeviceHeld, NoMisuse
  <2>3. ASSUME NEW s \in Stream PROVE Held(s)'
    BY <1>2, <2>1 DEF Held, HasRoi, HasMdet, HasBuffer, HasDump, IsReset
  <2>4. QED BY <2>2, <2>3 DEF StreamsHeld
<1>14. QED BY <1>4, <1>5, <1>6, <1>7, <1>8, <1>9, <1>10, <1>11, <1>12, <1>13 DEF Deinit

\* Every step keeps what is known of the resources.
LEMMA ResInvStep == TypeOK /\ ControlInv /\ ResInv /\ [Next]_vars => ResInv'
<1> SUFFICES ASSUME TypeOK, ControlInv, ResInv, [Next]_vars PROVE ResInv'
  OBVIOUS
<1>1. CASE Main
  BY <1>1, ResInvMain
<1>2. CASE Control
  BY <1>2, ResInvControl
<1>3. CASE Deinit("main") \/ Join \/ Joined
  BY <1>3, ResInvDeinit
<1>4. CASE Deinit("ctl")
  <2>1. pc["ctl"] \in StopPc \union TearPc /\ UNCHANGED unsafe
    BY <1>4 DEF Deinit, Stop, JoinFails, StopRoi, Free, Freed, Clear, CloseDump, Reset,
                DeinitLib, ExitIav, Step, StepStream, End, StopPc, TearPc, sig_vars
  <2>2. unsafe
    BY <2>1 DEF ControlInv, Quiet, StopPc, TearPc, LoopPc
  <2>3. QED BY <2>1, <2>2 DEF ResInv
<1>5. ASSUME NEW t \in Thread, NEW g \in Signals, TakeSignal(t, g) PROVE ResInv'
  <2> SUFFICES ASSUME ~ unsafe' PROVE AtFirst' /\ StreamsHeld' /\ DeviceHeld' /\ NoMisuse'
    BY DEF ResInv
  <2>1. /\ ~ unsafe /\ pc["main"] = "poll"
        /\ pc' = [pc EXCEPT !["main"] = "stop"] /\ UNCHANGED <<res, misuse>>
        /\ at' = [at EXCEPT !["main"] = FirstFrom(0)]
    BY <1>5 DEF TakeSignal
  <2>2. AtFirst /\ StreamsHeld /\ DeviceHeld /\ NoMisuse
    BY <2>1 DEF ResInv
  <2>3. pc'["main"] = "stop" /\ pc["main"] = "poll"
    BY <2>1 DEF TypeOK, Thread
  <2>4. at'["main"] = FirstFrom(0)
    BY <2>1 DEF TypeOK, Thread
  <2>5. \A s \in Stream : at'["main"] <= s
    BY <2>4, FirstIsLeast, Zenon
  <2>6. AtFirst' /\ NoMisuse'
    BY <2>1, <2>2, <2>5 DEF AtFirst, NoMisuse
  <2>7. StreamsHeld'
    BY <2>1, <2>2, <2>3 DEF StreamsHeld, Held, HasRoi, HasMdet, HasBuffer, HasDump, IsReset,
                            InitPc, TearPc
  <2>8. DeviceHeld'
    BY <2>1, <2>2, <2>3 DEF DeviceHeld
  <2>9. QED BY <2>6, <2>7, <2>8
<1>6. CASE RemoveFile \/ UNCHANGED vars
  <2>1. UNCHANGED <<pc, at, res, unsafe, misuse>>
    BY <1>6 DEF RemoveFile, vars, stop_vars, sig_vars
  <2>2. QED BY <2>1 DEF ResInv, AtFirst, StreamsHeld, Held, HasRoi, HasMdet, HasBuffer,
                        HasDump, IsReset, DeviceHeld, NoMisuse
<1>7. QED BY <1>1, <1>2, <1>3, <1>4, <1>5, <1>6
          DEF Next, MainThread, ControlThread

\* Unless a signal strikes outside the poll loop, nothing is used after it was
\* given back, given back twice or called when closed, by either thread.
THEOREM NothingMisused == Spec => []NoMisuse
<1>1. ResInv => NoMisuse
  BY DEF ResInv, NoMisuse
<1>2. QED BY <1>1, TypeCorrect, ControlInvInit, ControlInvStep, ResInvInit, ResInvStep,
             PTL DEF Spec

\* Unless a signal strikes outside the poll loop, deinit gives everything back
\* that main acquired, of every stream, and leaves no level behind.
THEOREM DeinitReleasesAll == Spec => []AllReleased
<1>1. TypeOK /\ ResInv => AllReleased
  <2> SUFFICES ASSUME TypeOK, ResInv, ~ unsafe, pc["main"] = "exit"
               PROVE  /\ res.roi = {} /\ res.mdet = {} /\ res.reset = Stream
                      /\ \A s \in Stream : res.me_buf[s] = "null" /\ res.dump_fd[s] # "open"
                      /\ res.lib = "down" /\ res.fd_iav = "closed" /\ ~ res.mem_mapped
    BY DEF AllReleased
  <2>1. StreamsHeld /\ DeviceHeld /\ res \in ResType
    BY DEF ResInv, TypeOK
  <2>2. \A s \in Stream :
          /\ s \notin res.roi /\ s \notin res.mdet /\ s \in res.reset
          /\ res.me_buf[s] \notin {"live", "freed"} /\ res.dump_fd[s] # "open"
    BY <2>1 DEF StreamsHeld, Held, HasRoi, HasMdet, HasBuffer, HasDump, IsReset
  <2>3. res.roi = {} /\ res.mdet = {} /\ res.reset = Stream
    BY <2>1, <2>2 DEF ResType
  <2>4. \A s \in Stream : res.me_buf[s] = "null" /\ res.dump_fd[s] # "open"
    BY <2>1, <2>2 DEF ResType
  <2>5. QED BY <2>1, <2>3, <2>4 DEF DeviceHeld
<1>2. QED BY <1>1, TypeCorrect, ControlInvInit, ControlInvStep, ResInvInit, ResInvStep,
             PTL DEF Spec
=============================================================================
