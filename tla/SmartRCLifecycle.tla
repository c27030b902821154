-------------------------- MODULE SmartRCLifecycle --------------------------
(***************************************************************************)
(* The life of the smartrc process (test_smartrc_Amba.c): main acquires    *)
(* the driver, the library, the streams and their buffers, starts the      *)
(* control thread and polls for its quit file; deinit_smartrc_lib stops    *)
(* the thread and gives everything back.  deinit_smartrc_lib is also what  *)
(* the handler of SIGINT, SIGTERM and SIGQUIT runs before exit(0), on      *)
(* whichever thread the signal lands and whatever that thread was doing.   *)
(*                                                                         *)
(* A handler never returns and main returns right after its own call, so   *)
(* both end the process: taking a signal just sends the thread to the      *)
(* start of deinit, and what it interrupted shows only in shared state.    *)
(*                                                                         *)
(* A buffer is "null", "live" or, between free() and the assignment after  *)
(* it, "freed".  Whatever no C program may do to such state is recorded in *)
(* misuse instead of being given a meaning.                                *)
(*                                                                         *)
(* Left out: the two dump buffers, freed exactly like me_buf; logging.     *)
(***************************************************************************)
EXTENDS SmartRCStreams

CONSTANTS
  Dump,        \* streams with a dump file
  Signals,     \* the signals sigstop is installed for
  MaxSignals   \* bound: how many signals are sent

ASSUME LifecycleAssumption == Dump \subseteq Stream /\ MaxSignals \in Nat

VARIABLES
  running,            \* the process exists
  pc,                 \* where each thread is
  at,                 \* the stream each thread is working on
  quit_file,          \* /tmp/.smartrc_running is there
  res,                \* what deinit has to give back, see ResType
  smartrc_thread_id,  \* "none" (0), "ctl", or "stale": left by a failed create
  smartrc_exit_flag,
  joining,            \* main has entered pthread_join on the control thread
  heap,               \* the thread inside malloc or free, or "none"
  blocked,            \* signals each thread holds back: it is handling them
  signals_left,
  unsafe,             \* history: a signal was taken outside main's poll loop
  misuse              \* history: what went wrong

stop_vars == <<smartrc_thread_id, smartrc_exit_flag, joining>>
sig_vars  == <<blocked, signals_left, unsafe>>
vars == <<running, pc, at, quit_file, res, stop_vars, heap, sig_vars, misuse>>

Thread == {"main", "ctl"}

ResType ==
  [fd_iav     : {"none", "open", "closed"},   \* -1, open, or a stale number
   mem_mapped : BOOLEAN,
   lib        : {"new", "up", "down"},        \* the smartrc library
   roi        : SUBSET Stream,                \* started ROI sessions
   mdet       : SUBSET Stream,                \* started motion detection
   me_buf     : [Stream -> {"null", "live", "freed"}],
   dump_fd    : [Stream -> {"none", "open", "closed"}],
   reset      : SUBSET Stream]                \* levels put to HIGH and NONE

Misuse == {"use after release", "join of no thread", "stop of a stopped session",
           "double free", "close of a closed file", "call of a closed library"}

InitPc == {"open_iav", "init_lib", "init_stream", "malloc", "in_malloc",
           "start_mdet", "start_thread"}
LoopPc == {"test", "wait", "stream"}
StopPc == {"stop", "join", "joining"}
TearPc == {"stop_roi", "free", "in_free", "clear", "close_dump", "reset",
           "deinit_lib", "exit_iav", "exit"}

Init ==
  /\ running = TRUE
  /\ pc = [t \in Thread |-> IF t = "main" THEN "open_iav" ELSE "none"]
  /\ at = [t \in Thread |-> FirstFrom(0)]
  /\ quit_file \in BOOLEAN
  /\ res = [fd_iav |-> "none", mem_mapped |-> FALSE, lib |-> "new",
            roi |-> {}, mdet |-> {}, reset |-> {},
            me_buf |-> [s \in Stream |-> "null"],
            dump_fd |-> [s \in Stream |-> "none"]]
  /\ smartrc_thread_id = "none" /\ smartrc_exit_flag = FALSE /\ joining = FALSE
  /\ heap = "none"
  /\ blocked = [t \in Thread |-> {}]
  /\ signals_left = MaxSignals
  /\ unsafe = FALSE /\ misuse = {}

-----------------------------------------------------------------------------
(* Steps of a thread.                                                      *)

\* Thread t goes from p to q and keeps its stream.
Step(t, p, q) ==
  /\ running /\ pc[t] = p
  /\ pc' = [pc EXCEPT ![t] = q]
  /\ UNCHANGED <<running, at, quit_file, sig_vars>>

\* Mutant of StepStream: the scan runs past the last stream.
StepStreamOverrun(t, p, q, r) ==
  LET n == FirstFrom(at[t] + 1)
  IN  /\ running /\ pc[t] = p
      /\ pc' = [pc EXCEPT ![t] = IF n = NoStream THEN r ELSE q]
      /\ at' = [at EXCEPT ![t] = n]
      /\ UNCHANGED <<running, quit_file, sig_vars>>

\* Thread t goes from p on to its next stream at q, or, when there is none,
\* to r, where a new scan may begin.
StepStream(t, p, q, r) ==
  LET n == FirstFrom(at[t] + 1)
  IN  /\ running /\ pc[t] = p
      /\ pc' = [pc EXCEPT ![t] = IF n = NoStream THEN r ELSE q]
      /\ at' = [at EXCEPT ![t] = IF n = NoStream THEN FirstFrom(0) ELSE n]
      /\ UNCHANGED <<running, quit_file, sig_vars>>

\* The process ends.
End(t, p) ==
  /\ running /\ pc[t] = p
  /\ running' = FALSE
  /\ UNCHANGED <<pc, at, quit_file, res, stop_vars, heap, sig_vars, misuse>>

\* Record kind k if the state is bad for what the thread does.
Blame(k, bad) == misuse' = IF bad THEN misuse \union {k} ELSE misuse

-----------------------------------------------------------------------------
(* main: init_iav, init_smartrc_lib, smartrc_auto_run_test and the poll    *)
(* loop.  A failure returns -1 from main, without deinit.                  *)

\* init_iav: open the device, map the DSP memory.
OpenIav ==
  /\ Step("main", "open_iav", "init_lib")
  /\ res' = [res EXCEPT !.fd_iav = "open", !.mem_mapped = TRUE]
  /\ UNCHANGED <<stop_vars, heap, misuse>>

\* init_smartrc_lib up to its stream loop.
InitLib ==
  /\ Step("main", "init_lib", "init_stream")
  /\ res' = [res EXCEPT !.lib = "up"]
  /\ UNCHANGED <<stop_vars, heap, misuse>>

\* The checks of one stream, its configuration and its ROI session.
InitStream ==
  /\ Step("main", "init_stream", "malloc")
  /\ res' = [res EXCEPT !.roi = @ \union {at["main"]}]
  /\ UNCHANGED <<stop_vars, heap, misuse>>

\* me_buf[i].buffer = malloc(...): into the allocator ...
Malloc ==
  /\ Step("main", "malloc", "in_malloc")
  /\ heap = "none" /\ heap' = "main"
  /\ UNCHANGED <<res, stop_vars, misuse>>

\* ... and out of it; then the dump file of the stream is opened.
Allocated ==
  /\ StepStream("main", "in_malloc", "init_stream", "start_mdet")
  /\ heap' = "none"
  /\ res' = [res EXCEPT
       !.me_buf[at["main"]] = "live",
       !.dump_fd[at["main"]] = IF at["main"] \in Dump THEN "open" ELSE @]
  /\ UNCHANGED <<stop_vars, misuse>>

\* get_motion_value_start, stream by stream.
StartMdet ==
  /\ StepStream("main", "start_mdet", "start_mdet", "start_thread")
  /\ res' = [res EXCEPT !.mdet = @ \union {at["main"]}]
  /\ UNCHANGED <<stop_vars, heap, misuse>>

\* Any of these steps may fail instead.
InitFails ==
  \E p \in InitPc \ {"malloc", "start_thread"} : End("main", p)

\* smartrc_thread_start: pthread_create succeeds ...
StartThread ==
  /\ running /\ pc["main"] = "start_thread"
  /\ pc' = [pc EXCEPT !["main"] = "poll", !["ctl"] = "test"]
  /\ smartrc_thread_id' = "ctl" /\ smartrc_exit_flag' = FALSE
  /\ UNCHANGED <<running, at, quit_file, res, joining, heap, sig_vars, misuse>>

\* ... or returns a positive error number and an unspecified thread id.  The
\* caller tests for a negative number, so main polls all the same.
StartThreadFails ==
  /\ Step("main", "start_thread", "poll")
  /\ smartrc_thread_id' \in {"none", "stale"} /\ smartrc_exit_flag' = FALSE
  /\ UNCHANGED <<res, joining, heap, misuse>>

\* The quit file is gone: main leaves its poll loop for deinit_smartrc_lib.
Poll ==
  /\ ~ quit_file
  /\ Step("main", "poll", "stop")
  /\ UNCHANGED <<res, stop_vars, heap, misuse>>

Main == OpenIav \/ InitLib \/ InitStream \/ Malloc \/ Allocated \/ StartMdet
          \/ InitFails \/ StartThread \/ StartThreadFails \/ Poll

-----------------------------------------------------------------------------
(* The control thread: smartrc_mainloop, as SmartRCLoop has it in detail.  *)

\* Mutant of LoopTest: the exit flag is not looked at.
LoopTestNoFlag ==
  /\ Step("ctl", "test", "wait")
  /\ UNCHANGED <<res, stop_vars, heap, misuse>>

\* The loop condition.
LoopTest ==
  /\ Step("ctl", "test", IF smartrc_exit_flag THEN "ended" ELSE "wait")
  /\ UNCHANGED <<res, stop_vars, heap, misuse>>

\* get_iav_dsp_pts: the blocking wait for the next frame returns.
NewFrame ==
  /\ Step("ctl", "wait", "stream")
  /\ UNCHANGED <<res, stop_vars, heap, misuse>>

\* One stream of a frame reads the mapped memory, works in the stream's
\* buffer and sessions and sets levels in the library.
InUse(s) ==
  /\ res.mem_mapped /\ res.lib = "up" /\ res.me_buf[s] = "live"
  /\ s \in res.roi /\ s \in res.mdet

LoopStream ==
  /\ StepStream("ctl", "stream", "stream", "test")
  /\ Blame("use after release", ~ InUse(at["ctl"]))
  /\ res' = [res EXCEPT !.reset = @ \ {at["ctl"]}]
  /\ UNCHANGED <<stop_vars, heap>>

\* A dump that fails ends the thread, and nobody is told.
LoopDumpFails ==
  /\ at["ctl"] \in Dump
  /\ Step("ctl", "stream", "ended")
  /\ Blame("use after release", ~ InUse(at["ctl"]))
  /\ res' = [res EXCEPT !.reset = @ \ {at["ctl"]}]
  /\ UNCHANGED <<stop_vars, heap>>

Control == LoopTest \/ NewFrame \/ LoopStream \/ LoopDumpFails

-----------------------------------------------------------------------------
(* deinit_smartrc_lib, by thread t: main, or either thread in a handler.   *)

\* Mutant of Stop: the flag is raised, but nobody waits for the thread.
StopNoJoin(t) ==
  /\ Step(t, "stop", "stop_roi")
  /\ smartrc_exit_flag' = TRUE /\ smartrc_thread_id' = "none"
  /\ UNCHANGED <<res, joining, heap, misuse>>

\* smartrc_thread_stop: no thread to stop, or raise the exit flag.
Stop(t) ==
  \/ /\ smartrc_thread_id = "none"
     /\ Step(t, "stop", "stop_roi")
     /\ UNCHANGED <<res, stop_vars, heap, misuse>>
  \/ /\ smartrc_thread_id # "none"
     /\ Step(t, "stop", "join")
     /\ smartrc_exit_flag' = TRUE
     /\ UNCHANGED <<res, smartrc_thread_id, joining, heap, misuse>>

\* pthread_join: it waits only for another thread that nobody joins yet.
Join ==
  /\ smartrc_thread_id = "ctl" /\ ~ joining
  /\ Step("main", "join", "joining")
  /\ joining' = TRUE
  /\ UNCHANGED <<res, smartrc_thread_id, smartrc_exit_flag, heap, misuse>>

\* It fails at once when the thread is the caller, when main is inside a join
\* already (the one a handler interrupted), and, with undefined behaviour,
\* when the id does not belong to a thread.  The error is not looked at.
JoinFails(t) ==
  /\ t = "ctl" \/ joining \/ smartrc_thread_id # "ctl"
  /\ Step(t, "join", "stop_roi")
  /\ smartrc_thread_id' = "none"
  /\ Blame("join of no thread", smartrc_thread_id # "ctl")
  /\ UNCHANGED <<res, smartrc_exit_flag, joining, heap>>

\* Mutant of Joined: the join returns before the thread does.
JoinedAtOnce ==
  /\ Step("main", "joining", "stop_roi")
  /\ smartrc_thread_id' = "none"
  /\ UNCHANGED <<res, smartrc_exit_flag, joining, heap, misuse>>

\* The control thread has returned, and so does pthread_join.
Joined ==
  /\ pc["ctl"] = "ended"
  /\ Step("main", "joining", "stop_roi")
  /\ smartrc_thread_id' = "none"
  /\ UNCHANGED <<res, smartrc_exit_flag, joining, heap, misuse>>

\* Mutant of StopRoi: the buffer is not freed.
StopRoiNoFree(t) ==
  /\ Step(t, "stop_roi", "close_dump")
  /\ Blame("stop of a stopped session",
           at[t] \notin res.roi \/ at[t] \notin res.mdet)
  /\ res' = [res EXCEPT !.roi = @ \ {at[t]}, !.mdet = @ \ {at[t]}]
  /\ UNCHANGED <<stop_vars, heap>>

\* smartrc_stop_roi and get_motion_value_stop.
StopRoi(t) ==
  /\ Step(t, "stop_roi", IF res.me_buf[at[t]] = "null" THEN "close_dump" ELSE "free")
  /\ Blame("stop of a stopped session",
           at[t] \notin res.roi \/ at[t] \notin res.mdet)
  /\ res' = [res EXCEPT !.roi = @ \ {at[t]}, !.mdet = @ \ {at[t]}]
  /\ UNCHANGED <<stop_vars, heap>>

\* free(me_buf[i].buffer) of a pointer found non-null: into the allocator ...
Free(t) ==
  /\ Step(t, "free", "in_free")
  /\ heap = "none" /\ heap' = t
  /\ UNCHANGED <<res, stop_vars, misuse>>

\* ... and out of it ...
Freed(t) ==
  /\ Step(t, "in_free", "clear")
  /\ heap' = "none"
  /\ Blame("double free", res.me_buf[at[t]] # "live")
  /\ res' = [res EXCEPT !.me_buf[at[t]] = "freed"]
  /\ UNCHANGED stop_vars

\* ... then the pointer is cleared.
Clear(t) ==
  /\ Step(t, "clear", "close_dump")
  /\ res' = [res EXCEPT !.me_buf[at[t]] = "null"]
  /\ UNCHANGED <<stop_vars, heap, misuse>>

\* The dump file is closed whether or not it is open.
CloseDump(t) ==
  /\ Step(t, "close_dump", "reset")
  /\ Blame("close of a closed file",
           at[t] \in Dump /\ res.dump_fd[at[t]] # "open")
  /\ res' = [res EXCEPT !.dump_fd[at[t]] = IF at[t] \in Dump THEN "closed" ELSE @]
  /\ UNCHANGED <<stop_vars, heap>>

\* The levels of the stream are left at HIGH motion and NONE noise.
Reset(t) ==
  /\ StepStream(t, "reset", "stop_roi", "deinit_lib")
  /\ Blame("call of a closed library", res.lib # "up")
  /\ res' = [res EXCEPT !.reset = @ \union {at[t]}]
  /\ UNCHANGED <<stop_vars, heap>>

DeinitLib(t) ==
  /\ Step(t, "deinit_lib", "exit_iav")
  /\ Blame("call of a closed library", res.lib # "up")
  /\ res' = [res EXCEPT !.lib = "down"]
  /\ UNCHANGED <<stop_vars, heap>>

\* exit_iav: close() whenever the number is not negative, which it stays.
ExitIav(t) ==
  /\ Step(t, "exit_iav", "exit")
  /\ Blame("close of a closed file", res.fd_iav = "closed")
  /\ res' = [res EXCEPT !.fd_iav = IF @ = "none" THEN @ ELSE "closed",
                        !.mem_mapped = FALSE]
  /\ UNCHANGED <<stop_vars, heap>>

Deinit(t) == Stop(t) \/ JoinFails(t) \/ StopRoi(t) \/ Free(t) \/ Freed(t)
               \/ Clear(t) \/ CloseDump(t) \/ Reset(t) \/ DeinitLib(t)
               \/ ExitIav(t) \/ End(t, "exit")

-----------------------------------------------------------------------------
(* The world.                                                              *)

\* Somebody removes the quit file.
RemoveFile ==
  /\ running /\ quit_file
  /\ quit_file' = FALSE
  /\ UNCHANGED <<running, pc, at, res, stop_vars, heap, sig_vars, misuse>>

\* sigstop for signal g begins on thread t.
TakeSignal(t, g) ==
  /\ running /\ pc[t] \notin {"none", "ended"}
  /\ signals_left > 0 /\ g \notin blocked[t]
  /\ signals_left' = signals_left - 1
  /\ blocked' = [blocked EXCEPT ![t] = @ \union {g}]
  /\ pc' = [pc EXCEPT ![t] = "stop"]
  /\ at' = [at EXCEPT ![t] = FirstFrom(0)]
  /\ unsafe' = (unsafe \/ t # "main" \/ pc["main"] # "poll")
  /\ UNCHANGED <<running, quit_file, res, stop_vars, heap, misuse>>

MainThread    == Main \/ Join \/ Joined \/ Deinit("main")
ControlThread == Control \/ Deinit("ctl")

Next ==
  \/ MainThread \/ ControlThread
  \/ RemoveFile
  \/ \E t \in Thread, g \in Signals : TakeSignal(t, g)

Spec == Init /\ [][Next]_vars

\* Both threads are scheduled, and the encoder keeps delivering frames.
FairSpec == Spec /\ WF_vars(MainThread) /\ WF_vars(ControlThread)

-----------------------------------------------------------------------------
(* Properties.                                                             *)

TypeOK ==
  /\ running \in BOOLEAN
  /\ pc \in [Thread -> InitPc \union LoopPc \union StopPc \union TearPc
                         \union {"none", "poll", "ended"}]
  /\ at \in [Thread -> Stream]
  /\ quit_file \in BOOLEAN
  /\ res \in ResType
  /\ smartrc_thread_id \in {"none", "ctl", "stale"}
  /\ smartrc_exit_flag \in BOOLEAN
  /\ joining \in BOOLEAN
  /\ heap \in Thread \union {"none"}
  /\ blocked \in [Thread -> SUBSET Signals]
  /\ signals_left \in Nat
  /\ unsafe \in BOOLEAN
  /\ misuse \subseteq Misuse

\* Nothing is given back while the control thread may still use it: unless a
\* signal struck outside the poll loop, a thread in the releasing part of
\* deinit is alone.  (What pthread_join in smartrc_thread_stop is for.)
TearDownAlone ==
  ~ unsafe /\ pc["main"] \in TearPc => pc["ctl"] \in {"none", "ended"}

\* No use after free, double free, double close, second stop or call of a
\* closed library, unless a signal struck outside the poll loop or the join
\* was given the id of a thread that was never created.
NoMisuse == ~ unsafe => misuse \subseteq {"join of no thread"}

\* When deinit is through, everything main acquired is given back and every
\* stream is left at HIGH motion and NONE noise.
AllReleased ==
  ~ unsafe /\ pc["main"] = "exit" =>
    /\ res.roi = {} /\ res.mdet = {} /\ res.reset = Stream
    /\ \A s \in Stream : res.me_buf[s] = "null" /\ res.dump_fd[s] # "open"
    /\ res.lib = "down" /\ res.fd_iav = "closed" /\ ~ res.mem_mapped

\* Once the quit file is gone, or a signal was taken while main polled, the
\* process ends, and without help from a second signal.
Ends ==
  ~ quit_file \/ signals_left < MaxSignals ~> ~ running \/ unsafe
=============================================================================
