------------------------------- MODULE SampleApp -------------------------------
(***************************************************************************)
(* The sample application (SampleApp/start.cpp) on top of the factory:     *)
(* main gets a camera, makes one Application and a thread for it and then  *)
(* sleeps; the thread registers the callback and starts the camera; the    *)
(* camera's own thread delivers frames, of which the callback writes those *)
(* with data to the file until it has counted FRAME_LIMIT, and exits.      *)
(* Frames are numbered by frame_ctr.  Other users of the factory share the *)
(* process.                                                                *)
(***************************************************************************)
EXTENDS RdkCPluginFactory, Sequences

CONSTANTS
  main,        \* the client that is the sample's main
  FRAME_LIMIT

ASSUME SampleAssumption == main \in Client /\ FRAME_LIMIT \in Nat \ {0}

VARIABLES
  process,      \* "running", "exited" or "crashed"
  stage,        \* where main is
  app,          \* where the application's thread is
  app_camera,
  fp,           \* "none", "open" or "closed"
  keyed,        \* GetResourceKey succeeded
  registered,   \* the camera knows the callback
  frame_ctr,    \* frames counted
  file,         \* frames in the file
  write_failed, \* history: an fwrite failed
  video_deleted \* history: a video capturer was deleted after main got one

sample_vars == <<process, stage, app, app_camera, fp, keyed, registered, frame_ctr,
                 file, write_failed>>
vars == <<factory_vars, sample_vars, video_deleted>>

Init ==
  /\ FactoryInit
  /\ process = "running" /\ stage = "factory" /\ app = "none"
  /\ app_camera = NULL /\ fp = "none" /\ keyed = FALSE /\ registered = FALSE
  /\ frame_ctr = 0 /\ file = <<>>
  /\ write_failed = FALSE /\ video_deleted = FALSE

\* A method is called through camera p, and done follows.  Through NULL the
\* process crashes; through a camera that was deleted it may.
Through(p, done) ==
  \/ p # NULL /\ done /\ UNCHANGED process
  \/ p \notin alive /\ process' = "crashed" /\ UNCHANGED <<app, keyed>>

-----------------------------------------------------------------------------
(* main.                                                                   *)

\* main's call of the factory for kind k, and what it does next.
GetInstance(k, next) ==
  /\ Create(main, k) \/ Make(main)
  /\ stage' = IF call'[main] = Idle THEN next ELSE stage
  /\ UNCHANGED <<process, app, app_camera, fp, keyed, registered, frame_ctr, file,
                 write_failed, video_deleted>>

GetFactory == stage = "factory" /\ GetInstance("Factory", "camera")
GetCamera  == stage = "camera" /\ GetInstance("Video", "construct")

\* The constructor: without a file the camera is not even kept; with one, it
\* is asked for a key.
Construct ==
  LET camera == held[main]["Video"]
  IN  /\ stage = "construct" /\ stage' = "thread"
      /\ \/ UNCHANGED <<process, fp, app_camera, app, keyed>>
         \/ /\ fp' = "open" /\ app_camera' = camera
            /\ Through(camera, keyed' \in BOOLEAN /\ UNCHANGED app)
      /\ UNCHANGED <<factory_vars, registered, frame_ctr, file, write_failed,
                     video_deleted>>

\* pthread_create, whose result nobody looks at; then main sleeps for ever.
StartThread ==
  /\ stage = "thread" /\ stage' = "asleep"
  /\ app' \in {"none", "init"}
  /\ UNCHANGED <<factory_vars, process, app_camera, fp, keyed, registered, frame_ctr,
                 file, write_failed, video_deleted>>

-----------------------------------------------------------------------------
(* The application's thread: app_func.                                     *)

\* A method of the camera is called.
Uses(at, next) ==
  /\ app = at
  /\ Through(app_camera, app' = next /\ UNCHANGED keyed)
  /\ UNCHANGED <<factory_vars, stage, app_camera, fp, frame_ctr, file,
                 write_failed, video_deleted>>

\* Mutant of Register: the format matches none of the cases.
RegisterNone == Uses("init", "start") /\ UNCHANGED registered

\* init: SetFramesCallback.
Register == Uses("init", "start") /\ registered' = (app_camera \in alive)

StartCamera == Uses("start", "bitrate") /\ UNCHANGED registered
SetBitRate == Uses("bitrate", "framerate") /\ UNCHANGED registered
SetFrameRate == Uses("framerate", "done") /\ UNCHANGED registered

-----------------------------------------------------------------------------
\* Mutant of OnEncodedFrames: the limit is tested before the frame is counted.
OnEncodedFramesLate(written) ==
  /\ file' = IF written THEN Append(file, frame_ctr + 1) ELSE file
  /\ write_failed' = (write_failed \/ ~written)
  /\ frame_ctr' = frame_ctr + 1
  /\ IF frame_ctr = FRAME_LIMIT THEN fp' = "closed" /\ process' = "exited"
                                ELSE UNCHANGED <<fp, process>>

\* OnEncodedFrames of a frame with data: one that cannot be written is counted
\* all the same (fwrite returns no negative number).
OnEncodedFrames(written) ==
  /\ file' = IF written THEN Append(file, frame_ctr + 1) ELSE file
  /\ write_failed' = (write_failed \/ ~written)
  /\ frame_ctr' = frame_ctr + 1
  /\ IF frame_ctr' = FRAME_LIMIT THEN fp' = "closed" /\ process' = "exited"
                                 ELSE UNCHANGED <<fp, process>>

\* The camera delivers; frames without data change nothing.
Frame ==
  /\ app \in {"bitrate", "framerate", "done"}
  /\ registered /\ keyed /\ app_camera \in alive
  /\ \E written \in BOOLEAN : OnEncodedFrames(written)
  /\ UNCHANGED <<factory_vars, stage, app, app_camera, keyed, registered, video_deleted>>

\* Another user's step in the factory.
Others ==
  /\ \E c \in Client \ {main} : FactoryStep(c)
  /\ video_deleted' = (held[main]["Video"] # NULL /\
       (video_deleted \/ \E c \in Client : call[c].kind = "Video" /\ call[c].step = "delete"
                                           /\ call'[c].step = "clear"))
  /\ UNCHANGED sample_vars

Main == GetFactory \/ GetCamera \/ Construct \/ StartThread
App  == Register \/ StartCamera \/ SetBitRate \/ SetFrameRate

Next == process = "running" /\ (Main \/ App \/ Frame \/ Others)

\* The camera goes on delivering frames with data.
Spec == Init /\ [][Next]_vars /\ WF_vars(process = "running" /\ Frame)

-----------------------------------------------------------------------------
(* Properties.                                                             *)

TypeOK ==
  /\ FactoryTypeOK
  /\ process \in {"running", "exited", "crashed"}
  /\ stage \in {"factory", "camera", "construct", "thread", "asleep"}
  /\ app \in {"none", "init", "start", "bitrate", "framerate", "done"}
  /\ app_camera \in 0 .. MaxMade /\ fp \in {"none", "open", "closed"}
  /\ {keyed, registered, write_failed, video_deleted} \subseteq BOOLEAN
  /\ frame_ctr \in 0 .. FRAME_LIMIT
  /\ file \in Seq(1 .. FRAME_LIMIT) /\ Len(file) <= frame_ctr

\* When the process exits, the file is closed and has the first FRAME_LIMIT
\* frames, all of them if every write succeeded, whatever the application's
\* thread was still about to do.
FirstFrames ==
  process = "exited" =>
    /\ fp = "closed"
    /\ ~write_failed => file = [i \in 1 .. FRAME_LIMIT |-> i]

\* As long as calls do not overlap, the camera main was given stays until
\* somebody destroys the video capturer; destroying the factory it came from,
\* or making another, does not.
CameraOutlivesFactory ==
  held[main]["Video"] # NULL /\ ~video_deleted /\ ~overlapped =>
    held[main]["Video"] \in alive

\* Once the camera was started for a key and with the callback registered, the
\* process ends, or the camera is taken away.
EndsAfterLimit ==
  app = "done" /\ keyed ~> process # "running" \/ app_camera \notin alive
=============================================================================
