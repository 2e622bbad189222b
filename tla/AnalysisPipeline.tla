-------------------------- MODULE AnalysisPipeline --------------------------
(***************************************************************************)
(* AnalysisPipeline::run of the vehicle program with its threads: capture, *)
(* main, the telemetry worker, the CAN receiver and the streamer, and the  *)
(* user at the window.  The frame queue is used through its abstraction    *)
(* QueueState (BlockingQueue shows that the waits and wake-ups implement   *)
(* it) and telemetry is TelemetryPublisher.  What the analysis computes is *)
(* left open: a frame yields some events.                                  *)
(*                                                                         *)
(* A camera and synthetic frames go on for ever.  The frames after number  *)
(* SourceFrames are therefore one and the same, Late, which the histories  *)
(* leave out.                                                              *)
(***************************************************************************)
EXTENDS Integers, Subsequence

CONSTANTS FrameQueueSize,     \* config_.frameQueueSize
          CacheCapacity,      \* config_.cacheCapacity
          TelemetryCapacity,  \* config_.telemetry.queueCapacity
          InvisibleLimit,     \* invisible checks in a row that are tolerated: 5
          SourceFrames,       \* bound: frames of a file; frames told apart
          MaxEvents,          \* bound: risk events of one frame
          MaxCanFrames,       \* bound: CAN frames that change the vehicle state
          Configs             \* the configurations to run

\* A configuration says which optional parts run, how many frames to read (0 or
\* less: no limit), and what the video turned out to be.  Synthetic frames have
\* no image.
Config == [telemetry : BOOLEAN, can : BOOLEAN, display : BOOLEAN, record : BOOLEAN,
           stream : BOOLEAN, frameCount : Int, source : {"file", "camera", "synthetic"}]

\* Without a file's end a limit must be one that the model reaches, and the
\* histories of telemetry must be finite.
ASSUME ConfigsAssumption ==
    /\ Configs \subseteq Config
    /\ \A c \in Configs : c.source # "file" =>
          c.frameCount <= SourceFrames /\ (c.telemetry => c.frameCount > 0)
ASSUME SizesAssumption ==
    /\ FrameQueueSize \in Nat /\ CacheCapacity \in Nat /\ TelemetryCapacity \in Nat
    /\ InvisibleLimit \in Nat /\ SourceFrames \in Nat
    /\ MaxEvents \in Nat /\ MaxCanFrames \in Nat

VARIABLES
    config,        \* config_
    frameItems, frameClosed,                     \* queue
    capture,       \* capture thread: "none", "opening", "reading", "pushing",
                   \*   "closing", "done"
    processed,     \* its local count of the frames pushed, if there is a limit
    grabbed,       \* frames read from the source; also the frame to be pushed
    captureError,  \* an exception is stored for the main thread
    main,          \* main thread: "starting", "popping", "detecting", "sending",
                   \*   "showing", "drawing", "joining", "joiningStream", "reporting",
                   \*   "stopping", "stoppingCan", "joiningCan", "returned", "aborted"
    frame,         \* the frame being analysed
    events,        \* how many events it has
    snapshot,      \* the version of the vehicle state taken for it, 0 if not valid
    cache,         \* cache_
    result,        \* result.events, as <<frame, number>> pairs
    analysed,      \* history: the frames analysed
    videoOpen,     \* outputVideo.isOpened()
    unopened,      \* history: the frames with which it could not be opened
    written,       \* history: the frames written to it
    unencoded,     \* history: the frames that could not be encoded for the stream
    streamed,      \* history: the frames published to the stream
    invisible,     \* visualizer: invisibleWindowChecks_
    userQuit,      \* history: show() has returned false
    key,           \* q or Esc has been pressed in the window
    streamThread,  \* streamer: "none", "serving", "done"
    canVersion,    \* CAN: how often the vehicle state has changed
    canThread,     \* CAN: "none", "receiving", "done"
    canRunning,    \* CAN: running_
    tItems, tClosed, tPhase, tTodo, tWorker, tHeld, tAccepted, tHanded  \* telemetry_

frameVars == <<frameItems, frameClosed>>
captureVars == <<capture, processed, grabbed, captureError>>
analysisVars == <<frame, events, snapshot, cache, result, analysed>>
drawingVars == <<videoOpen, unopened, written, unencoded, streamed>>
viewVars == <<drawingVars, invisible, userQuit, key, streamThread>>
canVars == <<canVersion, canThread, canRunning>>
telemetryVars == <<tItems, tClosed, tPhase, tTodo, tWorker, tHeld, tAccepted, tHanded>>
vars == <<config, frameVars, captureVars, main, analysisVars, viewVars, canVars, telemetryVars>>

\* std::max<std::size_t>(1, config_.frameQueueSize)
FrameCapacity == IF FrameQueueSize = 0 THEN 1 ELSE FrameQueueSize

Late == SourceFrames + 1
Tracked(history, f) == IF f = Late THEN history ELSE Append(history, f)
HasImages == config.source # "synthetic"

Queue == INSTANCE QueueState WITH
            Capacity <- FrameCapacity, items <- frameItems, closed <- frameClosed
Telemetry == INSTANCE TelemetryPublisher WITH
            Capacity <- TelemetryCapacity, items <- tItems, closed <- tClosed,
            phase <- tPhase, todo <- tTodo, worker <- tWorker, held <- tHeld,
            accepted <- tAccepted, handed <- tHanded

Init ==
    /\ config \in Configs
    /\ Queue!QueueInit
    /\ capture = "none" /\ processed = 0 /\ grabbed = 0 /\ captureError = FALSE
    /\ main = "starting"
    /\ frame = 0 /\ events = 0 /\ snapshot = 0
    /\ cache = <<>> /\ result = <<>> /\ analysed = <<>>
    /\ videoOpen = FALSE /\ unopened = <<>> /\ written = <<>>
    /\ unencoded = {} /\ streamed = <<>>
    /\ invisible = 0 /\ userQuit = FALSE /\ key = FALSE
    /\ streamThread = "none"
    /\ canVersion = 0 /\ canThread = "none" /\ canRunning = FALSE
    /\ Telemetry!PublisherInit

----------------------------------------------------------------------------
(* The capture thread. *)

\* The VideoSource is constructed, or its constructor throws.
OpenSource ==
    /\ capture = "opening"
    /\ \/ capture' = "reading" /\ UNCHANGED captureError
       \/ capture' = "closing" /\ captureError' = TRUE
    /\ UNCHANGED <<config, frameVars, processed, grabbed, main, analysisVars, viewVars,
                   canVars, telemetryVars>>

LimitReached == config.frameCount > 0 /\ processed >= config.frameCount

ReadFrame ==
    /\ capture = "reading"
    /\ ~LimitReached
    /\ config.source = "file" => grabbed < SourceFrames
    /\ grabbed' = IF grabbed = Late THEN Late ELSE grabbed + 1
    /\ capture' = "pushing"
    /\ UNCHANGED <<config, frameVars, processed, captureError, main, analysisVars, viewVars,
                   canVars, telemetryVars>>

\* The limit is reached, or read() returns false: at the end of the file, or
\* when the camera is gone.  Synthetic frames have no end.
ReadEnds ==
    /\ capture = "reading"
    /\ LimitReached \/ HasImages
    /\ capture' = "closing"
    /\ UNCHANGED <<config, frameVars, processed, grabbed, captureError, main, analysisVars,
                   viewVars, canVars, telemetryVars>>

ReadThrows ==
    /\ capture = "reading"
    /\ ~LimitReached
    /\ capture' = "closing"
    /\ captureError' = TRUE
    /\ UNCHANGED <<config, frameVars, processed, grabbed, main, analysisVars, viewVars,
                   canVars, telemetryVars>>

PushFrame ==
    /\ capture = "pushing"
    /\ \/ /\ Queue!Store(grabbed)
          /\ processed' = IF config.frameCount > 0 THEN processed + 1 ELSE processed
          /\ capture' = "reading"
       \/ Queue!Refuse /\ capture' = "closing" /\ UNCHANGED processed
    /\ UNCHANGED <<config, grabbed, captureError, main, analysisVars, viewVars, canVars,
                   telemetryVars>>

CloseQueue ==
    /\ capture = "closing"
    /\ Queue!Shut
    /\ capture' = "done"
    /\ UNCHANGED <<config, processed, grabbed, captureError, main, analysisVars, viewVars,
                   canVars, telemetryVars>>

Capture == OpenSource \/ ReadFrame \/ ReadEnds \/ ReadThrows \/ PushFrame \/ CloseQueue

----------------------------------------------------------------------------
(* The main thread. *)

\* Before the loop: the streamer and CAN (whose starts may fail: the run goes on
\* without them), telemetry, the capture thread.
StartRun ==
    /\ main = "starting"
    /\ main' = "popping"
    /\ capture' = "opening"
    /\ \/ config.can /\ canRunning' = TRUE /\ canThread' = "receiving"
       \/ UNCHANGED <<canRunning, canThread>>
    /\ IF config.telemetry THEN Telemetry!StartThread ELSE UNCHANGED telemetryVars
    /\ streamThread' \in {"none", IF config.stream THEN "serving" ELSE "none"}
    /\ UNCHANGED <<config, frameVars, processed, grabbed, captureError, analysisVars,
                   drawingVars, invisible, userQuit, key, canVersion>>

\* FrameCache::push, a window on the newest frames.
CachePush(f) ==
    IF CacheCapacity = 0 THEN cache
    ELSE Append(IF Len(cache) = CacheCapacity THEN Tail(cache) ELSE cache, f)

PopFrame ==
    /\ main = "popping"
    /\ Queue!Take(Head(frameItems))
    /\ frame' = Head(frameItems)
    /\ cache' = CachePush(Head(frameItems))
    /\ main' = "detecting"
    /\ UNCHANGED <<config, captureVars, events, snapshot, result, analysed, viewVars, canVars,
                   telemetryVars>>

\* Seeded: the loop ends as soon as the queue is closed.
PopNothingFault ==
    /\ main = "popping"
    /\ frameClosed
    /\ main' = "joining"
    /\ UNCHANGED <<config, frameVars, captureVars, analysisVars, viewVars, canVars,
                   telemetryVars>>

PopNothing ==
    /\ main = "popping"
    /\ Queue!Drained
    /\ main' = "joining"
    /\ UNCHANGED <<config, captureVars, analysisVars, viewVars, canVars, telemetryVars>>

\* detect, track, the CAN snapshot, analyze, the LLM review, the result.
Analyse ==
    /\ main = "detecting"
    /\ snapshot' = canVersion
    /\ events' \in 0..MaxEvents
    /\ result' = IF frame = Late THEN result ELSE result \o [e \in 1..events' |-> <<frame, e>>]
    /\ analysed' = Tracked(analysed, frame)
    /\ main' = "sending"
    /\ UNCHANGED <<config, frameVars, captureVars, frame, cache, viewVars, canVars,
                   telemetryVars>>

\* An exception leaves the loop: from the detector, the window or the video.
\* captureThread is still joinable when it is destroyed, so the process ends in
\* std::terminate.
AnalysisThrows ==
    /\ main = "detecting" \/ (main \in {"showing", "drawing"} /\ tTodo = <<>> /\ HasImages)
    /\ main' = "aborted"
    /\ UNCHANGED <<config, frameVars, captureVars, analysisVars, viewVars, canVars,
                   telemetryVars>>

SendSummary ==
    /\ main = "sending"
    /\ IF config.telemetry THEN Telemetry!PublishFrameSummary(frame, events, snapshot)
                           ELSE UNCHANGED telemetryVars
    /\ main' = "showing"
    /\ UNCHANGED <<config, frameVars, captureVars, analysisVars, viewVars, canVars>>

\* A push into the telemetry queue, whichever call it is part of; it blocks
\* the main thread while that queue is full.
PushMessage ==
    /\ main \in {"showing", "stopping"}
    /\ Telemetry!PublishAsync
    /\ UNCHANGED <<config, frameVars, captureVars, main, analysisVars, viewVars, canVars>>

\* What show() answers for a number of invisible checks in a row, and a seeded
\* fault: the run never ends for that reason.
VisibleFault(checks) == checks >= 0
Visible(checks) == checks <= InvisibleLimit

\* Seeded: the user's quit leaves the queue open.
ShowFault ==
    /\ main = "showing" /\ tTodo = <<>>
    /\ config.display /\ HasImages
    /\ \/ ~key /\ main' = "drawing" /\ invisible' = 0 /\ UNCHANGED userQuit
       \/ key /\ main' = "joining" /\ userQuit' = TRUE /\ UNCHANGED invisible
    /\ UNCHANGED <<config, frameVars, captureVars, analysisVars, drawingVars, key,
                   streamThread, canVars, telemetryVars>>

\* show() with an image: a key ends the run, and so does a window that stays
\* invisible for more than InvisibleLimit frames in a row.
Show ==
    /\ main = "showing" /\ tTodo = <<>>
    /\ config.display /\ HasImages
    /\ \/ ~key /\ main' = "drawing" /\ invisible' = 0 /\ UNCHANGED <<userQuit, frameVars>>
       \/ key /\ main' = "joining" /\ Queue!Shut /\ userQuit' = TRUE /\ UNCHANGED invisible
       \/ /\ ~key /\ invisible' = invisible + 1
          /\ IF Visible(invisible')
               THEN main' = "drawing" /\ UNCHANGED <<userQuit, frameVars>>
               ELSE main' = "joining" /\ Queue!Shut /\ userQuit' = TRUE
    /\ UNCHANGED <<config, captureVars, analysisVars, drawingVars, key, streamThread, canVars,
                   telemetryVars>>

\* No window, or show() returns before it looks at the keys as there is nothing
\* to draw.
NoShow ==
    /\ main = "showing" /\ tTodo = <<>>
    /\ ~config.display \/ ~HasImages
    /\ main' = "drawing"
    /\ UNCHANGED <<config, frameVars, captureVars, analysisVars, viewVars, canVars, telemetryVars>>

Recording == HasImages /\ config.record
Streaming == HasImages /\ streamThread # "none"

\* The video is opened with the first frame.  If that fails the frame is left
\* out and the next one is tried; a video that is open stays open.
WriteVideo ==
    IF ~Recording THEN UNCHANGED <<videoOpen, unopened, written>>
    ELSE \/ videoOpen' = TRUE /\ written' = Tracked(written, frame) /\ UNCHANGED unopened
         \/ ~videoOpen /\ unopened' = Tracked(unopened, frame) /\ UNCHANGED <<videoOpen, written>>

\* A frame that cannot be encoded is left out of the stream.
PublishImage ==
    IF ~Streaming THEN UNCHANGED <<unencoded, streamed>>
    ELSE \/ streamed' = Tracked(streamed, frame) /\ UNCHANGED unencoded
         \/ unencoded' = unencoded \cup ({frame} \ {Late}) /\ UNCHANGED streamed

\* render() for the output video and the stream.
Draw ==
    /\ main = "drawing"
    /\ WriteVideo
    /\ PublishImage
    /\ main' = "popping"
    /\ UNCHANGED <<config, frameVars, captureVars, analysisVars, invisible, userQuit, key,
                   streamThread, canVars, telemetryVars>>

\* join the capture thread; its exception is thrown again, and main() has no
\* handler for it.  Then the streamer is told to stop.
JoinCapture ==
    /\ main = "joining"
    /\ capture = "done"
    /\ main' = IF captureError THEN "aborted"
               ELSE IF streamThread = "serving" THEN "joiningStream" ELSE "reporting"
    /\ UNCHANGED <<config, frameVars, captureVars, analysisVars, viewVars, canVars,
                   telemetryVars>>

JoinStream ==
    /\ main = "joiningStream"
    /\ streamThread = "done"
    /\ main' = "reporting"
    /\ UNCHANGED <<config, frameVars, captureVars, analysisVars, viewVars, canVars,
                   telemetryVars>>

\* The status carries result.processedFrames.
ReportStatus ==
    /\ main = "reporting"
    /\ IF config.telemetry THEN Telemetry!PublishStatus(Len(analysed))
                           ELSE UNCHANGED telemetryVars
    /\ main' = IF config.telemetry THEN "stopping" ELSE "stoppingCan"
    /\ UNCHANGED <<config, frameVars, captureVars, analysisVars, viewVars, canVars>>

StopTelemetry ==
    /\ main = "stopping"
    /\ \/ Telemetry!StopCloses /\ UNCHANGED main
       \/ Telemetry!StopJoins /\ main' = "stoppingCan"
    /\ UNCHANGED <<config, frameVars, captureVars, analysisVars, viewVars, canVars>>

StopCan ==
    /\ main = "stoppingCan"
    /\ canRunning' = FALSE
    /\ main' = "joiningCan"
    /\ UNCHANGED <<config, frameVars, captureVars, analysisVars, viewVars, canVersion,
                   canThread, telemetryVars>>

\* Seeded: stop() does not join the receiver.
JoinCanFault ==
    /\ main = "joiningCan"
    /\ main' = "returned"
    /\ UNCHANGED <<config, frameVars, captureVars, analysisVars, viewVars, canVars,
                   telemetryVars>>

JoinCan ==
    /\ main = "joiningCan"
    /\ canThread # "receiving"
    /\ main' = "returned"
    /\ UNCHANGED <<config, frameVars, captureVars, analysisVars, viewVars, canVars,
                   telemetryVars>>

Main ==
    \/ StartRun \/ PopFrame \/ PopNothing \/ Analyse \/ AnalysisThrows \/ SendSummary
    \/ PushMessage \/ Show \/ NoShow \/ Draw
    \/ JoinCapture \/ JoinStream \/ ReportStatus \/ StopTelemetry \/ StopCan \/ JoinCan

----------------------------------------------------------------------------
(* The telemetry worker, the CAN receiver, the streamer and the user. *)

WorkerStep ==
    /\ Telemetry!WorkerPops \/ Telemetry!WorkerPublishes \/ Telemetry!WorkerExits
    /\ UNCHANGED <<config, frameVars, captureVars, main, analysisVars, viewVars, canVars>>

CanFrame ==
    /\ canThread = "receiving"
    /\ canVersion < MaxCanFrames
    /\ canVersion' = canVersion + 1
    /\ UNCHANGED <<config, frameVars, captureVars, main, analysisVars, viewVars, canThread,
                   canRunning, telemetryVars>>

\* The read times out or returns, and running_ is false.
CanExits ==
    /\ canThread = "receiving"
    /\ ~canRunning
    /\ canThread' = "done"
    /\ UNCHANGED <<config, frameVars, captureVars, main, analysisVars, viewVars, canVersion,
                   canRunning, telemetryVars>>

\* MjpegStreamer::serve sees that it has been stopped (VideoLink has the rest).
StreamExits ==
    /\ streamThread = "serving"
    /\ main = "joiningStream"
    /\ streamThread' = "done"
    /\ UNCHANGED <<config, frameVars, captureVars, main, analysisVars, drawingVars, invisible,
                   userQuit, key, canVars, telemetryVars>>

PressKey ==
    /\ config.display /\ main # "starting" /\ ~key /\ main # "returned"
    /\ key' = TRUE
    /\ UNCHANGED <<config, frameVars, captureVars, main, analysisVars, drawingVars, invisible,
                   userQuit, streamThread, canVars, telemetryVars>>

Ended == main \in {"returned", "aborted"}

\* std::terminate ends every thread; a run that has returned does nothing more.
Next ==
    \/ main # "aborted" /\ (Capture \/ Main \/ WorkerStep \/ CanFrame \/ CanExits
                            \/ StreamExits \/ PressKey)
    \/ Ended /\ UNCHANGED vars

(***************************************************************************)
(* Each thread is scheduled, and what it calls returns: reading a frame,   *)
(* the analysis with its HTTP timeout, a publish, a CAN read with its      *)
(* timeout (receiveTimeoutMs must not be 0), the streamer's loop.  Nothing *)
(* is assumed of the user, nor that a camera is ever gone.                 *)
(***************************************************************************)
SafeSpec == Init /\ [][Next]_vars
Spec ==
    /\ SafeSpec
    /\ WF_vars(main # "aborted" /\ Capture)
    /\ WF_vars(main # "aborted" /\ Main)
    /\ WF_vars(main # "aborted" /\ WorkerStep)
    /\ WF_vars(main # "aborted" /\ CanExits)
    /\ WF_vars(main # "aborted" /\ StreamExits)

----------------------------------------------------------------------------
\* The window is never found invisible more than once beyond the tolerance.
TypeOK ==
    /\ config \in Configs
    /\ frameItems \in Seq(1..Late) /\ frameClosed \in BOOLEAN
    /\ capture \in {"none", "opening", "reading", "pushing", "closing", "done"}
    /\ grabbed \in 0..Late /\ processed \in 0..grabbed
    /\ captureError \in BOOLEAN
    /\ main \in {"starting", "popping", "detecting", "sending", "showing", "drawing",
                 "joining", "joiningStream", "reporting", "stopping", "stoppingCan",
                 "joiningCan", "returned", "aborted"}
    /\ frame \in 0..Late /\ events \in 0..MaxEvents
    /\ snapshot \in 0..canVersion /\ canVersion \in 0..MaxCanFrames
    /\ cache \in Seq(1..Late) /\ analysed \in Seq(1..SourceFrames)
    /\ result \in Seq((1..SourceFrames) \X (1..MaxEvents))
    /\ videoOpen \in BOOLEAN
    /\ unopened \in Seq(1..SourceFrames) /\ written \in Seq(1..SourceFrames)
    /\ unencoded \subseteq 1..SourceFrames /\ streamed \in Seq(1..SourceFrames)
    /\ invisible \in 0..(InvisibleLimit + 1) /\ userQuit \in BOOLEAN /\ key \in BOOLEAN
    /\ streamThread \in {"none", "serving", "done"}
    /\ canThread \in {"none", "receiving", "done"} /\ canRunning \in BOOLEAN
    /\ tWorker \in {"none", "popping", "publishing", "done"}
    /\ tPhase \in {"created", "running", "stopping", "stopped"}

\* A run that ends by itself has analysed, in order, every frame the capture
\* thread read, the ones still queued when the source ended included; it never
\* exceeds the frame limit, a failure of the source never passes for its end, and
\* only the user ends it earlier, with a key or a window invisible for too long.
\* What fails in drawing costs only what it is about: the video may begin late,
\* with the first frame it could be opened with, and has every frame from there
\* on; the stream has every frame that could be encoded.
EveryFrameAnalysed ==
    /\ \A i \in DOMAIN analysed : analysed[i] = i
    /\ config.frameCount > 0 => Len(analysed) <= config.frameCount
    /\ userQuit => key \/ invisible > InvisibleLimit
    /\ main = "returned" => ~captureError
    /\ main = "returned" /\ ~userQuit =>
          /\ Len(analysed) = (IF grabbed = Late THEN SourceFrames ELSE grabbed)
          /\ Recording => unopened \o written = analysed
          /\ Streaming => streamed = Picked(analysed, DOMAIN analysed \ unencoded)

\* When run() returns no thread of the run is left, so nothing still uses the
\* queue or the pipeline.
NoThreadSurvives ==
    main = "returned" =>
        /\ capture = "done" /\ tWorker \in {"none", "done"}
        /\ canThread # "receiving" /\ streamThread # "serving"

\* Of the messages in s: those of one topic, the frames they are about, and
\* the events that they tell.
Topic(s, t) == Picked(s, {i \in DOMAIN s : s[i].topic = t})
FramesOf(s) == [i \in DOMAIN s |-> s[i].frame]
EventsOf(s) == [i \in DOMAIN s |-> <<s[i].frame, s[i].part>>]

\* A run that returns has handed to MQTT one summary per analysed frame, each
\* event of the result and the status, in that order and the status last, with
\* the number of frames analysed (a telemetry queue of capacity 0 keeps nothing).
TelemetryComplete ==
    main = "returned" /\ config.telemetry /\ TelemetryCapacity > 0 =>
        /\ FramesOf(Topic(tHanded, "frames")) = analysed
        /\ EventsOf(Topic(tHanded, "events")) = result
        /\ FramesOf(Topic(tHanded, "status")) = <<Len(analysed)>>
        /\ tHanded[Len(tHanded)].topic = "status"

\* To the run the publisher is an outbox, as in TelemetrySystem: at every moment,
\* and for runs too that end in an exception, what was handed over is the first
\* of what was told, and stop() returns when all of it was.
Promise == INSTANCE Outbox WITH
              Keeps <- TelemetryCapacity > 0,
              waiting <- (tHeld \o tItems) \o tTodo,
              handed <- tHanded,
              stage <- IF tPhase = "stopped" THEN "ended" ELSE IF tClosed THEN "closing" ELSE "open"
TelemetryIsOutbox == Promise!Spec

\* Who can go on: the guards of the main thread's steps, which are those of the
\* calls it makes, of the capture thread's and of the telemetry worker's.
MainGoesOn ==
    \/ main = "starting" /\ (config.telemetry => tPhase = "created")
    \/ main = "popping" /\ Queue!PopMayProceed
    \/ main \in {"detecting", "drawing", "stoppingCan"}
    \/ main \in {"sending", "reporting"} /\ (config.telemetry => tPhase = "running" /\ tTodo = <<>>)
    \/ main \in {"showing", "stopping"} /\ tTodo # <<>> /\ Telemetry!PushMayProceed
    \/ main = "showing" /\ tTodo = <<>>
    \/ main = "joining" /\ capture = "done"
    \/ main = "joiningStream" /\ streamThread = "done"
    \/ main = "stopping" /\ tPhase = "running" /\ tTodo = <<>>
    \/ main = "stopping" /\ tPhase = "stopping" /\ tWorker = "done"
    \/ main = "joiningCan" /\ canThread # "receiving"
CaptureGoesOn ==
    capture \in {"opening", "reading", "closing"} \/ (capture = "pushing" /\ Queue!PushMayProceed)
WorkerGoesOn ==
    tWorker = "publishing" \/ (tWorker = "popping" /\ Telemetry!PopMayProceed)

\* The main thread never waits in vain: where it cannot go on, the one thread
\* that it waits for can, be it the capture thread at a full queue that the user
\* has just quit, the worker while the telemetry queue is full, or a thread that
\* was told to stop.  So no two threads wait for each other.
NeverStuck ==
    \/ Ended \/ MainGoesOn
    \/ main \in {"popping", "joining"} /\ CaptureGoesOn
    \/ main \in {"showing", "stopping"} /\ WorkerGoesOn
    \/ main = "joiningStream" /\ streamThread = "serving"
    \/ main = "joiningCan" /\ canThread = "receiving" /\ ~canRunning

\* The run ends where it should: with a file, with a limit, and when the user
\* quits while there is an image in the window, even if the capture thread is
\* blocked on a full queue.
RunEnds ==
    (config.frameCount > 0 \/ config.source = "file" \/ (key /\ HasImages)) ~> Ended

\* README.md: --frames 0 goes on until the video ends, the camera is gone or the
\* user quits, and q or Esc in the live window quits.
QuitEndsRun == key ~> Ended
=============================================================================
