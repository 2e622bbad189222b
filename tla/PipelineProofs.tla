---------------------------- MODULE PipelineProofs ----------------------------
(***************************************************************************)
(* Theorems about AnalysisPipeline, for all configurations, sizes and      *)
(* bounds: no thread of a run is left when run() has returned; a run       *)
(* analyses every frame the capture thread reads; the types; telemetry     *)
(* hands over one summary per frame, every event and, last, the status;    *)
(* the main thread never waits in vain; and to the run the publisher is an *)
(* outbox, as it is in TelemetrySystem.                                    *)
(***************************************************************************)
EXTENDS AnalysisPipeline, SequenceTheorems, FiniteSetTheorems, WellFoundedInduction, TLAPS

(* The threads.  From a certain place of the main thread on each of the    *)
(* other threads is gone.                                                  *)

\* The places of the main thread behind each of its joins.
CaptureJoined == {"joiningStream"} \cup {"reporting", "stopping", "stoppingCan", "joiningCan", "returned"}
StreamJoined == {"reporting", "stopping", "stoppingCan", "joiningCan", "returned"}
WorkerJoined == {"stoppingCan", "joiningCan", "returned"}

CaptureLife ==
    /\ capture = "none" <=> main = "starting"
    /\ main \in CaptureJoined => capture = "done"
StreamLife ==
    /\ main = "starting" => streamThread = "none"
    /\ main \in StreamJoined => streamThread # "serving"
\* Without telemetry the worker never exists.
WorkerLife ==
    /\ main = "starting" \/ ~config.telemetry => tWorker = "none"
    /\ main \in WorkerJoined => tWorker \in {"none", "done"}
CanLife == main = "returned" => canThread # "receiving"

Lives == CaptureLife /\ StreamLife /\ WorkerLife /\ CanLife

LEMMA InitLives == Init => Lives
BY DEF Init, Telemetry!PublisherInit, Lives, CaptureLife, StreamLife, WorkerLife, CanLife,
       CaptureJoined, StreamJoined, WorkerJoined

\* The capture thread ends, and never begins again.
LEMMA CaptureKeepsLives == Lives /\ Capture => Lives'
<1> SUFFICES ASSUME Lives, Capture PROVE Lives'
    OBVIOUS
<1>. USE DEF Lives, CaptureLife, StreamLife, WorkerLife, CanLife,
             CaptureJoined, StreamJoined, WorkerJoined
<1>1. UNCHANGED <<config, main, streamThread, tWorker, canThread>>
    BY DEF Capture, OpenSource, ReadFrame, ReadEnds, ReadThrows, PushFrame, CloseQueue,
           viewVars, canVars, telemetryVars
<1>2. capture \notin {"none", "done"} /\ capture' # "none"
    BY DEF Capture, OpenSource, ReadFrame, ReadEnds, ReadThrows, PushFrame, CloseQueue
<1>. QED
    BY <1>1, <1>2

\* The main thread goes behind a join only when the thread it joins is done.
LEMMA MainKeepsLives == Lives /\ Main => Lives'
<1> SUFFICES ASSUME Lives, Main PROVE Lives'
    OBVIOUS
<1>. USE DEF Lives, CaptureLife, StreamLife, WorkerLife, CanLife,
             CaptureJoined, StreamJoined, WorkerJoined,
             captureVars, viewVars, canVars, telemetryVars
<1>1. CASE StartRun
    BY <1>1 DEF StartRun, Telemetry!StartThread
<1>2. CASE PopFrame \/ PopNothing
    BY <1>2 DEF PopFrame, PopNothing
<1>3. CASE Analyse \/ AnalysisThrows
    BY <1>3 DEF Analyse, AnalysisThrows
<1>4. CASE SendSummary
    BY <1>4 DEF SendSummary, Telemetry!PublishFrameSummary
<1>5. CASE PushMessage
    BY <1>5 DEF PushMessage, Telemetry!PublishAsync
<1>6. CASE Show \/ NoShow \/ Draw
    BY <1>6 DEF Show, NoShow, Draw
<1>7. CASE JoinCapture \/ JoinStream
    BY <1>7 DEF JoinCapture, JoinStream
<1>8. CASE ReportStatus
    BY <1>8 DEF ReportStatus, Telemetry!PublishStatus
<1>9. CASE StopTelemetry
    BY <1>9 DEF StopTelemetry, Telemetry!StopCloses, Telemetry!StopJoins
<1>10. CASE StopCan \/ JoinCan
    BY <1>10 DEF StopCan, JoinCan
<1>. QED
    BY <1>1, <1>2, <1>3, <1>4, <1>5, <1>6, <1>7, <1>8, <1>9, <1>10 DEF Main

\* The other threads end by themselves, and none of them begins.
LEMMA OthersKeepLives ==
    Lives /\ (WorkerStep \/ CanFrame \/ CanExits \/ StreamExits \/ PressKey) => Lives'
<1> SUFFICES ASSUME Lives, WorkerStep \/ CanFrame \/ CanExits \/ StreamExits \/ PressKey
             PROVE  Lives'
    OBVIOUS
<1>. USE DEF Lives, CaptureLife, StreamLife, WorkerLife, CanLife,
             CaptureJoined, StreamJoined, WorkerJoined,
             captureVars, viewVars, canVars, telemetryVars
<1>1. CASE WorkerStep
    BY <1>1 DEF WorkerStep, Telemetry!WorkerPops, Telemetry!WorkerPublishes,
                Telemetry!WorkerExits
<1>2. CASE CanFrame \/ CanExits
    BY <1>2 DEF CanFrame, CanExits
<1>3. CASE StreamExits \/ PressKey
    BY <1>3 DEF StreamExits, PressKey
<1>. QED
    BY <1>1, <1>2, <1>3

\* AnalysisPipeline::run returns with the capture thread, the telemetry worker,
\* the CAN receiver and the streamer's thread gone.
THEOREM NoThreadSurvivesCorrect == SafeSpec => []NoThreadSurvives
<1>1. Init => Lives
    BY InitLives
<1>2. Lives /\ [Next]_vars => Lives'
    <2> SUFFICES ASSUME Lives, [Next]_vars PROVE Lives'
        OBVIOUS
    <2>1. CASE Capture \/ Main
        BY <2>1, CaptureKeepsLives, MainKeepsLives
    <2>2. CASE WorkerStep \/ CanFrame \/ CanExits \/ StreamExits \/ PressKey
        BY <2>2, OthersKeepLives
    <2>3. CASE UNCHANGED vars
        BY <2>3 DEF vars, Lives, CaptureLife, StreamLife, WorkerLife, CanLife,
                    captureVars, viewVars, canVars, telemetryVars
    <2>. QED
        BY <2>1, <2>2, <2>3 DEF Next
<1>3. Lives => NoThreadSurvives
    BY DEF Lives, CaptureLife, StreamLife, WorkerLife, CanLife, CaptureJoined, StreamJoined,
           WorkerJoined, NoThreadSurvives
<1>. QED
    BY <1>1, <1>2, <1>3, PTL DEF SafeSpec

----------------------------------------------------------------------------
(* The frames, followed from the source through the queue to the main      *)
(* thread: all that is read is analysed, in order and within the limit,    *)
(* unless the user quits.                                                  *)

\* The frame after f, and how many of the frames told apart come up to f.
Following(f) == IF f = Late THEN Late ELSE f + 1
UpTo(f) == IF f = Late THEN SourceFrames ELSE f

\* The last frame pushed: the newest one queued, or else the one taken.
LastPushed == IF frameItems = <<>> THEN frame ELSE frameItems[Len(frameItems)]

FrameTypes ==
    /\ config \in Configs
    /\ frameItems \in Seq(1..Late) /\ grabbed \in 0..Late /\ frame \in 0..Late
    /\ processed \in Nat /\ analysed \in Seq(Nat)
    /\ userQuit \in BOOLEAN /\ captureError \in BOOLEAN

\* The frames in the queue follow the one taken and each other without a gap.
QueueInOrder ==
    /\ frameItems # <<>> => frameItems[1] = Following(frame)
    /\ \A i \in 1..(Len(frameItems) - 1) : frameItems[i + 1] = Following(frameItems[i])

\* What is read and not pushed is in the capture thread's hand, or the user has quit.
Pushed ==
    /\ capture \in {"none", "opening", "reading"} => grabbed = LastPushed
    /\ capture = "pushing" => grabbed = Following(LastPushed)
    /\ capture \in {"closing", "done"} => grabbed = LastPushed \/ userQuit

\* No frame has a greater number than the frames counted, which keep the limit.
WithinLimit ==
    config.frameCount > 0 =>
        /\ processed <= config.frameCount
        /\ capture = "pushing" => processed < config.frameCount
        /\ frame <= processed
        /\ \A i \in 1..Len(frameItems) : frameItems[i] <= processed

\* Only the end of the source or the user closes the queue, and the main loop
\* ends by itself only when it is empty for good.
AfterLoop == {"joining"} \cup CaptureJoined
ClosedForAReason == frameClosed => capture = "done" \/ userQuit
Emptied == main \in AfterLoop => userQuit \/ (capture = "done" /\ frameItems = <<>>)
ErrorSeen == main \in CaptureJoined => ~captureError

\* The frames analysed are those up to the one taken.
AnalysedInOrder ==
    /\ \A i \in 1..Len(analysed) : analysed[i] = i
    /\ Len(analysed) <= frame
    /\ main # "aborted" =>
          Len(analysed) = (IF main = "detecting" /\ frame # Late THEN frame - 1 ELSE UpTo(frame))

FramesInv ==
    /\ FrameTypes /\ QueueInOrder /\ Pushed /\ WithinLimit /\ ClosedForAReason
    /\ Emptied /\ ErrorSeen /\ AnalysedInOrder

LEMMA LateType == Late \in Nat /\ Late > 0 /\ SourceFrames = Late - 1 /\ SourceFrames \in Nat
BY SizesAssumption DEF Late

LEMMA ConfigTypes == ASSUME FrameTypes PROVE config.frameCount \in Int
BY ConfigsAssumption DEF FrameTypes, Config

LEMMA InitFrames == Init => FramesInv
<1> SUFFICES ASSUME Init PROVE FramesInv
    OBVIOUS
<1>. USE LateType DEF Init, Queue!QueueInit
<1>1. FrameTypes
    <2>1. config \in Configs /\ grabbed \in 0..Late /\ frame \in 0..Late /\ processed \in Nat
        OBVIOUS
    <2>2. frameItems \in Seq(1..Late) /\ analysed \in Seq(Nat)
        OBVIOUS
    <2>3. userQuit \in BOOLEAN /\ captureError \in BOOLEAN
        OBVIOUS
    <2>. QED
        BY <2>1, <2>2, <2>3 DEF FrameTypes
<1>2. QueueInOrder /\ Pushed /\ WithinLimit
    BY <1>1, ConfigTypes DEF QueueInOrder, Pushed, WithinLimit, LastPushed
<1>3. ClosedForAReason /\ Emptied /\ ErrorSeen /\ AnalysedInOrder
    BY DEF ClosedForAReason, Emptied, ErrorSeen, AnalysedInOrder, AfterLoop,
           CaptureJoined, UpTo, Late
<1>. QED
    BY <1>1, <1>2, <1>3 DEF FramesInv

\* The capture thread: what it reads follows what it pushed, and it counts.
LEMMA CaptureKeepsFrames == FramesInv /\ Lives /\ Capture => FramesInv'
<1> SUFFICES ASSUME FramesInv, Lives, Capture PROVE FramesInv'
    OBVIOUS
<1>. USE LateType DEF FramesInv
<1>. DEFINE Kept == <<config, main, frame, analysed, userQuit>>
<1>1. UNCHANGED Kept
    BY DEF Capture, OpenSource, ReadFrame, ReadEnds, ReadThrows, PushFrame, CloseQueue,
           analysisVars, viewVars
<1>2. config.frameCount \in Int
    BY ConfigTypes
<1>3. AnalysedInOrder'
    BY <1>1 DEF AnalysedInOrder, UpTo
<1>4. main \notin CaptureJoined
    BY DEF Lives, CaptureLife, Capture, OpenSource, ReadFrame, ReadEnds, ReadThrows, PushFrame,
           CloseQueue
<1>5. ErrorSeen'
    BY <1>1, <1>4 DEF ErrorSeen
<1>6. main \in AfterLoop => userQuit
    BY DEF Emptied, Capture, OpenSource, ReadFrame, ReadEnds, ReadThrows, PushFrame,
           CloseQueue
<1>7. Emptied'
    BY <1>1, <1>6 DEF Emptied
<1>8. CASE OpenSource \/ ReadEnds \/ ReadThrows
    <2>1. UNCHANGED <<frameItems, frameClosed, grabbed, processed>>
        BY <1>8 DEF OpenSource, ReadEnds, ReadThrows, frameVars
    <2>2. capture \in {"opening", "reading"} /\ capture' \in {"reading", "closing"}
        BY <1>8 DEF OpenSource, ReadEnds, ReadThrows
    <2>3. captureError' \in BOOLEAN
        BY <1>8 DEF OpenSource, ReadEnds, ReadThrows, FrameTypes
    <2>. QED
        BY <1>1, <1>3, <1>5, <1>7, <2>1, <2>2, <2>3
        DEF FrameTypes, QueueInOrder, Pushed, WithinLimit, ClosedForAReason, LastPushed, Following
<1>9. CASE ReadFrame
    <2>1. /\ UNCHANGED <<frameItems, frameClosed, processed, captureError>>
          /\ capture = "reading" /\ capture' = "pushing"
          /\ grabbed' = Following(grabbed) /\ ~LimitReached
        BY <1>9 DEF ReadFrame, frameVars, Following, FrameTypes
    <2>2. grabbed' \in 0..Late
        BY <2>1 DEF Following, FrameTypes
    <2>3. WithinLimit'
        BY <1>1, <1>2, <2>1 DEF WithinLimit, LimitReached, FrameTypes
    <2>. QED
        BY <1>1, <1>3, <1>5, <1>7, <2>1, <2>2, <2>3
        DEF FrameTypes, QueueInOrder, Pushed, ClosedForAReason, LastPushed, Following
<1>10. CASE PushFrame /\ Queue!Store(grabbed)
    <2>1. /\ frameItems' = Append(frameItems, grabbed) /\ ~frameClosed'
          /\ capture = "pushing" /\ capture' = "reading"
          /\ UNCHANGED <<grabbed, captureError>>
          /\ processed' = IF config.frameCount > 0 THEN processed + 1 ELSE processed
        BY <1>10 DEF PushFrame, Queue!Store, Queue!Refuse
    <2>2. grabbed = Following(LastPushed) /\ grabbed \in 1..Late
        BY <2>1 DEF Pushed, FrameTypes, Following, LastPushed
    <2>3. FrameTypes'
        BY <1>1, <2>1, <2>2 DEF FrameTypes
    <2>4. QueueInOrder'
        BY <1>1, <2>1, <2>2 DEF QueueInOrder, FrameTypes, LastPushed, Following
    <2>5. Pushed'
        BY <1>1, <2>1, <2>2 DEF Pushed, LastPushed, FrameTypes
    <2>6. WithinLimit'
        <3> SUFFICES ASSUME config.frameCount > 0 PROVE WithinLimit'
            BY <1>1 DEF WithinLimit
        <3>1. processed \in Nat /\ processed < config.frameCount /\ processed' = processed + 1
            BY <2>1 DEF WithinLimit, FrameTypes
        <3>2. LastPushed <= processed /\ LastPushed \in Nat
            BY DEF WithinLimit, LastPushed, FrameTypes
        <3>3. grabbed <= processed'
            BY <2>2, <3>1, <3>2 DEF Following
        <3>4. \A i \in 1..Len(frameItems') : frameItems'[i] <= processed'
            BY <2>1, <3>1, <3>3 DEF WithinLimit, FrameTypes
        <3>. QED
            BY <1>1, <1>2, <2>1, <3>1, <3>4 DEF WithinLimit, FrameTypes
    <2>. QED
        BY <1>3, <1>5, <1>7, <2>1, <2>3, <2>4, <2>5, <2>6 DEF ClosedForAReason
<1>11. CASE (PushFrame /\ Queue!Refuse) \/ CloseQueue
    <2>1. /\ UNCHANGED <<frameItems, grabbed, captureError, processed>>
          /\ \/ capture = "pushing" /\ capture' = "closing" /\ frameClosed /\ frameClosed'
             \/ capture = "closing" /\ capture' = "done"
        BY <1>11 DEF PushFrame, CloseQueue, Queue!Refuse, Queue!Store, Queue!Shut, Queue!queue
    <2>2. WithinLimit' /\ QueueInOrder'
        BY <1>1, <2>1 DEF WithinLimit, QueueInOrder, Following
    <2>. QED
        BY <1>1, <1>3, <1>5, <1>7, <2>1, <2>2
        DEF FrameTypes, Pushed, ClosedForAReason, LastPushed
<1>. QED
    BY <1>8, <1>9, <1>10, <1>11 DEF Capture, PushFrame

\* What is left of a sequence ends as the sequence does.
LEMMA TailLast ==
    ASSUME NEW S, NEW s \in Seq(S), s # <<>>
    PROVE  /\ Len(s) = 1 => Tail(s) = <<>>
           /\ Len(s) # 1 => Tail(s) # <<>> /\ Tail(s)[Len(Tail(s))] = s[Len(s)]
<1>1. Len(s) \in Nat \ {0} /\ Tail(s) \in Seq(S) /\ Len(Tail(s)) = Len(s) - 1
    BY EmptySeq, HeadTailProperties
<1>2. Len(Tail(s)) = 0 <=> Tail(s) = <<>>
    BY <1>1, EmptySeq
<1>3. Len(s) # 1 => Tail(s)[Len(Tail(s))] = s[Len(Tail(s)) + 1]
    BY <1>1, HeadTailProperties
<1>. QED
    BY <1>1, <1>2, <1>3

\* The main thread up to the point where its analysis of a frame is complete.
LEMMA AnalysisKeepsFrames ==
    FramesInv /\ Lives /\ (StartRun \/ PopFrame \/ Analyse \/ AnalysisThrows) => FramesInv'
<1> SUFFICES ASSUME FramesInv, Lives, StartRun \/ PopFrame \/ Analyse \/ AnalysisThrows
             PROVE  FramesInv'
    OBVIOUS
<1>. USE LateType DEF FramesInv, AfterLoop, CaptureJoined
<1>1. CASE StartRun
    <2>1. /\ UNCHANGED <<config, frameItems, frameClosed, processed, grabbed, captureError,
                         frame, analysed, userQuit>>
          /\ main = "starting" /\ main' = "popping" /\ capture = "none" /\ capture' = "opening"
        BY <1>1 DEF StartRun, frameVars, analysisVars, Lives, CaptureLife
    <2>. QED
        BY <2>1 DEF FrameTypes, QueueInOrder, Pushed, WithinLimit, ClosedForAReason, Emptied,
                    ErrorSeen, AnalysedInOrder, LastPushed, Following, UpTo
<1>2. CASE PopFrame
    <2>1. /\ UNCHANGED <<config, frameClosed, capture, processed, grabbed, captureError,
                         analysed, userQuit>>
          /\ main = "popping" /\ main' = "detecting"
          /\ frameItems # <<>> /\ frame' = Head(frameItems) /\ frameItems' = Tail(frameItems)
        BY <1>2 DEF PopFrame, Queue!Take, captureVars, viewVars
    <2>2. frame' = Following(frame) /\ frame' \in 1..Late
        BY <2>1 DEF QueueInOrder, FrameTypes
    <2>3. FrameTypes'
        BY <2>1, <2>2 DEF FrameTypes
    <2>4. QueueInOrder'
        <3>1. /\ frameItems \in Seq(1..Late) /\ Len(frameItems) \in Nat \ {0}
              /\ frameItems' \in Seq(1..Late) /\ Len(frameItems') = Len(frameItems) - 1
            BY <2>1, EmptySeq, HeadTailProperties DEF FrameTypes
        <3>2. \A i \in 1..Len(frameItems') : frameItems'[i] = frameItems[i + 1]
            BY <2>1, <3>1, HeadTailProperties
        <3>3. frameItems' # <<>> => frameItems'[1] = Following(frame')
            <4>1. frameItems' # <<>> => Len(frameItems') > 0
                BY <3>1, EmptySeq
            <4>2. frame' = frameItems[1]
                BY <2>1, <3>1
            <4>3. Len(frameItems) > 1 => frameItems[1 + 1] = Following(frameItems[1])
                BY <3>1 DEF QueueInOrder
            <4>. QED
                BY <3>1, <3>2, <4>1, <4>2, <4>3 DEF Following
        <3>4. ASSUME NEW i \in 1..(Len(frameItems') - 1)
              PROVE  frameItems'[i + 1] = Following(frameItems'[i])
            <4>1. i + 1 \in 1..(Len(frameItems) - 1)
                BY <3>1
            <4>2. frameItems[(i + 1) + 1] = Following(frameItems[i + 1])
                BY <4>1 DEF QueueInOrder
            <4>3. i \in 1..Len(frameItems') /\ i + 1 \in 1..Len(frameItems')
                BY <3>1
            <4>. QED
                BY <3>2, <4>2, <4>3
        <3>. QED
            BY <3>3, <3>4 DEF QueueInOrder, Following
    <2>5. LastPushed' = LastPushed
        <3>1. frameItems \in Seq(1..Late)
            BY DEF FrameTypes
        <3>2. /\ Len(frameItems) = 1 => frameItems' = <<>>
              /\ Len(frameItems) # 1 =>
                    frameItems' # <<>> /\ frameItems'[Len(frameItems')] = frameItems[Len(frameItems)]
            BY <2>1, <3>1, TailLast
        <3>3. frame' = frameItems[1]
            BY <2>1, <3>1
        <3>. QED
            BY <2>1, <3>2, <3>3 DEF LastPushed
    <2>6. Pushed' /\ ClosedForAReason'
        BY <2>1, <2>5 DEF Pushed, ClosedForAReason, Following
    <2>7. WithinLimit'
        BY <2>1 DEF WithinLimit, FrameTypes
    <2>8. AnalysedInOrder'
        BY <2>1, <2>2 DEF AnalysedInOrder, Following, UpTo, FrameTypes
    <2>9. Emptied' /\ ErrorSeen'
        BY <2>1 DEF Emptied, ErrorSeen
    <2>. QED
        BY <2>3, <2>4, <2>6, <2>7, <2>8, <2>9
<1>3. CASE Analyse
    <2>1. /\ UNCHANGED <<config, frameItems, frameClosed, capture, processed, grabbed,
                         captureError, frame, userQuit>>
          /\ main = "detecting" /\ main' = "sending" /\ analysed' = Tracked(analysed, frame)
        BY <1>3 DEF Analyse, frameVars, captureVars, viewVars
    <2>2. frame # Late => frame = Len(analysed) + 1
        BY <2>1 DEF AnalysedInOrder, FrameTypes
    <2>3. AnalysedInOrder' /\ analysed' \in Seq(Nat)
        BY <2>1, <2>2 DEF AnalysedInOrder, Tracked, UpTo, FrameTypes
    <2>. QED
        BY <2>1, <2>3 DEF FrameTypes, QueueInOrder, Pushed, WithinLimit, ClosedForAReason,
                          Emptied, ErrorSeen, LastPushed, Following
<1>4. CASE AnalysisThrows
    <2>1. /\ UNCHANGED <<config, frameItems, frameClosed, capture, processed, grabbed,
                         captureError, frame, analysed, userQuit>>
          /\ main' = "aborted"
        BY <1>4 DEF AnalysisThrows, frameVars, captureVars, analysisVars, viewVars
    <2>. QED
        BY <2>1 DEF FrameTypes, QueueInOrder, Pushed, WithinLimit, ClosedForAReason, Emptied,
                    ErrorSeen, AnalysedInOrder, LastPushed, Following
<1>. QED
    BY <1>1, <1>2, <1>3, <1>4

\* From the summary to the drawing, and the two ways out of the loop.
LEMMA ShowingKeepsFrames ==
    FramesInv /\ (SendSummary \/ PushMessage \/ Show \/ NoShow \/ Draw \/ PopNothing) => FramesInv'
<1> SUFFICES ASSUME FramesInv, SendSummary \/ PushMessage \/ Show \/ NoShow \/ Draw \/ PopNothing
             PROVE  FramesInv'
    OBVIOUS
<1>. USE LateType DEF FramesInv, AfterLoop, CaptureJoined
<1>1. UNCHANGED <<config, frameItems, capture, processed, grabbed, captureError, frame,
                  analysed>>
    BY DEF SendSummary, PushMessage, Show, NoShow, Draw, PopNothing, Queue!Drained, Queue!Shut,
           Queue!queue, frameVars, captureVars, analysisVars, viewVars
<1>2. QueueInOrder' /\ WithinLimit'
    BY <1>1 DEF QueueInOrder, WithinLimit, Following
<1>3. main # "aborted" /\ main # "detecting" /\ main' # "detecting" /\ AnalysedInOrder'
    BY <1>1 DEF SendSummary, PushMessage, Show, NoShow, Draw, PopNothing, AnalysedInOrder, UpTo
<1>4. CASE SendSummary \/ PushMessage \/ NoShow
    <2>1. /\ UNCHANGED <<frameClosed, userQuit>>
          /\ \/ main' = main
             \/ main \in {"sending", "showing"} /\ main' \in {"showing", "drawing"}
        BY <1>4 DEF SendSummary, PushMessage, NoShow, frameVars, viewVars
    <2>. QED
        BY <1>1, <1>2, <1>3, <2>1 DEF FrameTypes, Pushed, ClosedForAReason, Emptied, ErrorSeen,
                                      LastPushed, Following
<1>5. CASE Show
    <2>1. /\ main = "showing"
          /\ \/ main' = "drawing" /\ UNCHANGED <<frameClosed, userQuit>>
             \/ main' = "joining" /\ userQuit' = TRUE
        BY <1>5 DEF Show, Queue!Shut, frameVars
    <2>2. FrameTypes' /\ Pushed'
        BY <1>1, <2>1 DEF FrameTypes, Pushed, LastPushed, Following
    <2>3. ClosedForAReason' /\ Emptied' /\ ErrorSeen'
        BY <1>1, <2>1 DEF ClosedForAReason, Emptied, ErrorSeen
    <2>. QED
        BY <1>2, <1>3, <2>2, <2>3
<1>6. CASE Draw
    <2>1. /\ UNCHANGED <<frameClosed, userQuit>>
          /\ main = "drawing" /\ main' = "popping"
        BY <1>6 DEF Draw, frameVars
    <2>. QED
        BY <1>1, <1>2, <1>3, <2>1 DEF FrameTypes, Pushed, ClosedForAReason, Emptied, ErrorSeen,
                                      LastPushed, Following
<1>7. CASE PopNothing
    <2>1. /\ UNCHANGED <<frameClosed, userQuit>>
          /\ frameItems = <<>> /\ frameClosed /\ main = "popping" /\ main' = "joining"
        BY <1>7 DEF PopNothing, Queue!Drained, Queue!PopMayProceed, Queue!queue, viewVars
    <2>. QED
        BY <1>1, <1>2, <1>3, <2>1 DEF FrameTypes, Pushed, ClosedForAReason, Emptied, ErrorSeen,
                                      LastPushed, Following
<1>. QED
    BY <1>4, <1>5, <1>6, <1>7

\* After the loop, and the other threads: no frame moves any more.
Closing == JoinCapture \/ JoinStream \/ ReportStatus \/ StopTelemetry \/ StopCan \/ JoinCan
Others == WorkerStep \/ CanFrame \/ CanExits \/ StreamExits \/ PressKey

LEMMA ClosingKeepsFrames == FramesInv /\ (Closing \/ Others) => FramesInv'
<1> SUFFICES ASSUME FramesInv, Closing \/ Others PROVE FramesInv'
    OBVIOUS
<1>. USE LateType DEF FramesInv, AfterLoop, CaptureJoined
<1>1. UNCHANGED <<config, frameItems, frameClosed, capture, processed, grabbed, captureError,
                  frame, analysed, userQuit>>
    BY DEF Closing, JoinCapture, JoinStream, ReportStatus, StopTelemetry, StopCan, JoinCan,
           Others, WorkerStep, CanFrame, CanExits, StreamExits, PressKey,
           frameVars, captureVars, analysisVars, viewVars
<1>2. \/ UNCHANGED main
      \/ /\ main \in AfterLoop
         /\ main' = "aborted" \/ (main' \in CaptureJoined /\ (main \in CaptureJoined \/ ~captureError))
    BY DEF Closing, JoinCapture, JoinStream, ReportStatus, StopTelemetry, StopCan, JoinCan,
           Others, WorkerStep, CanFrame, CanExits, StreamExits, PressKey
<1>5. AnalysedInOrder'
    BY <1>1, <1>2 DEF AnalysedInOrder, UpTo
<1>6. Emptied' /\ ErrorSeen'
    BY <1>1, <1>2 DEF Emptied, ErrorSeen
<1>. QED
    BY <1>1, <1>5, <1>6 DEF FrameTypes, QueueInOrder, Pushed, WithinLimit, ClosedForAReason,
                            LastPushed, Following

LEMMA StepKeepsFrames == FramesInv /\ Lives /\ [Next]_vars => FramesInv' /\ Lives'
<1> SUFFICES ASSUME FramesInv, Lives, [Next]_vars PROVE FramesInv' /\ Lives'
    OBVIOUS
<1>1. CASE Capture
    BY <1>1, CaptureKeepsFrames, CaptureKeepsLives
<1>2. CASE Main
    BY <1>2, AnalysisKeepsFrames, ShowingKeepsFrames, ClosingKeepsFrames, MainKeepsLives
    DEF Main, Closing
<1>3. CASE Others
    BY <1>3, ClosingKeepsFrames, OthersKeepLives DEF Others
<1>4. CASE UNCHANGED vars
    <2>1. Lives'
        BY <1>4 DEF vars, Lives, CaptureLife, StreamLife, WorkerLife, CanLife,
                    captureVars, viewVars, canVars, telemetryVars
    <2>2. FramesInv'
        BY <1>4 DEF vars, FramesInv, FrameTypes, QueueInOrder, Pushed, WithinLimit,
                    ClosedForAReason, Emptied, ErrorSeen, AnalysedInOrder, UpTo, Following, LastPushed,
                    frameVars, captureVars, analysisVars, viewVars
    <2>. QED
        BY <2>1, <2>2
<1>. QED
    BY <1>1, <1>2, <1>3, <1>4 DEF Next, Others

----------------------------------------------------------------------------
(* The types.  What they say beyond types: the capture thread counts no    *)
(* more frames than it reads, and a window is not looked at again once it  *)
(* has been invisible too often.                                           *)

\* Where the threads are.
Places ==
    /\ capture \in {"none", "opening", "reading", "pushing", "closing", "done"}
    /\ main \in {"starting", "popping", "detecting", "sending", "showing", "drawing",
                 "joining", "joiningStream", "reporting", "stopping", "stoppingCan",
                 "joiningCan", "returned", "aborted"}
    /\ frameClosed \in BOOLEAN /\ key \in BOOLEAN
    /\ streamThread \in {"none", "serving", "done"}
    /\ canThread \in {"none", "receiving", "done"} /\ canRunning \in BOOLEAN
    /\ tWorker \in {"none", "popping", "publishing", "done"}
    /\ tPhase \in {"created", "running", "stopping", "stopped"}

\* A frame counted is one that was read: the one in the thread's hand is not
\* counted yet, and without a limit none is.
Counted ==
    /\ processed <= grabbed
    /\ config.frameCount <= 0 => processed = 0
    /\ capture = "pushing" /\ config.frameCount > 0 => processed < grabbed

\* Beyond the tolerance the loop is over.
Tolerated ==
    /\ invisible \in 0..(InvisibleLimit + 1)
    /\ invisible = InvisibleLimit + 1 => main \in AfterLoop \cup {"aborted"}

\* What the analysis of a frame has yielded.
Figures ==
    /\ events \in 0..MaxEvents
    /\ canVersion \in 0..MaxCanFrames /\ snapshot \in 0..canVersion

Histories ==
    /\ main \in {"detecting", "sending", "showing", "drawing"} => frame \in 1..Late
    /\ cache \in Seq(1..Late)
    /\ analysed \in Seq(1..SourceFrames)
    /\ result \in Seq((1..SourceFrames) \X (1..MaxEvents))

\* What was made of the frames that were drawn.
Drawings ==
    /\ videoOpen \in BOOLEAN
    /\ unopened \in Seq(1..SourceFrames) /\ written \in Seq(1..SourceFrames)
    /\ unencoded \subseteq 1..SourceFrames /\ streamed \in Seq(1..SourceFrames)

TypesInv == Places /\ Counted /\ Tolerated /\ Figures /\ Histories /\ Drawings

LEMMA InitTypes == Init => TypesInv
<1> SUFFICES ASSUME Init PROVE TypesInv
    OBVIOUS
<1>. USE SizesAssumption DEF Init
<1>1. Places
    BY DEF Places, Queue!QueueInit, Telemetry!PublisherInit
<1>2. Counted /\ Tolerated /\ Figures
    BY DEF Counted, Tolerated, Figures
<1>3. Histories /\ Drawings
    BY EmptySeq DEF Histories, Drawings
<1>. QED
    BY <1>1, <1>2, <1>3 DEF TypesInv

LEMMA CaptureKeepsTypes ==
    FramesInv /\ FramesInv' /\ TypesInv /\ Capture => TypesInv'
<1> SUFFICES ASSUME FramesInv, FramesInv', TypesInv, Capture PROVE TypesInv'
    OBVIOUS
<1>. USE DEF TypesInv
<1>1. UNCHANGED <<config, main, analysisVars, viewVars, canVars, telemetryVars>>
    BY DEF Capture, OpenSource, ReadFrame, ReadEnds, ReadThrows, PushFrame, CloseQueue
<1>2. Tolerated' /\ Figures' /\ Histories' /\ Drawings'
    BY <1>1 DEF Tolerated, Figures, Histories, Drawings, analysisVars, viewVars, drawingVars, canVars
<1>3. /\ capture' \in {"reading", "pushing", "closing", "done"}
      /\ frameClosed' \in BOOLEAN
    BY DEF Places, Capture, OpenSource, ReadFrame, ReadEnds, ReadThrows, PushFrame, CloseQueue,
           Queue!Store, Queue!Refuse, Queue!Shut, Queue!queue, frameVars
<1>4. Places'
    BY <1>1, <1>3 DEF Places, viewVars, canVars, telemetryVars
<1>5. config.frameCount \in Int /\ config' = config /\ processed \in Nat /\ grabbed \in 0..Late
    BY <1>1, ConfigTypes DEF FramesInv, FrameTypes
<1>6. CASE OpenSource \/ ReadEnds \/ ReadThrows \/ CloseQueue \/ (PushFrame /\ Queue!Refuse)
    <2>1. UNCHANGED <<processed, grabbed>> /\ capture' # "pushing"
        BY <1>6 DEF OpenSource, ReadEnds, ReadThrows, CloseQueue, PushFrame, Queue!Refuse,
                    Queue!Store
    <2>. QED
        BY <1>2, <1>4, <1>5, <2>1 DEF Counted
<1>7. CASE ReadFrame
    <2>1. /\ processed' = processed /\ ~LimitReached
          /\ grabbed' = IF grabbed = Late THEN Late ELSE grabbed + 1
        BY <1>7 DEF ReadFrame
    <2>2. grabbed = Late /\ config.frameCount > 0 => processed < Late
        <3>1. config \in Config /\ (config.source # "file" => config.frameCount <= SourceFrames)
            BY ConfigsAssumption DEF FramesInv, FrameTypes
        <3>2. config.source = "file" => grabbed < SourceFrames
            BY <1>7 DEF ReadFrame
        <3>. QED
            BY <1>5, <2>1, <3>1, <3>2, LateType DEF LimitReached
    <2>3. Counted'
        BY <1>5, <2>1, <2>2, LateType DEF Counted
    <2>. QED
        BY <1>2, <1>4, <2>3
<1>8. CASE PushFrame /\ Queue!Store(grabbed)
    <2>1. /\ grabbed' = grabbed /\ capture = "pushing" /\ capture' = "reading"
          /\ processed' = IF config.frameCount > 0 THEN processed + 1 ELSE processed
        BY <1>8 DEF PushFrame, Queue!Store, Queue!Refuse
    <2>2. Counted'
        BY <1>5, <2>1 DEF Counted
    <2>. QED
        BY <1>2, <1>4, <2>2
<1>. QED
    BY <1>6, <1>7, <1>8 DEF Capture, PushFrame

\* A frame goes to the end of a history, unless it is one of the late ones.
LEMMA TrackedType ==
    ASSUME NEW h \in Seq(1..SourceFrames), NEW f \in 1..Late
    PROVE  Tracked(h, f) \in Seq(1..SourceFrames)
<1>1. CASE f = Late
    BY <1>1 DEF Tracked
<1>2. CASE f # Late
    <2>1. f \in 1..SourceFrames
        BY <1>2, LateType
    <2>. QED
        BY <1>2, <2>1, AppendProperties DEF Tracked
<1>. QED
    BY <1>1, <1>2

LEMMA MainKeepsPlaces == Lives /\ Places /\ Main => Places'
<1> SUFFICES ASSUME Lives, Places, Main PROVE Places'
    OBVIOUS
<1>. USE DEF Places
<1>1. UNCHANGED key
    BY DEF Main, StartRun, PopFrame, PopNothing, Analyse, AnalysisThrows, SendSummary, PushMessage,
           Show, NoShow, Draw, JoinCapture, JoinStream, ReportStatus, StopTelemetry, StopCan,
           JoinCan, viewVars
<1>2. CASE StartRun
    <2>1. UNCHANGED frameClosed /\ capture' = "opening" /\ main' = "popping"
        BY <1>2 DEF StartRun, frameVars
    <2>2. /\ streamThread' \in {"none", "serving"}
          /\ canThread' \in {"none", "receiving", "done"} /\ canRunning' \in BOOLEAN
        BY <1>2 DEF StartRun
    <2>3. /\ tWorker' \in {"none", "popping", "publishing", "done"}
          /\ tPhase' \in {"created", "running", "stopping", "stopped"}
        BY <1>2 DEF StartRun, Telemetry!StartThread, telemetryVars
    <2>. QED
        BY <1>1, <2>1, <2>2, <2>3
<1>3. CASE PopFrame \/ PopNothing
    BY <1>1, <1>3 DEF PopFrame, PopNothing, Queue!Take, Queue!Drained, Queue!queue,
                      captureVars, viewVars, canVars, telemetryVars
<1>4. CASE Analyse \/ AnalysisThrows \/ NoShow \/ Draw
    BY <1>1, <1>4 DEF Analyse, AnalysisThrows, NoShow, Draw, frameVars, captureVars, viewVars,
                      canVars, telemetryVars
<1>5. CASE SendSummary \/ PushMessage \/ ReportStatus \/ StopTelemetry
    <2>1. UNCHANGED <<frameVars, captureVars, viewVars, canVars>>
        BY <1>5 DEF SendSummary, PushMessage, ReportStatus, StopTelemetry
    <2>2. main' \in {"showing", "stopping", "stoppingCan"}
        BY <1>5 DEF SendSummary, PushMessage, ReportStatus, StopTelemetry
    <2>3. tWorker' = tWorker /\ tPhase' \in {tPhase, "stopping", "stopped"}
        BY <1>5 DEF SendSummary, PushMessage, ReportStatus, StopTelemetry,
                    Telemetry!PublishFrameSummary, Telemetry!PublishAsync,
                    Telemetry!PublishStatus, Telemetry!StopCloses, Telemetry!StopJoins,
                    telemetryVars
    <2>. QED
        BY <2>1, <2>2, <2>3 DEF frameVars, captureVars, viewVars, canVars
<1>6. CASE Show
    <2>1. UNCHANGED <<captureVars, streamThread, canVars, telemetryVars>>
        BY <1>6 DEF Show
    <2>2. main' \in {"drawing", "joining"} /\ frameClosed' \in BOOLEAN
        BY <1>6 DEF Show, Queue!Shut, frameVars
    <2>. QED
        BY <1>1, <2>1, <2>2 DEF captureVars, canVars, telemetryVars
<1>7. CASE JoinCapture \/ JoinStream \/ StopCan \/ JoinCan
    BY <1>1, <1>7 DEF JoinCapture, JoinStream, StopCan, JoinCan, frameVars, captureVars,
                      viewVars, canVars, telemetryVars
<1>. QED
    BY <1>2, <1>3, <1>4, <1>5, <1>6, <1>7 DEF Main

\* The loop's steps that change a history, a figure or the invisible checks.
LEMMA MainKeepsHistories ==
    ASSUME FramesInv, FramesInv', TypesInv, Main
    PROVE  Counted' /\ Tolerated' /\ Figures' /\ Histories' /\ Drawings'
<1>. USE SizesAssumption DEF TypesInv, AfterLoop, CaptureJoined
<1>1. UNCHANGED <<config, processed, grabbed, canVersion>>
    BY DEF Main, StartRun, PopFrame, PopNothing, Analyse, AnalysisThrows, SendSummary, PushMessage,
           Show, NoShow, Draw, JoinCapture, JoinStream, ReportStatus, StopTelemetry, StopCan,
           JoinCan, captureVars, canVars
<1>2. Counted'
    <2>1. capture' \in {capture, "opening"}
        BY DEF Main, StartRun, PopFrame, PopNothing, Analyse, AnalysisThrows, SendSummary,
               PushMessage, Show, NoShow, Draw, JoinCapture, JoinStream, ReportStatus,
               StopTelemetry, StopCan, JoinCan, captureVars
    <2>. QED
        BY <1>1, <2>1 DEF Counted
<1>3. CASE PopFrame
    <2>1. /\ UNCHANGED <<events, snapshot, result, analysed, drawingVars, invisible>>
          /\ main = "popping" /\ main' = "detecting" /\ frameItems # <<>>
          /\ frame' = Head(frameItems) /\ cache' = CachePush(Head(frameItems))
        BY <1>3 DEF PopFrame, Queue!Take, viewVars
    <2>2. Head(frameItems) \in 1..Late
        <3>1. frameItems \in Seq(1..Late)
            BY DEF FramesInv, FrameTypes
        <3>. QED
            BY <2>1, <3>1, HeadTailProperties
    <2>3. cache' \in Seq(1..Late)
        <3>1. cache \in Seq(1..Late)
            BY DEF Histories
        <3>2. CASE CacheCapacity = 0
            BY <2>1, <3>1, <3>2 DEF CachePush
        <3>3. CASE CacheCapacity # 0 /\ Len(cache) = CacheCapacity
            <4>1. cache # <<>>
                BY <3>3, EmptySeq
            <4>2. Tail(cache) \in Seq(1..Late)
                BY <3>1, <4>1, HeadTailProperties
            <4>. QED
                BY <2>1, <2>2, <3>3, <4>2, AppendProperties DEF CachePush
        <3>4. CASE CacheCapacity # 0 /\ Len(cache) # CacheCapacity
            BY <2>1, <2>2, <3>1, <3>4, AppendProperties DEF CachePush
        <3>. QED
            BY <3>2, <3>3, <3>4
    <2>4. Histories'
        BY <2>1, <2>2, <2>3 DEF Histories
    <2>5. Tolerated' /\ Figures'
        BY <1>1, <2>1 DEF Tolerated, Figures
    <2>6. Drawings'
        BY <2>1 DEF Drawings, drawingVars
    <2>. QED
        BY <1>2, <2>4, <2>5, <2>6
<1>4. CASE Analyse
    <2>1. /\ UNCHANGED <<frame, cache, drawingVars, invisible>>
          /\ main = "detecting" /\ main' = "sending"
          /\ snapshot' = canVersion /\ events' \in 0..MaxEvents
          /\ analysed' = Tracked(analysed, frame)
          /\ result' = IF frame = Late THEN result
                       ELSE result \o [e \in 1..events' |-> <<frame, e>>]
        BY <1>4 DEF Analyse, viewVars
    <2>2. frame \in 1..Late /\ analysed' \in Seq(1..SourceFrames)
        BY <2>1, TrackedType DEF Histories
    <2>3. result' \in Seq((1..SourceFrames) \X (1..MaxEvents))
        <3>1. CASE frame = Late
            BY <2>1, <3>1 DEF Histories
        <3>2. CASE frame # Late
            <4>. DEFINE new == [e \in 1..events' |-> <<frame, e>>]
            <4>1. frame \in 1..SourceFrames /\ events' \in Nat
                BY <2>1, <2>2, <3>2, LateType
            <4>2. \A e \in 1..events' : <<frame, e>> \in (1..SourceFrames) \X (1..MaxEvents)
                BY <2>1, <4>1
            <4>3. new \in [1..events' -> (1..SourceFrames) \X (1..MaxEvents)]
                BY <4>2
            <4>4. new \in Seq((1..SourceFrames) \X (1..MaxEvents))
                BY <4>1, <4>3, SeqDef
            <4>5. result' = result \o new
                BY <2>1, <3>2
            <4>. HIDE DEF new
            <4>. QED
                BY <4>4, <4>5, ConcatProperties DEF Histories
        <3>. QED
            BY <3>1, <3>2
    <2>4. Figures'
        BY <1>1, <2>1 DEF Figures
    <2>5. Tolerated'
        BY <2>1 DEF Tolerated
    <2>6. Histories' /\ Drawings'
        BY <2>1, <2>2, <2>3 DEF Histories, Drawings, drawingVars
    <2>. QED
        BY <1>2, <2>4, <2>5, <2>6
<1>5. CASE Show
    <2>1. /\ UNCHANGED <<events, snapshot, frame, cache, result, analysed, drawingVars>>
          /\ main = "showing"
          /\ \/ main' \in {"drawing", "joining"} /\ invisible' \in {0, invisible}
             \/ main' = "drawing" /\ invisible' = invisible + 1 /\ Visible(invisible')
             \/ main' = "joining" /\ invisible' = invisible + 1
        BY <1>5 DEF Show, analysisVars
    <2>2. Tolerated'
        BY <2>1 DEF Tolerated, Visible
    <2>3. Figures' /\ Histories' /\ Drawings'
        BY <1>1, <2>1 DEF Figures, Histories, Drawings, drawingVars
    <2>. QED
        BY <1>2, <2>2, <2>3
<1>6. CASE Draw
    <2>1. /\ UNCHANGED <<events, snapshot, frame, cache, result, analysed, invisible>>
          /\ main = "drawing" /\ main' = "popping" /\ WriteVideo /\ PublishImage
        BY <1>6 DEF Draw, analysisVars
    <2>2. Tolerated' /\ Figures' /\ Histories'
        BY <1>1, <2>1 DEF Tolerated, Figures, Histories
    <2>3. frame \in 1..Late
        BY <2>1 DEF Histories
    <2>4. /\ videoOpen' \in BOOLEAN
          /\ unopened' \in Seq(1..SourceFrames) /\ written' \in Seq(1..SourceFrames)
        BY <2>1, <2>3, TrackedType DEF WriteVideo, Drawings
    <2>5. streamed' \in Seq(1..SourceFrames)
        BY <2>1, <2>3, TrackedType DEF PublishImage, Drawings
    <2>6. unencoded' \subseteq 1..SourceFrames
        <3>1. {frame} \ {Late} \subseteq 1..SourceFrames
            BY <2>3, LateType
        <3>. QED
            BY <2>1, <3>1 DEF PublishImage, Drawings
    <2>. QED
        BY <1>2, <2>2, <2>4, <2>5, <2>6 DEF Drawings
<1>7. CASE StartRun \/ PopNothing \/ AnalysisThrows \/ SendSummary \/ PushMessage \/ NoShow \/ Closing
    <2>1. UNCHANGED <<analysisVars, drawingVars, invisible>>
        BY <1>7 DEF StartRun, PopNothing, AnalysisThrows, SendSummary, PushMessage, NoShow, Closing,
                    JoinCapture, JoinStream, ReportStatus, StopTelemetry, StopCan, JoinCan, viewVars
    <2>2. /\ main \in AfterLoop \cup {"aborted"} => main' \in AfterLoop \cup {"aborted"}
          /\ \/ main' \notin {"detecting", "sending", "showing", "drawing"}
             \/ main \in {"detecting", "sending", "showing", "drawing"}
        BY <1>7 DEF StartRun, PopNothing, AnalysisThrows, SendSummary, PushMessage, NoShow, Closing,
                    JoinCapture, JoinStream, ReportStatus, StopTelemetry, StopCan, JoinCan
    <2>3. Tolerated'
        BY <2>1, <2>2 DEF Tolerated
    <2>4. Figures' /\ Histories' /\ Drawings'
        BY <1>1, <2>1, <2>2 DEF Figures, Histories, Drawings, analysisVars, drawingVars
    <2>. QED
        BY <1>2, <2>3, <2>4
<1>. QED
    BY <1>3, <1>4, <1>5, <1>6, <1>7 DEF Main, Closing

LEMMA OthersKeepTypes == TypesInv /\ Others => TypesInv'
<1> SUFFICES ASSUME TypesInv, Others PROVE TypesInv'
    OBVIOUS
<1>. USE SizesAssumption DEF TypesInv
<1>1. UNCHANGED <<config, frameVars, captureVars, main, analysisVars, drawingVars, invisible, userQuit>>
    BY DEF Others, WorkerStep, CanFrame, CanExits, StreamExits, PressKey, viewVars
<1>2. Counted' /\ Tolerated' /\ Histories' /\ Drawings'
    BY <1>1 DEF Counted, Tolerated, Histories, Drawings, captureVars, analysisVars, drawingVars
<1>3. Figures'
    <2>1. canVersion' = canVersion \/ (canVersion < MaxCanFrames /\ canVersion' = canVersion + 1)
        BY DEF Others, WorkerStep, CanFrame, CanExits, StreamExits, PressKey, canVars
    <2>. QED
        BY <1>1, <2>1 DEF Figures, analysisVars
<1>4. Places'
    <2>1. CASE WorkerStep
        <3>1. tWorker' \in {"popping", "publishing", "done"} /\ tPhase' = tPhase
            BY <2>1 DEF WorkerStep, Telemetry!WorkerPops, Telemetry!WorkerPublishes,
                        Telemetry!WorkerExits
        <3>2. UNCHANGED <<frameClosed, capture, main, key, streamThread, canThread, canRunning>>
            BY <2>1 DEF WorkerStep, frameVars, captureVars, viewVars, canVars
        <3>. QED
            BY <3>1, <3>2 DEF Places
    <2>2. CASE CanFrame \/ CanExits \/ StreamExits \/ PressKey
        <3>1. canThread' \in {canThread, "done"} /\ streamThread' \in {streamThread, "done"}
            BY <2>2 DEF CanFrame, CanExits, StreamExits, PressKey, viewVars, canVars
        <3>2. UNCHANGED <<frameClosed, capture, main, canRunning, tWorker, tPhase>>
            BY <2>2 DEF CanFrame, CanExits, StreamExits, PressKey, frameVars, captureVars,
                        canVars, telemetryVars
        <3>3. key' \in BOOLEAN
            BY <2>2 DEF CanFrame, CanExits, StreamExits, PressKey, Places, viewVars
        <3>. QED
            BY <3>1, <3>2, <3>3 DEF Places
    <2>. QED
        BY <2>1, <2>2 DEF Others
<1>. QED
    BY <1>2, <1>3, <1>4

LEMMA StepKeepsTypes ==
    FramesInv /\ FramesInv' /\ Lives /\ TypesInv /\ [Next]_vars => TypesInv'
<1> SUFFICES ASSUME FramesInv, FramesInv', Lives, TypesInv, [Next]_vars PROVE TypesInv'
    OBVIOUS
<1>1. CASE Capture
    BY <1>1, CaptureKeepsTypes
<1>2. CASE Main
    BY <1>2, MainKeepsPlaces, MainKeepsHistories DEF TypesInv
<1>3. CASE Others
    BY <1>3, OthersKeepTypes
<1>4. CASE UNCHANGED vars
    BY <1>4 DEF vars, TypesInv, Places, Counted, Tolerated, Figures, Histories, Drawings,
                frameVars, captureVars, analysisVars, viewVars, drawingVars, canVars, telemetryVars
<1>. QED
    BY <1>1, <1>2, <1>3, <1>4 DEF Next, Others

\* The type invariant of a run, with the order of its counts and the limit of
\* the invisible checks.
THEOREM TypeCorrect == SafeSpec => []TypeOK
<1> DEFINE Inv == FramesInv /\ Lives /\ TypesInv
<1>1. Init => Inv
    BY InitFrames, InitLives, InitTypes
<1>2. Inv /\ [Next]_vars => Inv'
    BY StepKeepsFrames, StepKeepsTypes
<1>3. Inv => TypeOK
    BY DEF FramesInv, FrameTypes, TypesInv, Places, Counted, Tolerated, Figures, Histories, Drawings,
           TypeOK
<1>. HIDE DEF Inv
<1>. QED
    BY <1>1, <1>2, <1>3, PTL DEF SafeSpec

----------------------------------------------------------------------------
(* What is picked from a sequence, by its recursive function: of two       *)
(* sequences in a row it is what is picked from each.                      *)

(* Induction over a set: the least number that was missing from it would    *)
(* come after one that is in it.                                           *)
LEMMA NatSetInduction ==
    ASSUME NEW S, 0 \in S, \A n \in Nat : n \in S => n + 1 \in S
    PROVE  \A n \in Nat : n \in S
<1> SUFFICES ASSUME Nat \ S # {} PROVE FALSE
    OBVIOUS
<1>. DEFINE less == OpToRel(<, Nat)
<1>1. PICK n \in Nat \ S : \A m \in Nat \ S : <<m, n>> \notin less
    <2>. HIDE DEF less
    <2>1. IsWellFoundedOn(less, Nat)
        BY NatLessThanWellFounded DEF less
    <2>. QED
        BY <2>1, WFMin
<1>2. n # 0 /\ n - 1 \in Nat /\ (n - 1) + 1 = n /\ n - 1 < n
    OBVIOUS
<1>3. <<n - 1, n>> \in less
    BY <1>2 DEF OpToRel
<1>. QED
    BY <1>1, <1>2, <1>3

\* The values from start on, each from the one before it.
Steps(g, start, n, step) == g[0] = start /\ \A k \in 1..n : g[k] = step[k][g[k - 1]]

LEMMA Recursion ==
    ASSUME NEW T, NEW start \in T, NEW n \in Nat, NEW step \in [1..n -> [T -> T]]
    PROVE  \E g \in [0..n -> T] : Steps(g, start, n, step)
<1>. DEFINE Good(m, g) == /\ g \in [0..m -> T]
                          /\ \A k \in 0..m : g[k] = IF k = 0 THEN start ELSE step[k][g[k - 1]]
            S == {m \in Nat : m <= n => \E g \in [0..m -> T] : Good(m, g)}
<1>1. 0 \in S
    <2>1. \A k \in 0..0 : k = 0
        OBVIOUS
    <2>2. Good(0, [k \in 0..0 |-> start])
        BY <2>1
    <2>. QED
        BY <2>2
<1>2. \A m \in Nat : m \in S => m + 1 \in S
    <2> SUFFICES ASSUME NEW m \in Nat, m \in S PROVE m + 1 \in S
        OBVIOUS
    <2> SUFFICES ASSUME m + 1 <= n PROVE \E g \in [0..(m + 1) -> T] : Good(m + 1, g)
        OBVIOUS
    <2>1. PICK g \in [0..m -> T] : Good(m, g)
        OBVIOUS
    <2>. DEFINE h == [k \in 0..(m + 1) |-> IF k = m + 1 THEN step[m + 1][g[m]] ELSE g[k]]
    <2>2. m + 1 \in 1..n /\ m \in 0..m /\ \A k \in 0..(m + 1) : k = m + 1 \/ k \in 0..m
        OBVIOUS
    <2>3. h \in [0..(m + 1) -> T]
        BY <2>2
    <2>4. ASSUME NEW k \in 0..(m + 1)
          PROVE  h[k] = IF k = 0 THEN start ELSE step[k][h[k - 1]]
        <3>1. CASE k = m + 1
            BY <2>2, <3>1
        <3>2. CASE k \in 0..m
            BY <2>1, <3>2
        <3>. QED
            BY <2>2, <3>1, <3>2
    <2>. QED
        BY <2>3, <2>4
<1>. HIDE DEF S
<1>3. n \in S
    BY <1>1, <1>2, NatSetInduction
<1>4. PICK g \in [0..n -> T] : Good(n, g)
    BY <1>3 DEF S
<1>5. Steps(g, start, n, step)
    BY <1>4 DEF Steps
<1>. QED
    BY <1>5

\* Picked goes through the sequence once.
Picking(g, s, places) ==
    /\ g[0] = <<>>
    /\ \A k \in 1..Len(s) : g[k] = IF k \in places THEN Append(g[k - 1], s[k]) ELSE g[k - 1]

\* The values of its recursive function, as those of some function.
LEMMA PickedInSteps ==
    ASSUME NEW T, NEW s \in Seq(T), NEW places
    PROVE  \E g \in [0..Len(s) -> Seq(T)] : Picking(g, s, places) /\ Picked(s, places) = g[Len(s)]
<1>. DEFINE upTo[k \in 0..Len(s)] ==
                IF k = 0 THEN <<>>
                ELSE IF k \in places THEN Append(upTo[k - 1], s[k])
                ELSE upTo[k - 1]
            n == Len(s)
<1>1. Picked(s, places) = upTo[n]
    BY DEF Picked
<1>2. n \in Nat /\ \A k \in 1..n : s[k] \in T
    BY LenProperties
<1>. DEFINE step == [k \in 1..n |-> [p \in Seq(T) |-> IF k \in places THEN Append(p, s[k]) ELSE p]]
<1>3. step \in [1..n -> [Seq(T) -> Seq(T)]]
    BY <1>2, AppendProperties
<1>4. <<>> \in Seq(T)
    BY EmptySeq
<1>. HIDE DEF step, n, upTo
<1>5. PICK g \in [0..n -> Seq(T)] : Steps(g, <<>>, n, step)
    BY <1>2, <1>3, <1>4, Recursion
<1>6. ASSUME NEW k \in 1..n
      PROVE  g[k] = IF k \in places THEN Append(g[k - 1], s[k]) ELSE g[k - 1]
    <2>1. k - 1 \in 0..n
        BY <1>2
    <2>2. g[k - 1] \in Seq(T)
        BY <1>5, <2>1
    <2>3. step[k][g[k - 1]] = IF k \in places THEN Append(g[k - 1], s[k]) ELSE g[k - 1]
        BY <2>2 DEF step
    <2>. QED
        BY <1>5, <2>3 DEF Steps
<1>7. g[0] = <<>>
    BY <1>5 DEF Steps
<1>8. upTo = [k \in 0..Len(s) |-> IF k = 0 THEN <<>>
                                  ELSE IF k \in places THEN Append(upTo[k - 1], s[k])
                                  ELSE upTo[k - 1]]
    <2>1. \A k \in 0..n : g[k] = IF k = 0 THEN <<>>
                                 ELSE IF k \in places THEN Append(g[k - 1], s[k])
                                 ELSE g[k - 1]
        <3> SUFFICES ASSUME NEW k \in 0..n
                     PROVE  g[k] = IF k = 0 THEN <<>>
                                   ELSE IF k \in places THEN Append(g[k - 1], s[k])
                                   ELSE g[k - 1]
            OBVIOUS
        <3>1. CASE k = 0
            BY <1>7, <3>1
        <3>2. CASE k # 0
            <4>1. k \in 1..n
                BY <1>2, <3>2
            <4>. QED
                BY <1>6, <3>2, <4>1
        <3>. QED
            BY <3>1, <3>2
    <2>2. g = [k \in 0..n |-> IF k = 0 THEN <<>>
                              ELSE IF k \in places THEN Append(g[k - 1], s[k])
                              ELSE g[k - 1]]
        BY <1>5, <2>1
    <2>. QED
        BY <2>2 DEF upTo, n
<1>9. \A k \in 0..n : upTo[k] = IF k = 0 THEN <<>>
                                ELSE IF k \in places THEN Append(upTo[k - 1], s[k])
                                ELSE upTo[k - 1]
    BY <1>8 DEF n
<1>. DEFINE S == {k \in Nat : k <= n => upTo[k] = g[k]}
<1>10. 0 \in S
    <2>1. 0 \in 0..n
        BY <1>2
    <2>. QED
        BY <1>7, <1>9, <2>1
<1>11. ASSUME NEW k \in Nat, k \in S PROVE k + 1 \in S
    <2> SUFFICES ASSUME k + 1 <= n PROVE upTo[k + 1] = g[k + 1]
        OBVIOUS
    <2>1. k + 1 \in 1..n /\ k + 1 \in 0..n /\ k + 1 # 0 /\ (k + 1) - 1 = k /\ k <= n
        BY <1>2
    <2>2. upTo[k] = g[k]
        BY <1>11, <2>1
    <2>. QED
        BY <1>6, <1>9, <2>1, <2>2
<1>. HIDE DEF S
<1>12. n \in S
    BY <1>2, <1>10, <1>11, NatSetInduction
<1>13. upTo[n] = g[n]
    BY <1>2, <1>12 DEF S
<1>. QED
    BY <1>1, <1>5, <1>6, <1>7, <1>13 DEF n, Picking

LEMMA PickedType ==
    ASSUME NEW T, NEW s \in Seq(T), NEW places
    PROVE  Picked(s, places) \in Seq(T)
<1>1. PICK g \in [0..Len(s) -> Seq(T)] : Picked(s, places) = g[Len(s)]
    BY PickedInSteps
<1>2. Len(s) \in 0..Len(s)
    BY LenProperties
<1>. QED
    BY <1>1, <1>2

LEMMA AppendToConcat ==
    ASSUME NEW T, NEW x \in T, NEW u \in Seq(T), NEW v \in Seq(T)
    PROVE  Append(u \o v, x) = u \o Append(v, x)
<1>1. <<x>> \in Seq(T)
    OBVIOUS
<1>2. u \o v \in Seq(T)
    BY ConcatProperties
<1>3. Append(u \o v, x) = (u \o v) \o <<x>> /\ Append(v, x) = v \o <<x>>
    BY <1>2, AppendIsConcat
<1>4. (u \o v) \o <<x>> = u \o (v \o <<x>>)
    BY <1>1, ConcatAssociative
<1>. QED
    BY <1>3, <1>4

\* The places R in a sequence of length m and the n elements that come after it.
Aligned(m, n, P, Q, R) ==
    /\ \A i \in 1..m : i \in R <=> i \in P
    /\ \A j \in 1..n : m + j \in R <=> j \in Q

\* What is picked from two sequences in a row.
LEMMA PickedConcat ==
    ASSUME NEW T, NEW a \in Seq(T), NEW b \in Seq(T), NEW P, NEW Q, NEW R,
           Aligned(Len(a), Len(b), P, Q, R)
    PROVE  Picked(a \o b, R) = Picked(a, P) \o Picked(b, Q)
<1>. DEFINE m == Len(a)
            n == Len(b)
            w == a \o b
<1>1. /\ m \in Nat /\ n \in Nat /\ w \in Seq(T) /\ Len(w) = m + n
      /\ \A i \in 1..(m + n) : w[i] = IF i <= m THEN a[i] ELSE b[i - m]
    BY LenProperties, ConcatProperties
<1>2. (\A i \in 1..m : a[i] \in T) /\ (\A j \in 1..n : b[j] \in T)
    BY LenProperties
<1>3. (\A i \in 1..m : i \in R <=> i \in P) /\ (\A j \in 1..n : m + j \in R <=> j \in Q)
    BY DEF Aligned
<1>4. PICK g \in [0..m -> Seq(T)] : Picking(g, a, P) /\ Picked(a, P) = g[m]
    BY PickedInSteps
<1>5. PICK h \in [0..n -> Seq(T)] : Picking(h, b, Q) /\ Picked(b, Q) = h[n]
    BY PickedInSteps
<1>. HIDE DEF w
<1>6. PICK f \in [0..Len(w) -> Seq(T)] : Picking(f, w, R) /\ Picked(w, R) = f[Len(w)]
    <2>1. w \in Seq(T)
        BY <1>1
    <2>. QED
        BY <2>1, PickedInSteps
<1>7. /\ g[0] = <<>> /\ h[0] = <<>> /\ f[0] = <<>>
      /\ \A k \in 1..m : g[k] = IF k \in P THEN Append(g[k - 1], a[k]) ELSE g[k - 1]
      /\ \A k \in 1..n : h[k] = IF k \in Q THEN Append(h[k - 1], b[k]) ELSE h[k - 1]
    BY <1>4, <1>5, <1>6 DEF Picking
<1>8. \A k \in 1..(m + n) : f[k] = IF k \in R THEN Append(f[k - 1], w[k]) ELSE f[k - 1]
    BY <1>1, <1>6 DEF Picking
<1>. HIDE DEF m, n
<1>. DEFINE First(k) == f[k] = g[k]
            Both(k) == f[m + k] = g[m] \o h[k]
<1>9. ASSUME NEW k \in Nat, k + 1 <= m, First(k) PROVE First(k + 1)
    <2>1. m \in Nat /\ n \in Nat /\ k + 1 <= m
        BY <1>1, <1>9
    <2>2. k + 1 \in 1..m /\ k + 1 \in 1..(m + n) /\ (k + 1) - 1 = k
        BY <2>1
    <2>3. f[k] = g[k] /\ w[k + 1] = a[k + 1] /\ (k + 1 \in R <=> k + 1 \in P)
        BY <1>1, <1>3, <1>9, <2>2
    <2>4. f[k + 1] = IF k + 1 \in R THEN Append(f[k], w[k + 1]) ELSE f[k]
        BY <1>8, <2>2
    <2>5. g[k + 1] = IF k + 1 \in P THEN Append(g[k], a[k + 1]) ELSE g[k]
        BY <1>7, <2>2
    <2>. QED
        BY <2>3, <2>4, <2>5
<1>10. First(0)
    BY <1>7
<1>11. ASSUME NEW k \in Nat, k + 1 <= n, Both(k) PROVE Both(k + 1)
    <2>1. /\ k + 1 \in 1..n /\ m + (k + 1) \in 1..(m + n) /\ ~(m + (k + 1) <= m)
          /\ (m + (k + 1)) - m = k + 1 /\ (k + 1) - 1 = k /\ (m + (k + 1)) - 1 = m + k
          /\ k \in 0..n /\ m \in 0..m
        BY <1>1, <1>11
    <2>2. f[m + k] = g[m] \o h[k]
        BY <1>11
    <2>3. w[m + (k + 1)] = b[k + 1] /\ (m + (k + 1) \in R <=> k + 1 \in Q) /\ b[k + 1] \in T
        BY <1>1, <1>2, <1>3, <2>1
    <2>4. f[m + (k + 1)] = IF m + (k + 1) \in R THEN Append(f[m + k], w[m + (k + 1)]) ELSE f[m + k]
        BY <1>8, <2>1
    <2>5. h[k + 1] = IF k + 1 \in Q THEN Append(h[k], b[k + 1]) ELSE h[k]
        BY <1>7, <2>1
    <2>6. h[k] \in Seq(T) /\ g[m] \in Seq(T)
        BY <1>4, <1>5, <2>1
    <2>7. Append(g[m] \o h[k], b[k + 1]) = g[m] \o Append(h[k], b[k + 1])
        BY <2>3, <2>6, AppendToConcat
    <2>. QED
        BY <2>2, <2>3, <2>4, <2>5, <2>7
<1>. HIDE DEF First
<1>. DEFINE S == {k \in Nat : k <= m => First(k)}
<1>12. m \in S
    <2>1. 0 \in S /\ \A k \in Nat : k \in S => k + 1 \in S
        BY <1>1, <1>9, <1>10
    <2>. HIDE DEF S
    <2>. QED
        BY <1>1, <2>1, NatSetInduction
<1>13. f[m] = g[m] /\ g[m] \in Seq(T)
    BY <1>1, <1>4, <1>12 DEF First
<1>14. Both(0)
    <2>1. g[m] \o <<>> = g[m] /\ m + 0 = m
        BY <1>1, <1>13, ConcatEmptySeq
    <2>. QED
        BY <1>7, <1>13, <2>1
<1>. HIDE DEF Both
<1>. DEFINE D == {k \in Nat : k <= n => Both(k)}
<1>15. n \in D
    <2>1. 0 \in D /\ \A k \in Nat : k \in D => k + 1 \in D
        BY <1>1, <1>11, <1>14
    <2>. HIDE DEF D
    <2>. QED
        BY <1>1, <2>1, NatSetInduction
<1>16. Both(n)
    BY <1>1, <1>15
<1>. QED
    BY <1>1, <1>4, <1>5, <1>6, <1>16 DEF w, Both

\* Of no place nothing is picked, and of every place the sequence.
LEMMA PickedNone ==
    ASSUME NEW T, NEW s \in Seq(T), NEW P, \A i \in 1..Len(s) : i \notin P
    PROVE  Picked(s, P) = <<>>
<1>. DEFINE n == Len(s)
<1>1. n \in Nat
    BY LenProperties
<1>2. PICK g \in [0..n -> Seq(T)] : Picking(g, s, P) /\ Picked(s, P) = g[n]
    BY PickedInSteps
<1>3. /\ g[0] = <<>>
      /\ \A k \in 1..n : g[k] = IF k \in P THEN Append(g[k - 1], s[k]) ELSE g[k - 1]
    BY <1>2 DEF Picking
<1>. HIDE DEF n
<1>. DEFINE S == {k \in Nat : k <= n => g[k] = <<>>}
<1>4. 0 \in S
    BY <1>3
<1>5. ASSUME NEW k \in Nat, k \in S PROVE k + 1 \in S
    <2> SUFFICES ASSUME k + 1 <= n PROVE g[k + 1] = <<>>
        OBVIOUS
    <2>1. k + 1 \in 1..n /\ (k + 1) - 1 = k /\ k <= n
        BY <1>1
    <2>2. k + 1 \notin P /\ g[k] = <<>>
        BY <1>5, <2>1 DEF n
    <2>. QED
        BY <1>3, <2>1, <2>2
<1>. HIDE DEF S
<1>6. n \in S
    BY <1>1, <1>4, <1>5, NatSetInduction
<1>. QED
    BY <1>1, <1>2, <1>6 DEF S

LEMMA PickedEvery ==
    ASSUME NEW T, NEW s \in Seq(T), NEW P, \A i \in 1..Len(s) : i \in P
    PROVE  Picked(s, P) = s
<1>. DEFINE n == Len(s)
<1>1. n \in Nat /\ \A i \in 1..n : s[i] \in T
    BY LenProperties
<1>2. PICK g \in [0..n -> Seq(T)] : Picking(g, s, P) /\ Picked(s, P) = g[n]
    BY PickedInSteps
<1>3. /\ g[0] = <<>>
      /\ \A k \in 1..n : g[k] = IF k \in P THEN Append(g[k - 1], s[k]) ELSE g[k - 1]
    BY <1>2 DEF Picking
<1>. HIDE DEF n
<1>. DEFINE Whole(k) == Len(g[k]) = k /\ \A i \in 1..k : g[k][i] = s[i]
            S == {k \in Nat : k <= n => Whole(k)}
<1>4. 0 \in S
    BY <1>3
<1>5. ASSUME NEW k \in Nat, k \in S PROVE k + 1 \in S
    <2> SUFFICES ASSUME k + 1 <= n PROVE Whole(k + 1)
        OBVIOUS
    <2>1. k + 1 \in 1..n /\ (k + 1) - 1 = k /\ k <= n /\ k \in 0..n
        BY <1>1
    <2>2. k + 1 \in P /\ Whole(k) /\ g[k] \in Seq(T) /\ s[k + 1] \in T
        BY <1>1, <1>2, <1>5, <2>1 DEF n
    <2>3. g[k + 1] = Append(g[k], s[k + 1])
        BY <1>3, <2>1, <2>2
    <2>4. /\ Len(g[k + 1]) = k + 1 /\ g[k + 1][k + 1] = s[k + 1]
          /\ \A i \in 1..k : g[k + 1][i] = s[i]
        BY <2>2, <2>3, AppendProperties
    <2>5. \A i \in 1..(k + 1) : i \in 1..k \/ i = k + 1
        OBVIOUS
    <2>. QED
        BY <2>4, <2>5
<1>. HIDE DEF S
<1>6. n \in S
    BY <1>1, <1>4, <1>5, NatSetInduction
<1>7. Whole(n) /\ g[n] \in Seq(T)
    BY <1>1, <1>2, <1>6 DEF S
<1>. QED
    BY <1>2, <1>7, SeqEqual DEF n

----------------------------------------------------------------------------
(* The drawing, and the ways a run ends.  What was drawn is what was       *)
(* analysed, but for the frame in hand and the frames that failed.         *)

\* A sequence of frames without those in lost.
Without(s, lost) == Picked(s, DOMAIN s \ lost)

\* A frame at the end is left out, or it is kept.
LEMMA LastFrame ==
    ASSUME NEW s \in Seq(Nat), NEW f \in Nat, f = Len(s) + 1, NEW lost
    PROVE  /\ Without(Append(s, f), lost \cup {f}) = Without(s, lost)
           /\ f \notin lost => Without(Append(s, f), lost) = Append(Without(s, lost), f)
<1>. DEFINE n == Len(s)
            one == <<f>>
            P == 1..n \ lost
<1>1. n \in Nat /\ one \in Seq(Nat) /\ Len(one) = 1 /\ DOMAIN s = 1..n
    BY LenProperties
<1>2. Append(s, f) = s \o one /\ DOMAIN Append(s, f) = 1..(n + 1)
    BY <1>1, AppendIsConcat, AppendProperties
<1>3. Without(s, lost) = Picked(s, P) /\ Picked(s, P) \in Seq(Nat)
    BY <1>1, PickedType DEF Without
<1>. DEFINE Frames == Nat
<1>4. s \in Seq(Frames) /\ one \in Seq(Frames)
    BY <1>1
<1>. HIDE DEF P, Frames
<1>5. Without(Append(s, f), lost \cup {f}) = Without(s, lost)
    <2>. DEFINE R == 1..(n + 1) \ (lost \cup {f})
    <2>1. Aligned(Len(s), Len(one), P, {}, R)
        BY <1>1 DEF Aligned, P
    <2>2. Without(Append(s, f), lost \cup {f}) = Picked(s \o one, R)
        BY <1>2 DEF Without
    <2>. HIDE DEF R, one
    <2>3. Picked(s \o one, R) = Picked(s, P) \o Picked(one, {})
        BY <1>4, <2>1, PickedConcat
    <2>4. Picked(one, {}) = <<>>
        BY <1>1, PickedNone
    <2>. QED
        BY <1>3, <2>2, <2>3, <2>4, ConcatEmptySeq
<1>6. ASSUME f \notin lost PROVE Without(Append(s, f), lost) = Append(Without(s, lost), f)
    <2>. DEFINE R == 1..(n + 1) \ lost
    <2>1. Aligned(Len(s), Len(one), P, {1}, R)
        BY <1>1, <1>6 DEF Aligned, P
    <2>2. Without(Append(s, f), lost) = Picked(s \o one, R)
        BY <1>2 DEF Without
    <2>3. \A i \in 1..Len(one) : i \in {1}
        BY <1>1
    <2>4. Append(Picked(s, P), f) = Picked(s, P) \o one
        BY <1>3, AppendIsConcat
    <2>. HIDE DEF R, one
    <2>5. Picked(s \o one, R) = Picked(s, P) \o Picked(one, {1})
        BY <1>4, <2>1, PickedConcat
    <2>6. Picked(one, {1}) = one
        BY <1>1, <2>3, PickedEvery
    <2>. QED
        BY <1>3, <2>2, <2>4, <2>5, <2>6
<1>. QED
    BY <1>5, <1>6

\* Before and after a frame is analysed and drawn.
BetweenFrames == {"starting", "popping", "detecting"}
FrameInHand == {"sending", "showing", "drawing"}

Video == unopened \o written
VideoKept ==
    /\ ~videoOpen => written = <<>>
    /\ Recording =>
        /\ main \in BetweenFrames => Video = analysed
        /\ main \in FrameInHand => analysed = Tracked(Video, frame)
        /\ main \in AfterLoop => Video = analysed \/ userQuit

StreamKept ==
    /\ main \in BetweenFrames => unencoded \subseteq DOMAIN analysed
    /\ main \in FrameInHand => unencoded \subseteq DOMAIN analysed \ {frame}
    /\ main = "starting" => streamed = Without(analysed, unencoded)
    /\ Streaming =>
        /\ main \in BetweenFrames => streamed = Without(analysed, unencoded)
        /\ main \in FrameInHand => streamed = Without(analysed, unencoded \cup {frame})
        /\ main \in AfterLoop => streamed = Without(analysed, unencoded) \/ userQuit

\* show() returns false when it sees a key or for the window, and the loop is over.
QuitByUser ==
    userQuit => /\ main \in AfterLoop \cup {"aborted"}
                /\ key \/ invisible > InvisibleLimit

DrawnInv == VideoKept /\ StreamKept /\ QuitByUser

LEMMA InitDrawn == Init => DrawnInv
<1> SUFFICES ASSUME Init PROVE DrawnInv
    OBVIOUS
<1>. USE DEF Init
<1>1. VideoKept
    <2>1. <<>> \o <<>> = <<>>
        BY EmptySeq, ConcatEmptySeq
    <2>. QED
        BY <2>1 DEF VideoKept, Video, BetweenFrames, FrameInHand, AfterLoop, CaptureJoined
<1>2. StreamKept
    <2>1. <<>> \in Seq(Nat) /\ \A i \in 1..Len(<<>>) : FALSE
        BY EmptySeq
    <2>2. Picked(<<>>, DOMAIN <<>> \ {}) = <<>>
        BY <2>1, PickedNone
    <2>. QED
        BY <2>2 DEF StreamKept, Without, Streaming, BetweenFrames, FrameInHand, AfterLoop,
                    CaptureJoined
<1>3. QuitByUser
    BY DEF QuitByUser
<1>. QED
    BY <1>1, <1>2, <1>3 DEF DrawnInv

\* The ways of the main thread without a frame drawn or analysed.
Onward ==
    \/ main' = main /\ UNCHANGED <<frame, userQuit>>
    \/ main \in BetweenFrames /\ main' \in BetweenFrames \ {"starting"}
    \/ main \in FrameInHand /\ main' \in FrameInHand /\ UNCHANGED frame
    \/ main \in AfterLoop \cup {"popping"} /\ main' \in AfterLoop /\ UNCHANGED userQuit
    \/ main' = "aborted"
    \/ main' \in AfterLoop /\ userQuit'

LEMMA OnwardKeepsDrawn ==
    ASSUME VideoKept, StreamKept, Onward, UNCHANGED <<config, analysed, drawingVars>>,
           streamThread' = streamThread \/ main = "starting" \/ streamThread # "none"
    PROVE  VideoKept' /\ StreamKept'
<1>. USE DEF Onward, BetweenFrames, FrameInHand, AfterLoop, CaptureJoined
<1>1. UNCHANGED <<config, analysed, videoOpen, unopened, written, unencoded, streamed>>
    BY DEF drawingVars
<1>2. Video' = Video /\ Recording' = Recording
    BY <1>1 DEF Video, Recording, HasImages
<1>3. VideoKept'
    BY <1>1, <1>2 DEF VideoKept, Tracked
<1>4. Without(analysed, unencoded)' = Without(analysed, unencoded)
    BY <1>1
<1>5. frame' = frame => Without(analysed, unencoded \cup {frame})' = Without(analysed, unencoded \cup {frame})
    BY <1>1
<1>6. main = "starting" \/ (Streaming' => Streaming)
    BY <1>1 DEF Streaming, HasImages
<1>. HIDE DEF Without
<1>7. StreamKept'
    BY <1>1, <1>4, <1>5, <1>6 DEF StreamKept
<1>. QED
    BY <1>3, <1>7

\* No late frame is in a history.
LEMMA NoLateFrame ==
    ASSUME FramesInv
    PROVE  /\ analysed \in Seq(Nat) /\ DOMAIN analysed = 1..Len(analysed)
           /\ \A lost : frame = Late /\ main # "aborted" =>
                  Without(analysed, lost \cup {frame}) = Without(analysed, lost)
<1>1. analysed \in Seq(Nat) /\ DOMAIN analysed = 1..Len(analysed)
    BY LenProperties DEF FramesInv, FrameTypes
<1>2. frame = Late /\ main # "aborted" => frame \notin DOMAIN analysed
    BY <1>1, LateType DEF FramesInv, AnalysedInOrder, UpTo
<1>3. ASSUME NEW lost, frame = Late, main # "aborted"
      PROVE  DOMAIN analysed \ (lost \cup {frame}) = DOMAIN analysed \ lost
    BY <1>2, <1>3
<1>. QED
    BY <1>1, <1>3 DEF Without

\* A frame that is analysed is still to be drawn.
LEMMA AnalyseKeepsDrawn ==
    ASSUME FramesInv, DrawnInv, Analyse
    PROVE  VideoKept' /\ StreamKept'
<1>1. /\ main = "detecting" /\ main' = "sending" /\ analysed' = Tracked(analysed, frame)
      /\ UNCHANGED <<config, frame, videoOpen, unopened, written, unencoded, streamed, streamThread>>
    BY DEF Analyse, viewVars, drawingVars
<1>2. analysed \in Seq(Nat) /\ DOMAIN analysed = 1..Len(analysed) /\ Len(analysed) \in Nat
    BY NoLateFrame, LenProperties
<1>3. VideoKept'
    <2>1. Video' = Video /\ Recording' = Recording
        BY <1>1 DEF Video, Recording, HasImages
    <2>. QED
        BY <1>1, <2>1 DEF DrawnInv, VideoKept, BetweenFrames, FrameInHand, AfterLoop, CaptureJoined,
                          Tracked
<1>4. unencoded \subseteq DOMAIN analysed /\ (Streaming => streamed = Without(analysed, unencoded))
    BY <1>1 DEF DrawnInv, StreamKept, BetweenFrames
<1>5. /\ unencoded \subseteq DOMAIN analysed' \ {frame}
      /\ Without(analysed', unencoded \cup {frame}) = Without(analysed, unencoded)
    <2>1. CASE frame = Late
        <3>1. frame \notin DOMAIN analysed
            BY <1>1, <1>2, <2>1, LateType DEF FramesInv, AnalysedInOrder, UpTo
        <3>. QED
            BY <1>1, <1>4, <2>1, <3>1, NoLateFrame DEF Tracked
    <2>2. CASE frame # Late
        <3>1. frame = Len(analysed) + 1 /\ frame \in Nat /\ analysed' = Append(analysed, frame)
            BY <1>1, <1>2, <2>2 DEF FramesInv, FrameTypes, AnalysedInOrder, Tracked
        <3>2. DOMAIN analysed' = 1..(Len(analysed) + 1)
            BY <1>2, <3>1, AppendProperties
        <3>3. Without(analysed', unencoded \cup {frame}) = Without(analysed, unencoded)
            BY <1>2, <3>1, LastFrame
        <3>4. unencoded \subseteq DOMAIN analysed' \ {frame}
            BY <1>2, <1>4, <3>1, <3>2
        <3>. QED
            BY <3>3, <3>4
    <2>. QED
        BY <2>1, <2>2
<1>6. Streaming' = Streaming
    BY <1>1 DEF Streaming, HasImages
<1>7. Without(analysed, unencoded \cup {frame})' = Without(analysed', unencoded \cup {frame})
    BY <1>1
<1>. HIDE DEF Without
<1>8. StreamKept'
    BY <1>1, <1>4, <1>5, <1>6, <1>7
    DEF StreamKept, BetweenFrames, FrameInHand, AfterLoop, CaptureJoined
<1>. QED
    BY <1>3, <1>8

\* WriteVideo appends the frame to the frames written, or, while none is, to those
\* the video could not be opened with.
LEMMA WriteKeepsVideo ==
    ASSUME FramesInv, TypesInv, DrawnInv, Draw
    PROVE  VideoKept'
<1>1. /\ main = "drawing" /\ main' = "popping" /\ WriteVideo
      /\ UNCHANGED <<config, frame, analysed>>
    BY DEF Draw, analysisVars
<1>2. /\ unopened \in Seq(1..SourceFrames) /\ written \in Seq(1..SourceFrames)
      /\ frame \in 1..Late
    BY <1>1 DEF TypesInv, Drawings, Histories
<1>3. ~videoOpen' => written' = <<>>
    BY <1>1 DEF WriteVideo, DrawnInv, VideoKept
<1>4. Recording' = Recording
    BY <1>1 DEF Recording, HasImages
<1>5. ASSUME Recording PROVE Video' = Tracked(Video, frame)
    <2>1. CASE frame = Late
        BY <1>1, <1>5, <2>1 DEF WriteVideo, Tracked, Video
    <2>2. CASE frame # Late
        <3>1. frame \in 1..SourceFrames
            BY <1>2, <2>2, LateType
        <3>2. CASE written' = Append(written, frame) /\ UNCHANGED unopened
            BY <1>2, <2>2, <3>1, <3>2, AppendToConcat DEF Video, Tracked
        <3>3. CASE ~videoOpen /\ unopened' = Append(unopened, frame) /\ UNCHANGED written
            <4>1. written = <<>> /\ written' = <<>>
                BY <3>3 DEF DrawnInv, VideoKept
            <4>2. unopened' \in Seq(1..SourceFrames)
                BY <1>2, <3>1, <3>3, AppendProperties
            <4>3. unopened \o <<>> = unopened /\ unopened' \o <<>> = unopened'
                BY <1>2, <4>2, ConcatEmptySeq
            <4>. QED
                BY <2>2, <3>3, <4>1, <4>3 DEF Video, Tracked
        <3>. QED
            BY <1>1, <1>5, <2>2, <3>2, <3>3 DEF WriteVideo, Tracked
    <2>. QED
        BY <2>1, <2>2
<1>. QED
    BY <1>1, <1>3, <1>4, <1>5
    DEF DrawnInv, VideoKept, BetweenFrames, FrameInHand, AfterLoop, CaptureJoined

\* PublishImage appends the frame to the stream, unless it could not be encoded.
LEMMA PublishKeepsStream ==
    ASSUME FramesInv, TypesInv, DrawnInv, Draw
    PROVE  StreamKept'
<1>1. /\ main = "drawing" /\ main' = "popping" /\ PublishImage
      /\ UNCHANGED <<config, frame, analysed, streamThread>>
    BY DEF Draw, analysisVars
<1>2. analysed \in Seq(Nat) /\ DOMAIN analysed = 1..Len(analysed) /\ Len(analysed) \in Nat
    BY NoLateFrame, LenProperties
<1>3. frame \in 1..Late
    BY <1>1 DEF TypesInv, Histories
<1>4. /\ unencoded \subseteq DOMAIN analysed \ {frame}
      /\ Streaming => streamed = Without(analysed, unencoded \cup {frame})
    BY <1>1 DEF DrawnInv, StreamKept, FrameInHand
<1>5. Streaming' = Streaming
    BY <1>1 DEF Streaming, HasImages
<1>6. unencoded' \subseteq DOMAIN analysed
    <2>1. frame # Late => frame \in DOMAIN analysed
        BY <1>1, <1>2, <1>3 DEF FramesInv, AnalysedInOrder, UpTo
    <2>. QED
        BY <1>1, <1>4, <2>1 DEF PublishImage
<1>7. ASSUME Streaming PROVE streamed' = Without(analysed, unencoded')
    <2>1. CASE frame = Late
        <3>1. Without(analysed, unencoded \cup {frame}) = Without(analysed, unencoded)
            BY <1>1, <2>1, NoLateFrame
        <3>2. streamed' = streamed /\ unencoded' = unencoded
            BY <1>1, <1>7, <2>1 DEF PublishImage, Tracked
        <3>. QED
            BY <1>4, <1>7, <3>1, <3>2
    <2>2. CASE frame # Late /\ unencoded' = unencoded \cup {frame} /\ UNCHANGED streamed
        BY <1>4, <1>7, <2>2
    <2>3. CASE frame # Late /\ UNCHANGED unencoded /\ streamed' = Append(streamed, frame)
        <3>. DEFINE front == SubSeq(analysed, 1, frame - 1)
        <3>1. Len(analysed) = frame /\ frame \in Nat /\ analysed[frame] = frame
            BY <1>1, <1>2, <1>3, <2>3 DEF FramesInv, AnalysedInOrder, UpTo
        <3>2. front \in Seq(Nat) /\ Len(front) = frame - 1
            BY <1>2, <1>3, <3>1, SubSeqProperties
        <3>3. analysed = Append(front, frame)
            BY <1>2, <1>3, <3>1
        <3>. HIDE DEF front
        <3>4. frame = Len(front) + 1
            BY <3>1, <3>2
        <3>5. /\ Without(analysed, unencoded \cup {frame}) = Without(front, unencoded)
              /\ frame \notin unencoded =>
                     Without(analysed, unencoded) = Append(Without(front, unencoded), frame)
            BY <3>1, <3>2, <3>3, <3>4, LastFrame
        <3>. QED
            BY <1>4, <1>7, <2>3, <3>5
    <2>. QED
        BY <1>1, <1>7, <2>1, <2>2, <2>3 DEF PublishImage, Tracked
<1>8. Without(analysed, unencoded)' = Without(analysed, unencoded')
    BY <1>1
<1>. HIDE DEF Without
<1>. QED
    BY <1>1, <1>5, <1>6, <1>7, <1>8
    DEF StreamKept, BetweenFrames, FrameInHand, AfterLoop, CaptureJoined

\* Only show() lets the user quit, and after it the window is not looked at again.
LEMMA QuitKept ==
    ASSUME TypesInv, QuitByUser, [Next]_vars
    PROVE  QuitByUser'
<1>. USE DEF QuitByUser, AfterLoop, CaptureJoined
<1>1. CASE Show
    <2>1. invisible \in Nat /\ InvisibleLimit \in Nat
        BY SizesAssumption DEF TypesInv, Tolerated
    <2>. QED
        <3>1. main = "showing"
            BY <1>1 DEF Show
        <3>2. CASE userQuit' = userQuit
            BY <3>1, <3>2
        <3>3. CASE key /\ main' = "joining"
            BY <1>1, <3>3 DEF Show
        <3>4. CASE ~Visible(invisible') /\ invisible' = invisible + 1 /\ main' = "joining"
            BY <2>1, <3>4 DEF Visible
        <3>. QED
            BY <1>1, <3>2, <3>3, <3>4 DEF Show
<1>2. CASE Capture \/ Others \/ UNCHANGED vars
    <2>1. UNCHANGED <<main, userQuit, invisible>> /\ (key => key')
        BY <1>2 DEF Capture, OpenSource, ReadFrame, ReadEnds, ReadThrows, PushFrame, CloseQueue,
                    Others, WorkerStep, CanFrame, CanExits, StreamExits, PressKey, vars, viewVars
    <2>. QED
        BY <2>1
<1>3. CASE StartRun \/ PopFrame \/ PopNothing \/ Analyse \/ SendSummary \/ PushMessage \/ NoShow \/ Draw
    <2>1. UNCHANGED <<userQuit, key, invisible>> /\ (main \notin AfterLoop \cup {"aborted"} \/ main' = main)
        BY <1>3 DEF StartRun, PopFrame, PopNothing, Analyse, SendSummary, PushMessage, NoShow, Draw,
                    viewVars
    <2>. QED
        BY <2>1
<1>4. CASE AnalysisThrows \/ Closing
    <2>1. UNCHANGED <<userQuit, key, invisible>> /\ main' \in AfterLoop \cup {"aborted"}
        BY <1>4 DEF AnalysisThrows, Closing, JoinCapture, JoinStream, ReportStatus, StopTelemetry,
                    StopCan, JoinCan, viewVars
    <2>. QED
        BY <2>1
<1>. QED
    BY <1>1, <1>2, <1>3, <1>4 DEF Next, Main, Others, Closing

LEMMA DrawnKept ==
    ASSUME FramesInv, TypesInv, DrawnInv, [Next]_vars
    PROVE  DrawnInv'
<1>1. QuitByUser'
    BY QuitKept DEF DrawnInv
<1>2. VideoKept' /\ StreamKept'
    <2>. DEFINE Calm == /\ UNCHANGED <<config, analysed, drawingVars>>
                        /\ streamThread' = streamThread \/ main = "starting" \/ streamThread # "none"
    <2>1. CASE Analyse
        BY <2>1, AnalyseKeepsDrawn
    <2>2. CASE Draw
        BY <2>2, WriteKeepsVideo, PublishKeepsStream
    <2>3. CASE Capture \/ Others \/ UNCHANGED vars
        <3>1. Onward /\ Calm
            BY <2>3 DEF Capture, OpenSource, ReadFrame, ReadEnds, ReadThrows, PushFrame, CloseQueue,
                        Others, WorkerStep, CanFrame, CanExits, StreamExits, PressKey, Onward,
                        vars, analysisVars, viewVars
        <3>. QED
            BY <3>1, OnwardKeepsDrawn DEF DrawnInv
    <2>4. CASE StartRun \/ PopFrame \/ PopNothing \/ AnalysisThrows \/ SendSummary \/ PushMessage
        <3>1. Onward /\ Calm
            BY <2>4 DEF StartRun, PopFrame, PopNothing, AnalysisThrows, SendSummary, PushMessage, Onward,
                        BetweenFrames, FrameInHand, AfterLoop, analysisVars, viewVars
        <3>. QED
            BY <3>1, OnwardKeepsDrawn DEF DrawnInv
    <2>5. CASE Show \/ NoShow
        <3>1. Onward /\ Calm
            BY <2>5 DEF Show, NoShow, Onward, FrameInHand, AfterLoop, analysisVars, viewVars
        <3>. QED
            BY <3>1, OnwardKeepsDrawn DEF DrawnInv
    <2>6. CASE Closing
        <3>1. Onward /\ Calm
            BY <2>6 DEF Closing, JoinCapture, JoinStream, ReportStatus, StopTelemetry, StopCan, JoinCan,
                        Onward, AfterLoop, CaptureJoined, analysisVars, viewVars
        <3>. QED
            BY <3>1, OnwardKeepsDrawn DEF DrawnInv
    <2>. QED
        BY <2>1, <2>2, <2>3, <2>4, <2>5, <2>6 DEF Next, Main, Others, Closing
<1>. QED
    BY <1>1, <1>2 DEF DrawnInv

\* AnalysisPipeline::run analyses every frame read, in order, unless the user
\* quits; the video misses only the frames before it could be opened, and the
\* stream those that could not be encoded.
THEOREM EveryFrameAnalysedCorrect == SafeSpec => []EveryFrameAnalysed
<1> DEFINE Inv == FramesInv /\ Lives /\ TypesInv /\ DrawnInv
<1>1. Init => Inv
    BY InitFrames, InitLives, InitTypes, InitDrawn
<1>2. Inv /\ [Next]_vars => Inv'
    BY StepKeepsFrames, StepKeepsTypes, DrawnKept
<1>3. Inv => EveryFrameAnalysed
    <2> SUFFICES ASSUME Inv PROVE EveryFrameAnalysed
        OBVIOUS
    <2>. USE LateType DEF FramesInv, AfterLoop, CaptureJoined
    <2>1. \A i \in DOMAIN analysed : analysed[i] = i
        BY DEF AnalysedInOrder, FrameTypes
    <2>2. config.frameCount > 0 => Len(analysed) <= config.frameCount
        <3>1. config.frameCount \in Int
            BY ConfigTypes
        <3>. QED
            BY <3>1 DEF AnalysedInOrder, WithinLimit, FrameTypes
    <2>3. main = "returned" => ~captureError
        BY DEF ErrorSeen
    <2>4. userQuit => key \/ invisible > InvisibleLimit
        BY DEF DrawnInv, QuitByUser
    <2>5. ASSUME main = "returned", ~userQuit
          PROVE  Len(analysed) = (IF grabbed = Late THEN SourceFrames ELSE grabbed)
        BY <2>5 DEF Emptied, Pushed, LastPushed, AnalysedInOrder, UpTo
    <2>6. ASSUME main = "returned", ~userQuit
          PROVE  /\ Recording => unopened \o written = analysed
                 /\ Streaming => streamed = Picked(analysed, DOMAIN analysed \ unencoded)
        BY <2>6, Zenon DEF DrawnInv, VideoKept, StreamKept, Video, Without
    <2>. QED
        BY <2>1, <2>2, <2>3, <2>4, <2>5, <2>6 DEF EveryFrameAnalysed
<1>. HIDE DEF Inv
<1>. QED
    BY <1>1, <1>2, <1>3, PTL DEF SafeSpec

----------------------------------------------------------------------------
(* Telemetry: the messages, as the pipeline makes them.                    *)
Message == [topic : {"frames", "events", "can/state", "status"}, frame : Nat, part : Nat, can : Nat]

LEMMA TopicType ==
    ASSUME NEW s \in Seq(Message), NEW t PROVE Topic(s, t) \in Seq(Message)
BY PickedType DEF Topic

\* The messages of a topic in two sequences in a row; where there are none;
\* where there are no others.
LEMMA TopicConcat ==
    ASSUME NEW a \in Seq(Message), NEW b \in Seq(Message), NEW t
    PROVE  Topic(a \o b, t) = Topic(a, t) \o Topic(b, t)
<1>. DEFINE P == {i \in DOMAIN a : a[i].topic = t}
            Q == {i \in DOMAIN b : b[i].topic = t}
            w == a \o b
            R == {i \in DOMAIN w : w[i].topic = t}
<1>1. /\ Len(a) \in Nat /\ Len(b) \in Nat /\ DOMAIN a = 1..Len(a) /\ DOMAIN b = 1..Len(b)
      /\ DOMAIN w = 1..(Len(a) + Len(b))
      /\ \A i \in 1..(Len(a) + Len(b)) : w[i] = IF i <= Len(a) THEN a[i] ELSE b[i - Len(a)]
    BY LenProperties, ConcatProperties
<1>. HIDE DEF w
<1>2. \A i \in 1..Len(a) : i \in R <=> i \in P
    BY <1>1
<1>3. ASSUME NEW j \in 1..Len(b) PROVE Len(a) + j \in R <=> j \in Q
    <2>1. /\ Len(a) + j \in 1..(Len(a) + Len(b)) /\ ~(Len(a) + j <= Len(a))
          /\ (Len(a) + j) - Len(a) = j
        BY <1>1
    <2>2. w[Len(a) + j] = b[j]
        BY <1>1, <2>1
    <2>. QED
        BY <1>1, <2>1, <2>2
<1>. HIDE DEF P, Q, R
<1>4. Aligned(Len(a), Len(b), P, Q, R)
    BY <1>2, <1>3 DEF Aligned
<1>5. Picked(a \o b, R) = Picked(a, P) \o Picked(b, Q)
    BY <1>4, PickedConcat
<1>. QED
    BY <1>5 DEF Topic, P, Q, R, w

LEMMA TopicNone ==
    ASSUME NEW s \in Seq(Message), NEW t, \A i \in 1..Len(s) : s[i].topic # t
    PROVE  Topic(s, t) = <<>>
<1>. DEFINE P == {i \in DOMAIN s : s[i].topic = t}
<1>1. \A i \in 1..Len(s) : i \notin P
    OBVIOUS
<1>. HIDE DEF P
<1>2. Picked(s, P) = <<>>
    BY <1>1, PickedNone
<1>. QED
    BY <1>2 DEF Topic, P

LEMMA TopicEvery ==
    ASSUME NEW s \in Seq(Message), NEW t, \A i \in 1..Len(s) : s[i].topic = t
    PROVE  Topic(s, t) = s
<1>. DEFINE P == {i \in DOMAIN s : s[i].topic = t}
<1>1. \A i \in 1..Len(s) : i \in P
    BY LenProperties
<1>. HIDE DEF P
<1>2. Picked(s, P) = s
    BY <1>1, PickedEvery
<1>. QED
    BY <1>2 DEF Topic, P

LEMMA SeqOfFunction ==
    ASSUME NEW T, NEW n \in Nat, NEW q \in [1..n -> T] PROVE q \in Seq(T)
BY SeqDef

\* The frames of two sequences of messages in a row, and the events.
LEMMA FramesOfConcat ==
    ASSUME NEW a \in Seq(Message), NEW b \in Seq(Message)
    PROVE  /\ FramesOf(a) \in Seq(Nat) /\ FramesOf(b) \in Seq(Nat)
           /\ FramesOf(a \o b) = FramesOf(a) \o FramesOf(b)
<1>1. ASSUME NEW s \in Seq(Message)
      PROVE  /\ FramesOf(s) \in Seq(Nat) /\ Len(FramesOf(s)) = Len(s)
             /\ \A i \in 1..Len(s) : FramesOf(s)[i] = s[i].frame
    <2>1. Len(s) \in Nat /\ DOMAIN s = 1..Len(s) /\ \A i \in 1..Len(s) : s[i].frame \in Nat
        <3>1. Len(s) \in Nat /\ DOMAIN s = 1..Len(s) /\ \A i \in 1..Len(s) : s[i] \in Message
            BY LenProperties
        <3>2. \A m \in Message : m.frame \in Nat
            BY DEF Message
        <3>. QED
            BY <3>1, <3>2
    <2>2. FramesOf(s) = [i \in 1..Len(s) |-> s[i].frame]
        BY <2>1 DEF FramesOf
    <2>3. FramesOf(s) \in [1..Len(s) -> Nat]
        BY <2>1, <2>2
    <2>4. FramesOf(s) \in Seq(Nat)
        <3>1. Len(s) \in Nat
            BY <2>1
        <3>. QED
            BY <2>3, <3>1, SeqOfFunction
    <2>. QED
        BY <2>1, <2>2, <2>3, <2>4
<1>. DEFINE w == a \o b
            u == FramesOf(a) \o FramesOf(b)
<1>2. /\ w \in Seq(Message) /\ Len(w) = Len(a) + Len(b) /\ Len(a) \in Nat /\ Len(b) \in Nat
      /\ \A i \in 1..(Len(a) + Len(b)) : w[i] = IF i <= Len(a) THEN a[i] ELSE b[i - Len(a)]
    BY ConcatProperties, LenProperties
<1>3. /\ FramesOf(a) \in Seq(Nat) /\ Len(FramesOf(a)) = Len(a)
      /\ \A i \in 1..Len(a) : FramesOf(a)[i] = a[i].frame
    BY <1>1
<1>4. /\ FramesOf(b) \in Seq(Nat) /\ Len(FramesOf(b)) = Len(b)
      /\ \A i \in 1..Len(b) : FramesOf(b)[i] = b[i].frame
    BY <1>1
<1>5. /\ u \in Seq(Nat) /\ Len(u) = Len(a) + Len(b)
      /\ \A i \in 1..(Len(a) + Len(b)) :
            u[i] = IF i <= Len(a) THEN FramesOf(a)[i] ELSE FramesOf(b)[i - Len(a)]
    <2>. DEFINE p == FramesOf(a)
                q == FramesOf(b)
    <2>1. p \in Seq(Nat) /\ q \in Seq(Nat) /\ Len(p) = Len(a) /\ Len(q) = Len(b)
        BY <1>3, <1>4
    <2>. HIDE DEF p, q
    <2>2. /\ p \o q \in Seq(Nat) /\ Len(p \o q) = Len(p) + Len(q)
          /\ \A i \in 1..(Len(p) + Len(q)) : (p \o q)[i] = IF i <= Len(p) THEN p[i] ELSE q[i - Len(p)]
        BY <2>1, ConcatProperties
    <2>. QED
        BY <2>1, <2>2 DEF p, q
<1>. HIDE DEF w, u
<1>6. /\ FramesOf(w) \in Seq(Nat) /\ Len(FramesOf(w)) = Len(w)
      /\ \A i \in 1..Len(w) : FramesOf(w)[i] = w[i].frame
    BY <1>1, <1>2
<1>7. ASSUME NEW i \in 1..Len(w) PROVE FramesOf(w)[i] = u[i]
    <2>1. CASE i <= Len(a)
        <3>1. i \in 1..Len(a) /\ i \in 1..(Len(a) + Len(b))
            BY <1>2, <2>1
        <3>. QED
            BY <1>2, <1>3, <1>5, <1>6, <2>1, <3>1
    <2>2. CASE ~(i <= Len(a))
        <3>1. i - Len(a) \in 1..Len(b) /\ i \in 1..(Len(a) + Len(b))
            BY <1>2, <2>2
        <3>. QED
            BY <1>2, <1>4, <1>5, <1>6, <2>2, <3>1
    <2>. QED
        BY <2>1, <2>2
<1>8. FramesOf(w) = u
    BY <1>2, <1>5, <1>6, <1>7, SeqEqual
<1>. QED
    BY <1>3, <1>4, <1>8 DEF w, u

LEMMA EventsOfConcat ==
    ASSUME NEW a \in Seq(Message), NEW b \in Seq(Message)
    PROVE  /\ EventsOf(a) \in Seq(Nat \X Nat) /\ EventsOf(b) \in Seq(Nat \X Nat)
           /\ EventsOf(a \o b) = EventsOf(a) \o EventsOf(b)
<1>. DEFINE Pair == Nat \X Nat
<1>1. ASSUME NEW s \in Seq(Message)
      PROVE  /\ EventsOf(s) \in Seq(Pair) /\ Len(EventsOf(s)) = Len(s)
             /\ \A i \in 1..Len(s) : EventsOf(s)[i] = <<s[i].frame, s[i].part>>
    <2>1. Len(s) \in Nat /\ DOMAIN s = 1..Len(s) /\ \A i \in 1..Len(s) : <<s[i].frame, s[i].part>> \in Pair
        <3>1. Len(s) \in Nat /\ DOMAIN s = 1..Len(s) /\ \A i \in 1..Len(s) : s[i] \in Message
            BY LenProperties
        <3>2. \A m \in Message : m.frame \in Nat /\ m.part \in Nat
            BY DEF Message
        <3>. QED
            BY <3>1, <3>2
    <2>. HIDE DEF Pair
    <2>2. EventsOf(s) = [i \in 1..Len(s) |-> <<s[i].frame, s[i].part>>]
        BY <2>1 DEF EventsOf
    <2>3. EventsOf(s) \in [1..Len(s) -> Pair]
        BY <2>1, <2>2
    <2>4. EventsOf(s) \in Seq(Pair)
        <3>1. Len(s) \in Nat
            BY <2>1
        <3>. QED
            BY <2>3, <3>1, SeqOfFunction
    <2>. QED
        BY <2>1, <2>2, <2>3, <2>4
<1>. HIDE DEF Pair
<1>. DEFINE w == a \o b
            u == EventsOf(a) \o EventsOf(b)
<1>2. /\ w \in Seq(Message) /\ Len(w) = Len(a) + Len(b) /\ Len(a) \in Nat /\ Len(b) \in Nat
      /\ \A i \in 1..(Len(a) + Len(b)) : w[i] = IF i <= Len(a) THEN a[i] ELSE b[i - Len(a)]
    BY ConcatProperties, LenProperties
<1>3. /\ EventsOf(a) \in Seq(Pair) /\ Len(EventsOf(a)) = Len(a)
      /\ \A i \in 1..Len(a) : EventsOf(a)[i] = <<a[i].frame, a[i].part>>
    BY <1>1
<1>4. /\ EventsOf(b) \in Seq(Pair) /\ Len(EventsOf(b)) = Len(b)
      /\ \A i \in 1..Len(b) : EventsOf(b)[i] = <<b[i].frame, b[i].part>>
    BY <1>1
<1>5. /\ u \in Seq(Pair) /\ Len(u) = Len(a) + Len(b)
      /\ \A i \in 1..(Len(a) + Len(b)) :
            u[i] = IF i <= Len(a) THEN EventsOf(a)[i] ELSE EventsOf(b)[i - Len(a)]
    <2>. DEFINE p == EventsOf(a)
                q == EventsOf(b)
    <2>1. p \in Seq(Pair) /\ q \in Seq(Pair) /\ Len(p) = Len(a) /\ Len(q) = Len(b)
        BY <1>3, <1>4
    <2>. HIDE DEF p, q
    <2>2. /\ p \o q \in Seq(Pair) /\ Len(p \o q) = Len(p) + Len(q)
          /\ \A i \in 1..(Len(p) + Len(q)) : (p \o q)[i] = IF i <= Len(p) THEN p[i] ELSE q[i - Len(p)]
        BY <2>1, ConcatProperties
    <2>. QED
        BY <2>1, <2>2 DEF p, q
<1>. HIDE DEF w, u
<1>6. /\ EventsOf(w) \in Seq(Pair) /\ Len(EventsOf(w)) = Len(w)
      /\ \A i \in 1..Len(w) : EventsOf(w)[i] = <<w[i].frame, w[i].part>>
    BY <1>1, <1>2
<1>7. ASSUME NEW i \in 1..Len(w) PROVE EventsOf(w)[i] = u[i]
    <2>1. CASE i <= Len(a)
        <3>1. i \in 1..Len(a) /\ i \in 1..(Len(a) + Len(b))
            BY <1>2, <2>1
        <3>. QED
            BY <1>2, <1>3, <1>5, <1>6, <2>1, <3>1
    <2>2. CASE ~(i <= Len(a))
        <3>1. i - Len(a) \in 1..Len(b) /\ i \in 1..(Len(a) + Len(b))
            BY <1>2, <2>2
        <3>. QED
            BY <1>2, <1>4, <1>5, <1>6, <2>2, <3>1
    <2>. QED
        BY <2>1, <2>2
<1>8. EventsOf(w) = u
    BY <1>2, <1>5, <1>6, <1>7, SeqEqual
<1>. QED
    BY <1>3, <1>4, <1>8 DEF w, u, Pair

\* What the messages s tell: of which frames, which events and which status.
Told(s, frames, told, status) ==
    /\ FramesOf(Topic(s, "frames")) = frames
    /\ EventsOf(Topic(s, "events")) = told
    /\ FramesOf(Topic(s, "status")) = status

LEMMA ToldNothing == Told(<<>>, <<>>, <<>>, <<>>)
<1>1. <<>> \in Seq(Message) /\ Len(<<>>) = 0 /\ \A i \in 1..0 : FALSE
    BY EmptySeq
<1>2. \A t : Topic(<<>>, t) = <<>>
    BY <1>1, TopicNone
<1>3. FramesOf(<<>>) = <<>> /\ EventsOf(<<>>) = <<>>
    BY DEF FramesOf, EventsOf
<1>. QED
    BY <1>2, <1>3 DEF Told

\* Two sequences in a row tell what each of them tells.
LEMMA ToldConcat ==
    ASSUME NEW a \in Seq(Message), NEW b \in Seq(Message), NEW fa, NEW ea, NEW sa, NEW fb, NEW eb,
           NEW sb, Told(a, fa, ea, sa), Told(b, fb, eb, sb)
    PROVE  Told(a \o b, fa \o fb, ea \o eb, sa \o sb)
<1>1. ASSUME NEW t
      PROVE  /\ Topic(a, t) \in Seq(Message) /\ Topic(b, t) \in Seq(Message)
             /\ Topic(a \o b, t) = Topic(a, t) \o Topic(b, t)
    BY TopicType, TopicConcat
<1>2. FramesOf(Topic(a \o b, "frames")) = fa \o fb
    BY <1>1, FramesOfConcat DEF Told
<1>3. EventsOf(Topic(a \o b, "events")) = ea \o eb
    BY <1>1, EventsOfConcat DEF Told
<1>4. FramesOf(Topic(a \o b, "status")) = sa \o sb
    BY <1>1, FramesOfConcat DEF Told
<1>. QED
    BY <1>2, <1>3, <1>4 DEF Told

\* One message, or the events of a frame.
LEMMA ToldByOne ==
    ASSUME NEW f \in Nat, NEW part \in Nat, NEW can \in Nat,
           NEW topic \in {"frames", "can/state", "status"}
    PROVE  /\ <<Telemetry!Msg(topic, f, part, can)>> \in Seq(Message)
           /\ topic = "frames" => Told(<<Telemetry!Msg(topic, f, part, can)>>, <<f>>, <<>>, <<>>)
           /\ topic = "can/state" => Told(<<Telemetry!Msg(topic, f, part, can)>>, <<>>, <<>>, <<>>)
           /\ topic = "status" => Told(<<Telemetry!Msg(topic, f, part, can)>>, <<>>, <<>>, <<f>>)
<1>. DEFINE m == Telemetry!Msg(topic, f, part, can)
            s == <<m>>
<1>1. m \in Message /\ m.topic = topic /\ m.frame = f
    BY DEF Telemetry!Msg, Message
<1>. HIDE DEF m
<1>2. s \in Seq(Message) /\ Len(s) = 1 /\ s[1] = m /\ DOMAIN s = {1}
    BY <1>1
<1>3. FramesOf(s) = <<f>>
    <2>1. FramesOf(s) = [i \in {1} |-> s[i].frame]
        BY <1>2 DEF FramesOf
    <2>2. [i \in {1} |-> s[i].frame] = [i \in 1..1 |-> f]
        BY <1>1, <1>2
    <2>3. [i \in 1..1 |-> f] = <<f>>
        OBVIOUS
    <2>. QED
        BY <2>1, <2>2, <2>3
<1>4. FramesOf(<<>>) = <<>> /\ EventsOf(<<>>) = <<>>
    BY DEF FramesOf, EventsOf
<1>. HIDE DEF s
<1>5. \A i \in 1..Len(s) : s[i].topic = topic
    BY <1>1, <1>2
<1>6. Topic(s, topic) = s
    BY <1>2, <1>5, TopicEvery
<1>7. ASSUME NEW t, t # topic PROVE Topic(s, t) = <<>>
    BY <1>2, <1>5, <1>7, TopicNone
<1>8. "events" # topic
    OBVIOUS
<1>. QED
    BY <1>2, <1>3, <1>4, <1>6, <1>7, <1>8 DEF Told, s, m

LEMMA ToldByEvents ==
    ASSUME NEW f \in Nat, NEW n \in Nat, NEW can \in Nat
    PROVE  /\ [e \in 1..n |-> Telemetry!Msg("events", f, e, can)] \in Seq(Message)
           /\ Told([e \in 1..n |-> Telemetry!Msg("events", f, e, can)],
                   <<>>, [e \in 1..n |-> <<f, e>>], <<>>)
<1>. DEFINE s == [e \in 1..n |-> Telemetry!Msg("events", f, e, can)]
<1>1. \A e \in 1..n : /\ Telemetry!Msg("events", f, e, can) \in Message
                      /\ Telemetry!Msg("events", f, e, can).topic = "events"
                      /\ Telemetry!Msg("events", f, e, can).frame = f
                      /\ Telemetry!Msg("events", f, e, can).part = e
    BY DEF Telemetry!Msg, Message
<1>2. s \in [1..n -> Message] /\ DOMAIN s = 1..n
      /\ \A e \in 1..n : s[e].topic = "events" /\ s[e].frame = f /\ s[e].part = e
    BY <1>1
<1>. HIDE DEF s
<1>3. s \in Seq(Message)
    BY <1>2, SeqDef
<1>4. Len(s) = n
    BY <1>2, <1>3, LenProperties
<1>5. EventsOf(s) = [e \in 1..n |-> <<f, e>>]
    BY <1>2 DEF EventsOf
<1>6. FramesOf(<<>>) = <<>>
    BY DEF FramesOf
<1>7. Topic(s, "events") = s
    BY <1>2, <1>3, <1>4, TopicEvery
<1>8. Topic(s, "frames") = <<>>
    <2>1. \A i \in 1..Len(s) : s[i].topic # "frames"
        BY <1>2, <1>4
    <2>. QED
        BY <1>3, <2>1, TopicNone
<1>9. Topic(s, "status") = <<>>
    <2>1. \A i \in 1..Len(s) : s[i].topic # "status"
        BY <1>2, <1>4
    <2>. QED
        BY <1>3, <2>1, TopicNone
<1>. QED
    BY <1>3, <1>5, <1>6, <1>7, <1>8, <1>9 DEF Told, s

\* The messages of a frame tell of it and its events, the last one told of the status.
LEMMA ToldByFrame ==
    ASSUME NEW f \in Nat, NEW n \in Nat, NEW can \in Nat
    PROVE  /\ Telemetry!FrameMessages(f, n, can) \in Seq(Message)
           /\ Told(Telemetry!FrameMessages(f, n, can), <<f>>, [e \in 1..n |-> <<f, e>>], <<>>)
<1>. DEFINE Summary == <<Telemetry!Msg("frames", f, 0, can)>>
            Events == [e \in 1..n |-> Telemetry!Msg("events", f, e, can)]
            State == IF can = 0 THEN <<>> ELSE <<Telemetry!Msg("can/state", f, n + 1, can)>>
            told == [e \in 1..n |-> <<f, e>>]
<1>1. Summary \in Seq(Message) /\ Told(Summary, <<f>>, <<>>, <<>>)
    BY ToldByOne
<1>2. Events \in Seq(Message) /\ Told(Events, <<>>, told, <<>>)
    BY ToldByEvents
<1>3. State \in Seq(Message) /\ Told(State, <<>>, <<>>, <<>>)
    <2>1. CASE can = 0
        BY <2>1, EmptySeq, ToldNothing
    <2>2. CASE can # 0
        <3>1. n + 1 \in Nat
            OBVIOUS
        <3>2. /\ <<Telemetry!Msg("can/state", f, n + 1, can)>> \in Seq(Message)
              /\ Told(<<Telemetry!Msg("can/state", f, n + 1, can)>>, <<>>, <<>>, <<>>)
            BY <3>1, ToldByOne
        <3>. QED
            BY <2>2, <3>2
    <2>. QED
        BY <2>1, <2>2
<1>4. Telemetry!FrameMessages(f, n, can) = (Summary \o Events) \o State
    BY DEF Telemetry!FrameMessages
<1>5. told \in Seq(Nat \X Nat) /\ <<f>> \in Seq(Nat)
    <2>1. told \in [1..n -> Nat \X Nat]
        OBVIOUS
    <2>. HIDE DEF told
    <2>. QED
        BY <2>1, SeqDef
<1>. HIDE DEF Summary, Events, State, told
<1>6. Summary \o Events \in Seq(Message) /\ Told(Summary \o Events, <<f>> \o <<>>, <<>> \o told, <<>> \o <<>>)
    BY <1>1, <1>2, ConcatProperties, ToldConcat
<1>7. /\ (Summary \o Events) \o State \in Seq(Message)
      /\ Told((Summary \o Events) \o State, (<<f>> \o <<>>) \o <<>>, (<<>> \o told) \o <<>>, (<<>> \o <<>>) \o <<>>)
    BY <1>3, <1>6, ConcatProperties, ToldConcat
<1>8. <<>> \o <<>> = <<>> /\ <<f>> \o <<>> = <<f>> /\ <<>> \o told = told /\ told \o <<>> = told
    BY <1>5, EmptySeq, ConcatEmptySeq
<1>. QED
    BY <1>4, <1>7, <1>8 DEF told

----------------------------------------------------------------------------
(***************************************************************************)
(* Telemetry.  What the queue took and what it is still to take tell of    *)
(* every frame analysed, of the result's events and, at the end, of the    *)
(* status; and all of it is handed over.                                   *)
(***************************************************************************)
TelemetryTypes ==
    /\ tItems \in Seq(Message) /\ tTodo \in Seq(Message) /\ tHeld \in Seq(Message)
    /\ tAccepted \in Seq(Message) /\ tHanded \in Seq(Message)

\* What was accepted is what was handed over, what the worker holds, and what
\* is queued; the worker is there from the start and leaves nothing behind.
HandedInOrder == tAccepted = (tHanded \o tHeld) \o tItems
TelemetryLife ==
    /\ tWorker # "publishing" => tHeld = <<>>
    /\ tWorker = "done" => tClosed /\ tItems = <<>>
    /\ tClosed => tTodo = <<>> /\ tPhase \in {"stopping", "stopped"}
    /\ main # "starting" /\ config.telemetry => tWorker # "none"

TelemetryInv == TelemetryTypes /\ HandedInOrder /\ TelemetryLife

\* With telemetry no frame is late: the source ends before, or the limit does.
NeverLate ==
    config.telemetry =>
        /\ grabbed # Late /\ frame # Late
        /\ \A i \in 1..Len(frameItems) : frameItems[i] # Late

Spoken == tAccepted \o tTodo

\* Where the status has been reported.
Reported == {"stopping", "stoppingCan", "joiningCan", "returned"}
TellsAll ==
    /\ main = "sending" =>
          \E fs \in Seq(Nat), es \in Seq(Nat \X Nat) :
              /\ Told(Spoken, fs, es, <<>>)
              /\ analysed = fs \o <<frame>> /\ result = es \o [e \in 1..events |-> <<frame, e>>]
    /\ main \notin Reported \cup {"sending"} => Told(Spoken, analysed, result, <<>>)
    /\ main \in Reported => /\ Told(Spoken, analysed, result, <<Len(analysed)>>)
                            /\ Spoken # <<>> /\ Spoken[Len(Spoken)].topic = "status"

Telling == config.telemetry /\ TelemetryCapacity > 0 /\ main # "aborted" => TellsAll

LEMMA MessagesAssociate ==
    ASSUME NEW u \in Seq(Message), NEW v \in Seq(Message), NEW w \in Seq(Message)
    PROVE  (u \o v) \o w = u \o (v \o w)
BY ConcatAssociative, SMTT(20)

\* A message that is pushed goes from the call to the back of the queue.
LEMMA PushTelemetry ==
    ASSUME TelemetryInv, PushMessage
    PROVE  TelemetryInv' /\ (TelemetryCapacity > 0 => Spoken' = Spoken)
<1>1. /\ tTodo # <<>> /\ tTodo' = Tail(tTodo)
      /\ UNCHANGED <<config, main, tPhase, tWorker, tHeld, tHanded, tClosed>>
    BY DEF PushMessage, Telemetry!PublishAsync, Telemetry!Store, Telemetry!Refuse, Telemetry!Discard,
           Telemetry!queue
<1>2. Head(tTodo) \in Message /\ Tail(tTodo) \in Seq(Message)
    BY <1>1, HeadTailProperties DEF TelemetryInv, TelemetryTypes
<1>3. ~tClosed
    BY <1>1 DEF TelemetryInv, TelemetryLife
<1>4. TelemetryCapacity \in Nat
    BY SizesAssumption
<1>. DEFINE m == <<Head(tTodo)>>
<1>5. m \in Seq(Message)
    BY <1>2
<1>6. tTodo = m \o Tail(tTodo)
    <2>1. tTodo \in Seq(Message)
        BY DEF TelemetryInv, TelemetryTypes
    <2>. QED
        BY <1>1, <2>1
<1>7. CASE Telemetry!Store(Head(tTodo)) /\ tAccepted' = Append(tAccepted, Head(tTodo))
    <2>1. tItems' = Append(tItems, Head(tTodo))
        BY <1>7 DEF Telemetry!Store
    <2>2. tAccepted' = tAccepted \o m /\ tItems' = tItems \o m
        BY <1>2, <1>7, <2>1, AppendIsConcat DEF TelemetryInv, TelemetryTypes
    <2>. HIDE DEF m
    <2>3. /\ tAccepted \in Seq(Message) /\ tItems \in Seq(Message) /\ tHanded \in Seq(Message)
          /\ tHeld \in Seq(Message)
        BY DEF TelemetryInv, TelemetryTypes
    <2>4. tAccepted' \in Seq(Message) /\ tItems' \in Seq(Message) /\ tHanded \o tHeld \in Seq(Message)
        BY <1>5, <2>2, <2>3, ConcatProperties
    <2>5. ((tHanded \o tHeld) \o tItems) \o m = (tHanded \o tHeld) \o (tItems \o m)
        <3>1. tHanded \o tHeld \in Seq(Message)
            BY <2>4
        <3>. QED
            BY <1>5, <2>3, <3>1, MessagesAssociate, Zenon
    <2>6. (tAccepted \o m) \o Tail(tTodo) = tAccepted \o (m \o Tail(tTodo))
        <3>1. tAccepted \in Seq(Message) /\ m \in Seq(Message) /\ Tail(tTodo) \in Seq(Message)
            BY <1>2, <1>5, <2>3
        <3>. QED
            BY <3>1, MessagesAssociate, Zenon
    <2>7. Spoken' = Spoken
        BY <1>1, <1>6, <2>2, <2>6 DEF Spoken
    <2>8. TelemetryTypes'
        BY <1>1, <1>2, <2>3, <2>4 DEF TelemetryTypes
    <2>9. HandedInOrder'
        BY <1>1, <2>2, <2>5 DEF TelemetryInv, HandedInOrder
    <2>10. TelemetryLife'
        BY <1>1, <1>3 DEF TelemetryInv, TelemetryLife
    <2>. QED
        BY <2>7, <2>8, <2>9, <2>10 DEF TelemetryInv
<1>8. CASE TelemetryCapacity = 0 /\ UNCHANGED <<tItems, tAccepted>>
    <2>1. TelemetryTypes'
        BY <1>1, <1>2, <1>8 DEF TelemetryInv, TelemetryTypes
    <2>2. HandedInOrder'
        BY <1>1, <1>8 DEF TelemetryInv, HandedInOrder
    <2>3. TelemetryLife'
        BY <1>1, <1>3 DEF TelemetryInv, TelemetryLife
    <2>. QED
        BY <1>4, <1>8, <2>1, <2>2, <2>3 DEF TelemetryInv
<1>9. CASE Telemetry!Refuse
    BY <1>3, <1>9 DEF Telemetry!Refuse
<1>. QED
    BY <1>7, <1>8, <1>9 DEF PushMessage, Telemetry!PublishAsync, Telemetry!Discard, Telemetry!queue

\* The worker takes a message from the front of the queue and hands it over.
LEMMA WorkerTelemetry ==
    ASSUME TelemetryInv, WorkerStep
    PROVE  TelemetryInv' /\ UNCHANGED <<tAccepted, tTodo>>
<1>1. UNCHANGED <<config, main, tPhase, tTodo, tAccepted, tClosed>>
    BY DEF WorkerStep, Telemetry!WorkerPops, Telemetry!WorkerPublishes, Telemetry!WorkerExits,
           Telemetry!Take, Telemetry!Drained, Telemetry!queue
<1>2. /\ tAccepted \in Seq(Message) /\ tItems \in Seq(Message) /\ tHanded \in Seq(Message)
      /\ tHeld \in Seq(Message) /\ tTodo \in Seq(Message) /\ tAccepted = (tHanded \o tHeld) \o tItems
    BY DEF TelemetryInv, TelemetryTypes, HandedInOrder
<1>3. CASE Telemetry!WorkerPops
    <2>1. /\ tItems # <<>> /\ tItems' = Tail(tItems) /\ tHeld' = <<Head(tItems)>>
          /\ tWorker = "popping" /\ tWorker' = "publishing" /\ UNCHANGED tHanded
        BY <1>3 DEF Telemetry!WorkerPops, Telemetry!Take
    <2>2. Head(tItems) \in Message /\ Tail(tItems) \in Seq(Message)
        BY <1>2, <2>1, HeadTailProperties
    <2>3. tHeld' \in Seq(Message) /\ tItems = tHeld' \o Tail(tItems)
        BY <1>2, <2>1, <2>2
    <2>4. tHeld = <<>>
        BY <2>1 DEF TelemetryInv, TelemetryLife
    <2>5. tHanded \o tHeld = tHanded
        BY <1>2, <2>4, ConcatEmptySeq
    <2>6. tHanded \o (tHeld' \o Tail(tItems)) = (tHanded \o tHeld') \o Tail(tItems)
        <3>1. tHanded \in Seq(Message) /\ tHeld' \in Seq(Message) /\ Tail(tItems) \in Seq(Message)
            BY <1>2, <2>2, <2>3
        <3>. QED
            BY <3>1, MessagesAssociate, Zenon
    <2>7. HandedInOrder'
        BY <1>1, <1>2, <2>1, <2>3, <2>5, <2>6 DEF HandedInOrder
    <2>8. TelemetryTypes'
        BY <1>1, <1>2, <2>1, <2>2, <2>3 DEF TelemetryTypes
    <2>9. TelemetryLife'
        BY <1>1, <2>1 DEF TelemetryInv, TelemetryLife
    <2>. QED
        BY <1>1, <2>7, <2>8, <2>9 DEF TelemetryInv
<1>4. CASE Telemetry!WorkerPublishes
    <2>1. /\ tHanded' = tHanded \o tHeld /\ tHeld' = <<>> /\ tWorker = "publishing"
          /\ tWorker' = "popping" /\ UNCHANGED tItems
        BY <1>4 DEF Telemetry!WorkerPublishes
    <2>2. tHanded' \in Seq(Message) /\ tHeld' \in Seq(Message) /\ tHanded' \o tHeld' = tHanded'
        BY <1>2, <2>1, ConcatProperties, ConcatEmptySeq, EmptySeq
    <2>3. HandedInOrder'
        BY <1>1, <1>2, <2>1, <2>2 DEF HandedInOrder
    <2>4. TelemetryTypes'
        BY <1>1, <1>2, <2>1, <2>2 DEF TelemetryTypes
    <2>5. TelemetryLife'
        BY <1>1, <2>1 DEF TelemetryInv, TelemetryLife
    <2>. QED
        BY <1>1, <2>3, <2>4, <2>5 DEF TelemetryInv
<1>5. CASE Telemetry!WorkerExits
    <2>1. /\ tItems = <<>> /\ tClosed /\ UNCHANGED <<tItems, tHeld, tHanded>>
          /\ tWorker = "popping" /\ tWorker' = "done"
        BY <1>5 DEF Telemetry!WorkerExits, Telemetry!Drained, Telemetry!PopMayProceed, Telemetry!queue
    <2>2. HandedInOrder' /\ TelemetryTypes'
        BY <1>1, <1>2, <2>1 DEF HandedInOrder, TelemetryTypes
    <2>3. TelemetryLife'
        BY <1>1, <2>1 DEF TelemetryInv, TelemetryLife
    <2>. QED
        BY <1>1, <2>2, <2>3 DEF TelemetryInv
<1>. QED
    BY <1>3, <1>4, <1>5 DEF WorkerStep

\* A step that says nothing, in the same part of the run.
LEMMA NothingSaid ==
    ASSUME UNCHANGED <<config, analysed, result>>, TelemetryCapacity > 0 => Spoken' = Spoken,
           Telling,
           \/ main' = "aborted"
           \/ UNCHANGED <<main, frame, events>>
           \/ main \in Reported /\ main' \in Reported
           \/ /\ main \notin Reported \cup {"sending", "aborted"}
              /\ main' \notin Reported \cup {"sending"}
    PROVE  Telling'
<1>1. TelemetryCapacity > 0 => Spoken' = Spoken
    OBVIOUS
<1>2. CASE main' = "aborted"
    BY <1>2 DEF Telling
<1>3. CASE UNCHANGED <<main, frame, events>>
    BY <1>1, <1>3 DEF Telling, TellsAll, Told
<1>4. CASE main \in Reported /\ main' \in Reported
    <2>1. main # "aborted" /\ main # "sending" /\ main' # "sending" /\ main' # "aborted"
        BY <1>4 DEF Reported
    <2>. QED
        BY <1>1, <1>4, <2>1 DEF Telling, TellsAll, Told
<1>5. CASE /\ main \notin Reported \cup {"sending", "aborted"}
           /\ main' \notin Reported \cup {"sending"}
    BY <1>1, <1>5 DEF Telling, TellsAll, Told
<1>. QED
    BY <1>2, <1>3, <1>4, <1>5

LEMMA InitComplete == Init => TelemetryInv /\ NeverLate /\ Telling
<1> SUFFICES ASSUME Init PROVE TelemetryInv /\ NeverLate /\ Telling
    OBVIOUS
<1>1. /\ tItems = <<>> /\ tTodo = <<>> /\ tHeld = <<>> /\ tAccepted = <<>> /\ tHanded = <<>>
      /\ tClosed = FALSE /\ tWorker = "none" /\ main = "starting"
    BY DEF Init, Telemetry!PublisherInit, Telemetry!QueueInit
<1>2. <<>> \in Seq(Message) /\ <<>> \o <<>> = <<>>
    BY EmptySeq, ConcatEmptySeq
<1>3. TelemetryTypes
    BY <1>1, <1>2 DEF TelemetryTypes
<1>4. HandedInOrder
    BY <1>1, <1>2 DEF HandedInOrder
<1>5. TelemetryLife
    BY <1>1 DEF TelemetryLife
<1>6. NeverLate
    <2>1. grabbed = 0 /\ frame = 0 /\ frameItems = <<>> /\ Late \in Nat /\ Late > 0
        BY LateType DEF Init, Queue!QueueInit
    <2>. QED
        BY <2>1 DEF NeverLate
<1>7. Telling
    <2>1. analysed = <<>> /\ result = <<>>
        BY DEF Init
    <2>2. Told(Spoken, analysed, result, <<>>)
        BY <1>1, <1>2, <2>1, ToldNothing DEF Spoken
    <2>. QED
        BY <1>1, <2>2 DEF Telling, TellsAll, Reported
<1>. QED
    BY <1>3, <1>4, <1>5, <1>6, <1>7 DEF TelemetryInv

\* What is read stays within the limit or the file, and what moves was read.
LEMMA NeverLateKept ==
    ASSUME FramesInv, NeverLate, [Next]_vars
    PROVE  NeverLate'
<1>. USE LateType
<1>1. frameItems \in Seq(1..Late) /\ grabbed \in 0..Late /\ frame \in 0..Late
    BY DEF FramesInv, FrameTypes
<1>2. CASE ReadFrame
    <2> SUFFICES ASSUME config.telemetry PROVE grabbed' # Late
        BY <1>2 DEF NeverLate, ReadFrame, frameVars, analysisVars
    <2>1. grabbed # Late /\ grabbed' = grabbed + 1 /\ capture = "reading" /\ ~LimitReached
        BY <1>2 DEF NeverLate, ReadFrame
    <2>2. CASE config.source = "file"
        BY <1>1, <1>2, <2>1, <2>2 DEF ReadFrame
    <2>3. CASE config.source # "file"
        <3>1. config.frameCount > 0 /\ config.frameCount <= SourceFrames
            BY <2>3, ConfigsAssumption DEF FramesInv, FrameTypes
        <3>2. config.frameCount \in Int /\ processed \in Nat
            BY ConfigTypes DEF FramesInv, FrameTypes
        <3>3. processed < config.frameCount
            BY <2>1, <3>1, <3>2 DEF LimitReached
        <3>4. frame <= processed /\ \A i \in 1..Len(frameItems) : frameItems[i] <= processed
            BY <3>1 DEF FramesInv, WithinLimit
        <3>5. grabbed = LastPushed
            BY <2>1 DEF FramesInv, Pushed
        <3>6. grabbed <= processed
            <4>1. CASE frameItems = <<>>
                BY <3>4, <3>5, <4>1 DEF LastPushed
            <4>2. CASE frameItems # <<>>
                <5>1. Len(frameItems) \in 1..Len(frameItems)
                    BY <1>1, <4>2, EmptySeq, LenProperties
                <5>. QED
                    BY <3>4, <3>5, <4>2, <5>1 DEF LastPushed
            <4>. QED
                BY <4>1, <4>2
        <3>. QED
            BY <1>1, <2>1, <3>1, <3>2, <3>3, <3>6
    <2>. QED
        BY <2>2, <2>3
<1>3. CASE PushFrame
    <2>1. UNCHANGED <<config, grabbed, frame>> /\ frameItems' \in {frameItems, Append(frameItems, grabbed)}
        BY <1>3 DEF PushFrame, Queue!Store, Queue!Refuse, Queue!queue, analysisVars
    <2>2. grabbed \in 1..Late \/ frameItems' = frameItems
        BY <1>1, <1>3 DEF PushFrame, FramesInv, Pushed, Following, LastPushed
    <2>3. CASE frameItems' = frameItems
        BY <2>1, <2>3 DEF NeverLate
    <2>4. CASE frameItems' = Append(frameItems, grabbed) /\ grabbed \in 1..Late
        BY <1>1, <2>1, <2>4 DEF NeverLate
    <2>. QED
        BY <2>1, <2>2, <2>3, <2>4
<1>4. CASE PopFrame
    <2>1. /\ UNCHANGED <<config, grabbed>> /\ frameItems # <<>>
          /\ frame' = Head(frameItems) /\ frameItems' = Tail(frameItems)
        BY <1>4 DEF PopFrame, Queue!Take, captureVars
    <2>. QED
        BY <1>1, <2>1 DEF NeverLate
<1>5. CASE UNCHANGED <<config, grabbed, frame, frameItems>>
    BY <1>5 DEF NeverLate
<1>6. CASE OpenSource \/ ReadEnds \/ ReadThrows \/ CloseQueue
    <2>1. UNCHANGED <<config, grabbed, frame, frameItems>>
        BY <1>6 DEF OpenSource, ReadEnds, ReadThrows, CloseQueue, Queue!Shut, frameVars, analysisVars
    <2>. QED
        BY <1>5, <2>1
<1>7. CASE StartRun \/ PopNothing \/ Analyse \/ AnalysisThrows \/ SendSummary \/ PushMessage \/ Show
            \/ NoShow \/ Draw \/ Closing \/ Others
    <2>1. UNCHANGED <<config, grabbed, frame, frameItems>>
        BY <1>7 DEF StartRun, PopNothing, Analyse, AnalysisThrows, SendSummary, PushMessage, Show,
                    NoShow, Draw, Closing, Others, JoinCapture, JoinStream, ReportStatus,
                    StopTelemetry, StopCan, JoinCan, WorkerStep, CanFrame, CanExits, StreamExits,
                    PressKey, Queue!Drained, Queue!Shut, Queue!queue, frameVars, captureVars,
                    analysisVars
    <2>. QED
        BY <1>5, <2>1
<1>8. CASE UNCHANGED vars
    BY <1>5, <1>8 DEF vars, frameVars, captureVars, analysisVars
<1>. QED
    BY <1>2, <1>3, <1>4, <1>6, <1>7, <1>8 DEF Next, Capture, Main, Closing, Others

\* The steps of the run that leave telemetry and what it is to tell alone.
SilentMain == PopFrame \/ PopNothing \/ AnalysisThrows \/ Show \/ NoShow \/ Draw \/ JoinCapture
              \/ JoinStream \/ StopCan \/ JoinCan
SilentOthers == Capture \/ CanFrame \/ CanExits \/ StreamExits \/ PressKey

\* They change nothing of it, and none of them is the report.
LEMMA SilentSteps ==
    ASSUME SilentMain \/ SilentOthers \/ UNCHANGED vars, main # "aborted" \/ UNCHANGED vars
    PROVE  /\ UNCHANGED <<config, telemetryVars, analysed, result>>
           /\ main # "starting" \/ main' = main
           /\ \/ main' = "aborted"
              \/ UNCHANGED <<main, frame, events>>
              \/ main \in Reported /\ main' \in Reported
              \/ /\ main \notin Reported \cup {"sending", "aborted"}
                 /\ main' \notin Reported \cup {"sending"}
<1>1. CASE PopFrame \/ PopNothing
    BY <1>1 DEF PopFrame, PopNothing, analysisVars, Reported
<1>2. CASE AnalysisThrows \/ NoShow \/ Draw
    BY <1>2 DEF AnalysisThrows, NoShow, Draw, analysisVars, Reported
<1>3. CASE Show
    BY <1>3 DEF Show, analysisVars, Reported
<1>4. CASE JoinCapture \/ JoinStream \/ StopCan \/ JoinCan
    BY <1>4 DEF JoinCapture, JoinStream, StopCan, JoinCan, analysisVars, Reported
<1>5. CASE Capture
    BY <1>5 DEF Capture, OpenSource, ReadFrame, ReadEnds, ReadThrows, PushFrame, CloseQueue,
                analysisVars
<1>6. CASE CanFrame \/ CanExits \/ StreamExits \/ PressKey
    BY <1>6 DEF CanFrame, CanExits, StreamExits, PressKey, analysisVars
<1>7. CASE UNCHANGED vars
    BY <1>7 DEF vars, analysisVars
<1>. QED
    BY <1>1, <1>2, <1>3, <1>4, <1>5, <1>6, <1>7 DEF SilentMain, SilentOthers

\* What publishFrameSummary and publishStatus put into the call to push.
LEMMA SummarySpoken ==
    ASSUME TypesInv, SendSummary, config.telemetry
    PROVE  /\ tPhase = "running" /\ tTodo = <<>> /\ main = "sending" /\ main' = "showing"
           /\ tTodo' = Telemetry!FrameMessages(frame, events, snapshot)
           /\ tTodo' \in Seq(Message)
           /\ Told(tTodo', <<frame>>, [e \in 1..events |-> <<frame, e>>], <<>>)
           /\ UNCHANGED <<config, frame, events, analysed, result, tItems, tClosed, tPhase, tWorker,
                          tHeld, tAccepted, tHanded>>
<1>1. frame \in Nat /\ events \in Nat /\ snapshot \in Nat
    BY LateType, SizesAssumption DEF TypesInv, Histories, Figures, SendSummary
<1>2. /\ tPhase = "running" /\ tTodo = <<>> /\ main = "sending" /\ main' = "showing"
      /\ tTodo' = Telemetry!FrameMessages(frame, events, snapshot)
      /\ UNCHANGED <<config, frame, events, analysed, result, tItems, tClosed, tPhase, tWorker,
                     tHeld, tAccepted, tHanded>>
    BY DEF SendSummary, Telemetry!PublishFrameSummary, analysisVars
<1>3. /\ Telemetry!FrameMessages(frame, events, snapshot) \in Seq(Message)
      /\ Told(Telemetry!FrameMessages(frame, events, snapshot), <<frame>>,
              [e \in 1..events |-> <<frame, e>>], <<>>)
    BY <1>1, ToldByFrame
<1>. QED
    BY <1>2, <1>3

LEMMA StatusSpoken ==
    ASSUME TypesInv, ReportStatus, config.telemetry
    PROVE  /\ tPhase = "running" /\ tTodo = <<>> /\ main = "reporting" /\ main' = "stopping"
           /\ tTodo' = <<Telemetry!Msg("status", Len(analysed), 0, 0)>>
           /\ tTodo' \in Seq(Message)
           /\ Told(tTodo', <<>>, <<>>, <<Len(analysed)>>)
           /\ UNCHANGED <<config, frame, events, analysed, result, tItems, tClosed, tPhase, tWorker,
                          tHeld, tAccepted, tHanded>>
<1>1. Len(analysed) \in Nat
    BY LenProperties DEF TypesInv, Histories
<1>2. /\ tPhase = "running" /\ tTodo = <<>> /\ main = "reporting" /\ main' = "stopping"
      /\ tTodo' = <<Telemetry!Msg("status", Len(analysed), 0, 0)>>
      /\ UNCHANGED <<config, frame, events, analysed, result, tItems, tClosed, tPhase, tWorker,
                     tHeld, tAccepted, tHanded>>
    BY DEF ReportStatus, Telemetry!PublishStatus, analysisVars
<1>3. /\ <<Telemetry!Msg("status", Len(analysed), 0, 0)>> \in Seq(Message)
      /\ Told(<<Telemetry!Msg("status", Len(analysed), 0, 0)>>, <<>>, <<>>, <<Len(analysed)>>)
    BY <1>1, ToldByOne
<1>. QED
    BY <1>2, <1>3

\* Every step keeps the order of the messages and the life of the worker.
LEMMA TelemetryKept ==
    ASSUME Lives, TypesInv, TelemetryInv, [Next]_vars
    PROVE  TelemetryInv'
<1>1. CASE PushMessage
    BY <1>1, PushTelemetry
<1>2. CASE WorkerStep
    BY <1>2, WorkerTelemetry
<1>3. CASE (SilentMain \/ SilentOthers \/ UNCHANGED vars) /\ (main # "aborted" \/ UNCHANGED vars)
    <2>1. UNCHANGED <<config, telemetryVars>> /\ (main # "starting" \/ main' = main)
        BY <1>3, SilentSteps
    <2>. QED
        BY <2>1 DEF telemetryVars, TelemetryInv, TelemetryTypes, HandedInOrder, TelemetryLife
<1>4. CASE Analyse
    <2>1. UNCHANGED <<config, telemetryVars>> /\ main # "starting"
        BY <1>4 DEF Analyse
    <2>. QED
        BY <2>1 DEF telemetryVars, TelemetryInv, TelemetryTypes, HandedInOrder, TelemetryLife
<1>5. CASE StartRun
    <2>1. CASE config.telemetry
        <3>1. /\ UNCHANGED <<tItems, tClosed, tTodo, tHeld, tAccepted, tHanded>>
              /\ tPhase = "created" /\ tWorker' = "popping" /\ main = "starting"
            BY <1>5, <2>1 DEF StartRun, Telemetry!StartThread
        <3>2. ~tClosed /\ tHeld = <<>>
            BY <2>1, <3>1 DEF TelemetryInv, TelemetryLife, Lives, WorkerLife
        <3>. QED
            BY <3>1, <3>2 DEF TelemetryInv, TelemetryTypes, HandedInOrder, TelemetryLife
    <2>2. CASE ~config.telemetry
        <3>1. UNCHANGED <<config, telemetryVars>>
            BY <1>5, <2>2 DEF StartRun
        <3>. QED
            BY <2>2, <3>1 DEF telemetryVars, TelemetryInv, TelemetryTypes, HandedInOrder, TelemetryLife
    <2>. QED
        BY <2>1, <2>2
<1>6. CASE SendSummary \/ ReportStatus
    <2>1. CASE config.telemetry
        <3>1. /\ tPhase = "running" /\ tTodo' \in Seq(Message) /\ main # "starting"
              /\ UNCHANGED <<config, tItems, tClosed, tPhase, tWorker, tHeld, tAccepted, tHanded>>
            BY <1>6, <2>1, SummarySpoken, StatusSpoken
        <3>2. ~tClosed
            BY <3>1 DEF TelemetryInv, TelemetryLife
        <3>. QED
            BY <3>1, <3>2 DEF TelemetryInv, TelemetryTypes, HandedInOrder, TelemetryLife
    <2>2. CASE ~config.telemetry
        <3>1. UNCHANGED <<config, telemetryVars>>
            BY <1>6, <2>2 DEF SendSummary, ReportStatus
        <3>. QED
            BY <2>2, <3>1 DEF telemetryVars, TelemetryInv, TelemetryTypes, HandedInOrder, TelemetryLife
    <2>. QED
        BY <2>1, <2>2
<1>7. CASE StopTelemetry
    <2>1. /\ UNCHANGED <<config, tItems, tTodo, tWorker, tHeld, tAccepted, tHanded>>
          /\ main = "stopping"
        BY <1>7 DEF StopTelemetry, Telemetry!StopCloses, Telemetry!StopJoins, Telemetry!Shut
    <2>2. CASE Telemetry!StopCloses
        <3>1. tTodo = <<>> /\ tClosed' = TRUE /\ tPhase' = "stopping"
            BY <2>2 DEF Telemetry!StopCloses, Telemetry!Shut
        <3>. QED
            BY <2>1, <3>1 DEF TelemetryInv, TelemetryTypes, HandedInOrder, TelemetryLife
    <2>3. CASE Telemetry!StopJoins
        <3>1. tClosed' = tClosed /\ tPhase' = "stopped"
            BY <2>3 DEF Telemetry!StopJoins
        <3>. QED
            BY <2>1, <3>1 DEF TelemetryInv, TelemetryTypes, HandedInOrder, TelemetryLife
    <2>. QED
        BY <1>7, <2>2, <2>3 DEF StopTelemetry
<1>. QED
    BY <1>1, <1>2, <1>3, <1>4, <1>5, <1>6, <1>7 DEF Next, Main, SilentMain, SilentOthers

\* What is to be told grows by the frame analysed, and then by its messages.
LEMMA TellingKept ==
    ASSUME TypesInv, TelemetryInv, NeverLate, Telling, [Next]_vars
    PROVE  Telling'
<1> SUFFICES ASSUME config'.telemetry, TelemetryCapacity > 0, main' # "aborted"
             PROVE  TellsAll'
    BY DEF Telling
<1>1. CASE PushMessage
    <2>1. UNCHANGED <<config, main, frame, events, analysed, result>>
        BY <1>1 DEF PushMessage, analysisVars
    <2>2. TelemetryCapacity > 0 => Spoken' = Spoken
        BY <1>1, PushTelemetry
    <2>3. Telling'
        BY <2>1, <2>2, NothingSaid
    <2>. QED
        BY <2>3 DEF Telling
<1>2. CASE WorkerStep
    <2>1. UNCHANGED <<config, main, frame, events, analysed, result>>
        BY <1>2 DEF WorkerStep, analysisVars
    <2>2. TelemetryCapacity > 0 => Spoken' = Spoken
        BY <1>2, WorkerTelemetry DEF Spoken
    <2>3. Telling'
        BY <2>1, <2>2, NothingSaid
    <2>. QED
        BY <2>3 DEF Telling
<1>3. CASE (SilentMain \/ SilentOthers \/ UNCHANGED vars) /\ (main # "aborted" \/ UNCHANGED vars)
    <2>1. TelemetryCapacity > 0 => Spoken' = Spoken
        BY <1>3, SilentSteps DEF Spoken, telemetryVars
    <2>2. Telling'
        BY <1>3, <2>1, SilentSteps, NothingSaid
    <2>. QED
        BY <2>2 DEF Telling
<1>4. CASE StartRun \/ StopTelemetry
    <2>1. /\ UNCHANGED <<config, analysed, result, tAccepted, tTodo>>
          /\ \/ main \in Reported /\ main' \in Reported
             \/ /\ main \notin Reported \cup {"sending", "aborted"}
                /\ main' \notin Reported \cup {"sending"}
        BY <1>4 DEF StartRun, StopTelemetry, Telemetry!StartThread, Telemetry!StopCloses,
                    Telemetry!StopJoins, Reported, analysisVars, telemetryVars
    <2>2. TelemetryCapacity > 0 => Spoken' = Spoken
        BY <2>1 DEF Spoken
    <2>3. Telling'
        BY <2>1, <2>2, NothingSaid
    <2>. QED
        BY <2>3 DEF Telling
<1>5. CASE Analyse
    <2>1. /\ UNCHANGED <<config, frame, tAccepted, tTodo>>
          /\ main = "detecting" /\ main' = "sending" /\ events' \in 0..MaxEvents
          /\ analysed' = Tracked(analysed, frame)
          /\ result' = IF frame = Late THEN result ELSE result \o [e \in 1..events' |-> <<frame, e>>]
        BY <1>5 DEF Analyse, telemetryVars
    <2>2. frame # Late
        BY <2>1 DEF NeverLate
    <2>3. Told(Spoken, analysed, result, <<>>)
        BY <2>1 DEF Telling, TellsAll, Reported
    <2>4. Spoken' = Spoken
        BY <2>1 DEF Spoken
    <2>5. analysed \in Seq(Nat) /\ frame \in Nat
        <3>1. analysed \in Seq(1..SourceFrames) /\ frame \in 1..Late
            BY <2>1 DEF TypesInv, Histories
        <3>2. 1..SourceFrames \subseteq Nat /\ 1..Late \subseteq Nat
            BY LateType
        <3>. QED
            BY <3>1, <3>2, SeqMonotonic
    <2>6. result \in Seq(Nat \X Nat)
        <3>1. result \in Seq((1..SourceFrames) \X (1..MaxEvents))
            BY DEF TypesInv, Histories
        <3>2. (1..SourceFrames) \X (1..MaxEvents) \subseteq Nat \X Nat
            BY SizesAssumption
        <3>. QED
            BY <3>1, <3>2, SeqMonotonic
    <2>7. analysed' = analysed \o <<frame>>
        BY <2>1, <2>2, <2>5, AppendIsConcat DEF Tracked
    <2>8. result' = result \o [e \in 1..events' |-> <<frame', e>>]
        BY <2>1, <2>2
    <2>9. \E fs \in Seq(Nat), es \in Seq(Nat \X Nat) :
              /\ Told(Spoken', fs, es, <<>>)
              /\ analysed' = fs \o <<frame'>> /\ result' = es \o [e \in 1..events' |-> <<frame', e>>]
        BY <2>1, <2>3, <2>4, <2>5, <2>6, <2>7, <2>8
    <2>. QED
        BY <2>1, <2>9 DEF TellsAll, Reported, Told
<1>6. CASE SendSummary
    <2>1. /\ tTodo = <<>> /\ main = "sending" /\ main' = "showing"
          /\ tTodo' \in Seq(Message)
          /\ Told(tTodo', <<frame>>, [e \in 1..events |-> <<frame, e>>], <<>>)
          /\ UNCHANGED <<config, analysed, result, tAccepted>>
        <3>1. config.telemetry
            BY <1>6 DEF SendSummary
        <3>. QED
            BY <1>6, <3>1, SummarySpoken
    <2>2. PICK fs \in Seq(Nat), es \in Seq(Nat \X Nat) :
              /\ Told(Spoken, fs, es, <<>>)
              /\ analysed = fs \o <<frame>> /\ result = es \o [e \in 1..events |-> <<frame, e>>]
        BY <2>1 DEF Telling, TellsAll
    <2>3. tAccepted \in Seq(Message)
        BY DEF TelemetryInv, TelemetryTypes
    <2>4. Spoken = tAccepted /\ Spoken' = tAccepted \o tTodo'
        BY <2>1, <2>3, ConcatEmptySeq DEF Spoken
    <2>5. Told(tAccepted, fs, es, <<>>)
        BY <2>2, <2>4
    <2>6. Told(tAccepted \o tTodo', fs \o <<frame>>, es \o [e \in 1..events |-> <<frame, e>>], <<>> \o <<>>)
        BY <2>1, <2>3, <2>5, ToldConcat
    <2>7. <<>> \o <<>> = <<>>
        BY EmptySeq, ConcatEmptySeq
    <2>8. Told(Spoken', analysed', result', <<>>)
        BY <2>1, <2>2, <2>4, <2>6, <2>7
    <2>. QED
        BY <2>1, <2>8 DEF TellsAll, Reported, Told
<1>7. CASE ReportStatus
    <2>. DEFINE n == Len(analysed)
                m == Telemetry!Msg("status", n, 0, 0)
    <2>1. /\ tTodo = <<>> /\ main = "reporting" /\ main' = "stopping"
          /\ tTodo' = <<m>> /\ tTodo' \in Seq(Message)
          /\ Told(tTodo', <<>>, <<>>, <<n>>)
          /\ UNCHANGED <<config, analysed, result, tAccepted>>
        <3>1. config.telemetry
            BY <1>7 DEF ReportStatus
        <3>. QED
            BY <1>7, <3>1, StatusSpoken
    <2>2. m \in Message /\ m.topic = "status" /\ n \in Nat
        <3>1. n \in Nat
            BY LenProperties DEF TypesInv, Histories
        <3>. HIDE DEF n
        <3>. QED
            BY <3>1 DEF Telemetry!Msg, Message
    <2>. HIDE DEF m
    <2>3. Told(Spoken, analysed, result, <<>>)
        BY <2>1 DEF Telling, TellsAll, Reported
    <2>4. tAccepted \in Seq(Message)
        BY DEF TelemetryInv, TelemetryTypes
    <2>5. Spoken = tAccepted /\ Spoken' = tAccepted \o tTodo'
        BY <2>1, <2>4, ConcatEmptySeq DEF Spoken
    <2>6. Told(tAccepted \o tTodo', analysed \o <<>>, result \o <<>>, <<>> \o <<n>>)
        <3>1. Told(tAccepted, analysed, result, <<>>)
            BY <2>3, <2>5
        <3>. QED
            BY <2>1, <2>4, <3>1, ToldConcat
    <2>7. analysed \o <<>> = analysed /\ result \o <<>> = result /\ <<>> \o <<n>> = <<n>>
        <3>1. /\ analysed \in Seq(1..SourceFrames)
              /\ result \in Seq((1..SourceFrames) \X (1..MaxEvents))
            BY DEF TypesInv, Histories
        <3>2. <<n>> \in Seq(Nat)
            BY <2>2
        <3>. QED
            BY <3>1, <3>2, ConcatEmptySeq
    <2>8. Told(Spoken', analysed', result', <<Len(analysed')>>)
        BY <2>1, <2>5, <2>6, <2>7
    <2>9. Spoken' # <<>> /\ Spoken'[Len(Spoken')].topic = "status"
        <3>1. Spoken' = Append(tAccepted, m)
            BY <2>1, <2>2, <2>4, <2>5, AppendIsConcat
        <3>2. /\ Append(tAccepted, m) # <<>> /\ Len(Append(tAccepted, m)) = Len(tAccepted) + 1
              /\ Append(tAccepted, m)[Len(tAccepted) + 1] = m
            BY <2>2, <2>4, AppendProperties
        <3>. QED
            BY <2>2, <3>1, <3>2
    <2>. QED
        BY <2>1, <2>8, <2>9 DEF TellsAll, Reported, Told
<1>. QED
    BY <1>1, <1>2, <1>3, <1>4, <1>5, <1>6, <1>7 DEF Next, Main, SilentMain, SilentOthers

\* A run that returns has handed over all there was to tell: each frame
\* analysed, the events of the result and, last, the status.
THEOREM TelemetryCompleteCorrect == SafeSpec => []TelemetryComplete
<1> DEFINE Inv == FramesInv /\ Lives /\ TypesInv /\ TelemetryInv /\ NeverLate /\ Telling
<1>1. Init => Inv
    BY InitFrames, InitLives, InitTypes, InitComplete
<1>2. Inv /\ [Next]_vars => Inv'
    BY StepKeepsFrames, StepKeepsTypes, TelemetryKept, NeverLateKept, TellingKept
<1>3. Inv => TelemetryComplete
    <2> SUFFICES ASSUME Inv, main = "returned", config.telemetry, TelemetryCapacity > 0
                 PROVE  /\ Told(tHanded, analysed, result, <<Len(analysed)>>)
                        /\ tHanded[Len(tHanded)].topic = "status"
        BY DEF TelemetryComplete, Told
    <2>1. tWorker = "done"
        BY DEF Lives, WorkerLife, WorkerJoined, TelemetryInv, TelemetryLife
    <2>2. tHeld = <<>> /\ tItems = <<>> /\ tTodo = <<>>
        BY <2>1 DEF TelemetryInv, TelemetryLife
    <2>3. tHanded \in Seq(Message) /\ tAccepted = (tHanded \o tHeld) \o tItems
        BY DEF TelemetryInv, TelemetryTypes, HandedInOrder
    <2>4. Spoken = tHanded
        BY <2>2, <2>3, ConcatEmptySeq DEF Spoken
    <2>. QED
        BY <2>4 DEF Telling, TellsAll, Reported
<1>. HIDE DEF Inv
<1>. QED
    BY <1>1, <1>2, <1>3, PTL DEF SafeSpec
----------------------------------------------------------------------------
(***************************************************************************)
(* Nobody waits in vain.  A thread is told to stop before it is joined,    *)
(* the queue is closed before the capture thread is, and the publisher's   *)
(* calls come one after the other, so that each finds the phase it asks    *)
(* for.                                                                    *)
(***************************************************************************)
Released == capture = "done" \/ userQuit => frameClosed
ToldToStop ==
    /\ main = "joiningStream" => streamThread # "none"
    /\ main = "joiningCan" => ~canRunning
    /\ tPhase = "stopping" => tClosed
InTurn ==
    /\ main = "starting" => tPhase = "created"
    /\ main \notin {"showing", "stopping"} \/ ~config.telemetry => tTodo = <<>>
    /\ main = "stopping" => config.telemetry /\ tPhase \in {"running", "stopping"}
    /\ config.telemetry /\ main \notin {"starting", "aborted"} \cup Reported => tPhase = "running"

Waiting == Released /\ ToldToStop /\ InTurn

LEMMA WaitingStarts == Init => Waiting
BY DEF Init, Queue!QueueInit, Telemetry!PublisherInit, Waiting, Released, ToldToStop, InTurn, Reported

LEMMA CaptureKeepsWaiting == Waiting /\ Capture => Waiting'
<1> SUFFICES ASSUME Waiting, Capture PROVE Waiting'
    OBVIOUS
<1>1. UNCHANGED <<config, main, userQuit, streamThread, canRunning, tPhase, tClosed, tTodo>>
    BY DEF Capture, OpenSource, ReadFrame, ReadEnds, ReadThrows, PushFrame, CloseQueue,
           viewVars, canVars, telemetryVars
<1>2. capture # "done" /\ (capture' = "done" => frameClosed') /\ (frameClosed => frameClosed')
    BY DEF Capture, OpenSource, ReadFrame, ReadEnds, ReadThrows, PushFrame, CloseQueue,
           Queue!Store, Queue!Refuse, Queue!Shut, Queue!queue, frameVars
<1>. QED
    BY <1>1, <1>2 DEF Waiting, Released, ToldToStop, InTurn

\* The main thread keeps the queue closed, and closes it when the user quits.
LEMMA MainKeepsReleased == Released /\ Lives /\ Main => Released'
<1> SUFFICES ASSUME Released, Lives, Main PROVE Released'
    OBVIOUS
<1>. USE DEF Released, frameVars, captureVars, viewVars
<1>1. CASE StartRun
    BY <1>1 DEF StartRun
<1>2. CASE PopFrame \/ PopNothing
    BY <1>2 DEF PopFrame, PopNothing, Queue!Take, Queue!Drained, Queue!queue
<1>3. CASE Show
    BY <1>3 DEF Show, Queue!Shut
<1>4. CASE Analyse \/ AnalysisThrows \/ SendSummary \/ PushMessage \/ NoShow \/ Draw
    BY <1>4 DEF Analyse, AnalysisThrows, SendSummary, PushMessage, NoShow, Draw
<1>5. CASE Closing
    BY <1>5 DEF Closing, JoinCapture, JoinStream, ReportStatus, StopTelemetry, StopCan, JoinCan
<1>. QED
    BY <1>1, <1>2, <1>3, <1>4, <1>5 DEF Main, Closing

\* It tells a thread to stop before it joins it, and makes its calls in turn.
LEMMA MainKeepsTurn ==
    ASSUME Lives, TelemetryInv, ToldToStop, InTurn, Main, main # "aborted"
    PROVE  ToldToStop' /\ InTurn'
<1>. USE DEF ToldToStop, InTurn, Reported, viewVars, canVars, telemetryVars
<1>1. CASE StartRun
    <2>1. main = "starting" /\ main' = "popping" /\ tPhase = "created" /\ tTodo = <<>> /\ config' = config
        BY <1>1 DEF StartRun
    <2>2. /\ tTodo' = tTodo /\ tClosed' = tClosed
          /\ tPhase' = IF config.telemetry THEN "running" ELSE "created"
        BY <1>1, <2>1 DEF StartRun, Telemetry!StartThread
    <2>. QED
        BY <2>1, <2>2
<1>2. CASE SendSummary
    BY <1>2 DEF SendSummary, Telemetry!PublishFrameSummary
<1>3. CASE PushMessage
    <2>1. /\ main \in {"showing", "stopping"} /\ main' = main /\ config' = config
          /\ UNCHANGED <<tPhase, streamThread, canRunning>>
        BY <1>3 DEF PushMessage, Telemetry!PublishAsync
    <2>2. tClosed' = tClosed /\ tTodo # <<>>
        BY <1>3 DEF PushMessage, Telemetry!PublishAsync, Telemetry!Store, Telemetry!Refuse,
                    Telemetry!Discard, Telemetry!queue
    <2>. QED
        BY <2>1, <2>2
<1>4. CASE ReportStatus
    BY <1>4 DEF ReportStatus, Telemetry!PublishStatus
<1>5. CASE StopTelemetry
    <2>1. main = "stopping" /\ UNCHANGED <<config, streamThread, canRunning>>
        BY <1>5 DEF StopTelemetry
    <2>2. CASE Telemetry!StopCloses /\ UNCHANGED main
        BY <2>1, <2>2 DEF Telemetry!StopCloses, Telemetry!Shut
    <2>3. CASE Telemetry!StopJoins /\ main' = "stoppingCan"
        <3>1. tClosed /\ tTodo' = tTodo /\ tPhase' = "stopped"
            BY <2>3 DEF Telemetry!StopJoins
        <3>2. tTodo = <<>>
            BY <3>1 DEF TelemetryInv, TelemetryLife
        <3>. QED
            BY <2>1, <2>3, <3>1, <3>2
    <2>. QED
        BY <1>5, <2>2, <2>3 DEF StopTelemetry
<1>6. CASE PopFrame \/ PopNothing \/ Analyse \/ AnalysisThrows \/ Show \/ NoShow \/ Draw
    BY <1>6 DEF PopFrame, PopNothing, Analyse, AnalysisThrows, Show, NoShow, Draw
<1>7. CASE JoinCapture \/ JoinStream
    BY <1>7 DEF JoinCapture, JoinStream
<1>8. CASE StopCan \/ JoinCan
    BY <1>8 DEF StopCan, JoinCan
<1>. QED
    BY <1>1, <1>2, <1>3, <1>4, <1>5, <1>6, <1>7, <1>8 DEF Main

LEMMA OthersKeepWaiting == Waiting /\ Others => Waiting'
<1> SUFFICES ASSUME Waiting, Others PROVE Waiting'
    OBVIOUS
<1>1. UNCHANGED <<config, main, capture, userQuit, frameClosed, canRunning, tPhase, tTodo, tClosed>>
    BY DEF Others, WorkerStep, CanFrame, CanExits, StreamExits, PressKey, Telemetry!WorkerPops,
           Telemetry!WorkerPublishes, Telemetry!WorkerExits, Telemetry!Take, Telemetry!Drained,
           Telemetry!queue, frameVars, captureVars, viewVars, canVars, telemetryVars
<1>2. streamThread # "none" => streamThread' # "none"
    BY DEF Others, WorkerStep, CanFrame, CanExits, StreamExits, PressKey, viewVars
<1>. QED
    BY <1>1, <1>2 DEF Waiting, Released, ToldToStop, InTurn

LEMMA WaitingKept ==
    ASSUME Lives, TelemetryInv, Waiting, [Next]_vars
    PROVE  Waiting'
<1>1. CASE Capture
    BY <1>1, CaptureKeepsWaiting
<1>2. CASE Main /\ main # "aborted"
    BY <1>2, MainKeepsReleased, MainKeepsTurn DEF Waiting
<1>3. CASE Others
    BY <1>3, OthersKeepWaiting
<1>4. CASE UNCHANGED vars
    BY <1>4 DEF vars, frameVars, captureVars, viewVars, canVars, telemetryVars,
                Waiting, Released, ToldToStop, InTurn, Reported
<1>. QED
    BY <1>1, <1>2, <1>3, <1>4 DEF Next, Others

\* Whichever thread the main thread waits for can go on: the frame queue's
\* reader and its writer never wait for each other, nor do the telemetry queue's,
\* and no join in AnalysisPipeline::run waits for a thread that waits.
THEOREM NeverStuckCorrect == SafeSpec => []NeverStuck
<1> DEFINE Inv == FramesInv /\ Lives /\ TypesInv /\ TelemetryInv /\ Waiting
<1>1. Init => Inv
    BY InitFrames, InitLives, InitTypes, InitComplete, WaitingStarts
<1>2. Inv /\ [Next]_vars => Inv'
    BY StepKeepsFrames, StepKeepsTypes, TelemetryKept, WaitingKept
<1>3. Inv => NeverStuck
    <2> SUFFICES ASSUME Inv, ~ Ended PROVE NeverStuck
        BY DEF NeverStuck
    <2>. USE DEF MainGoesOn, NeverStuck
    <2>1. /\ Places /\ CaptureLife /\ StreamLife /\ Released /\ ToldToStop /\ InTurn
          /\ TelemetryLife /\ Emptied /\ main \notin {"returned", "aborted"}
        BY DEF Lives, TypesInv, TelemetryInv, Waiting, FramesInv, Ended
    <2>2. ASSUME main \in {"popping", "joining"}, capture # "done",
                 main = "popping" => frameItems = <<>>
          PROVE  CaptureGoesOn
        <3>1. capture \in {"opening", "reading", "pushing", "closing"}
            BY <2>1, <2>2 DEF Places, CaptureLife
        <3>2. main = "joining" => frameClosed
            BY <2>1, <2>2 DEF Emptied, AfterLoop, Released
        <3>3. frameItems = <<>> => Len(frameItems) < FrameCapacity
            BY SizesAssumption DEF FrameCapacity
        <3>. QED
            BY <2>2, <3>1, <3>2, <3>3 DEF CaptureGoesOn, Queue!PushMayProceed
    <2>3. CASE main \in {"starting", "detecting", "drawing", "stoppingCan"}
        BY <2>1, <2>3 DEF InTurn
    <2>4. CASE main = "popping"
        <3>1. CASE Queue!PopMayProceed
            BY <2>4, <3>1
        <3>2. CASE ~ Queue!PopMayProceed
            <4>1. ~ frameClosed /\ frameItems = <<>>
                BY <3>2 DEF Queue!PopMayProceed
            <4>2. capture # "done"
                BY <2>1, <4>1 DEF Released
            <4>. QED
                BY <2>2, <2>4, <4>1, <4>2
        <3>. QED
            BY <3>1, <3>2
    <2>5. CASE main \in {"sending", "reporting"}
        BY <2>1, <2>5 DEF InTurn, Reported
    <2>6. CASE main = "joining"
        BY <2>2, <2>6
    <2>7. CASE main = "joiningStream"
        BY <2>1, <2>7 DEF ToldToStop, Places
    <2>8. CASE main = "joiningCan"
        BY <2>1, <2>8 DEF ToldToStop
    <2>9. ASSUME main \in {"showing", "stopping"}, tTodo # <<>> PROVE NeverStuck
        <3>1. CASE Telemetry!PushMayProceed
            BY <2>9, <3>1
        <3>2. CASE ~ Telemetry!PushMayProceed
            <4>1. ~ tClosed /\ tItems # <<>>
                <5>1. ~ tClosed /\ TelemetryCapacity # 0 /\ ~ (Len(tItems) < TelemetryCapacity)
                    BY <3>2 DEF Telemetry!PushMayProceed
                <5>2. TelemetryCapacity \in Nat /\ Len(<<>>) = 0
                    BY SizesAssumption
                <5>. QED
                    BY <5>1, <5>2
            <4>2. tWorker \in {"popping", "publishing"}
                <5>1. tWorker # "done"
                    BY <2>1, <4>1 DEF TelemetryLife
                <5>2. main # "starting" /\ config.telemetry
                    <6>1. CASE config.telemetry
                        BY <2>9, <6>1
                    <6>2. CASE ~ config.telemetry
                        BY <2>1, <2>9, <6>2 DEF InTurn
                    <6>. QED
                        BY <6>1, <6>2
                <5>. QED
                    BY <2>1, <5>1, <5>2 DEF TelemetryLife, Places
            <4>. QED
                BY <2>9, <4>1, <4>2 DEF WorkerGoesOn, Telemetry!PopMayProceed
        <3>. QED
            BY <3>1, <3>2
    <2>10. CASE main = "showing"
        BY <2>9, <2>10
    <2>11. CASE main = "stopping" /\ tTodo = <<>>
        <3>1. config.telemetry /\ tPhase \in {"running", "stopping"} /\ tWorker # "none"
            BY <2>1, <2>11 DEF InTurn, TelemetryLife
        <3>2. CASE tPhase = "running" \/ tWorker = "done"
            BY <2>11, <3>1, <3>2
        <3>3. CASE tPhase = "stopping" /\ tWorker # "done"
            <4>1. tClosed /\ tWorker \in {"popping", "publishing"}
                BY <2>1, <3>1, <3>3 DEF ToldToStop, Places
            <4>. QED
                BY <2>11, <4>1 DEF WorkerGoesOn, Telemetry!PopMayProceed
        <3>. QED
            BY <3>1, <3>2, <3>3
    <2>12. main \in {"starting", "popping", "detecting", "sending", "showing", "drawing", "joining",
                     "joiningStream", "reporting", "stopping", "stoppingCan", "joiningCan"}
        BY <2>1 DEF Places
    <2>. QED
        BY <2>3, <2>4, <2>5, <2>6, <2>7, <2>8, <2>9, <2>10, <2>11, <2>12
<1>. HIDE DEF Inv
<1>. QED
    BY <1>1, <1>2, <1>3, PTL DEF SafeSpec
----------------------------------------------------------------------------
(***************************************************************************)
(* The outbox.  What the pipeline told and is still to be handed over goes *)
(* through the call, the queue and the worker's hand.                      *)
(***************************************************************************)
Outgoing == (tHeld \o tItems) \o tTodo

\* The queue is closed by stop() alone, and the worker holds one message; with
\* no room in the queue there is none.
Shelved ==
    /\ tPhase \in {"stopping", "stopped"} => tClosed
    /\ tWorker = "publishing" => Len(tHeld) = 1
    /\ TelemetryCapacity = 0 => tItems = <<>> /\ tHeld = <<>>

LEMMA ShelvedKept ==
    ASSUME Shelved, [Next]_vars
    PROVE  Shelved'
<1>. USE DEF Shelved
<1>1. CASE PushMessage
    <2>1. UNCHANGED <<tPhase, tClosed, tWorker, tHeld>>
        BY <1>1 DEF PushMessage, Telemetry!PublishAsync, Telemetry!Store, Telemetry!Refuse,
                    Telemetry!Discard, Telemetry!queue
    <2>2. TelemetryCapacity = 0 => tItems' = tItems
        BY <1>1 DEF PushMessage, Telemetry!PublishAsync, Telemetry!Store, Telemetry!Refuse,
                    Telemetry!Discard, Telemetry!queue
    <2>. QED
        BY <2>1, <2>2
<1>2. CASE WorkerStep
    <2>1. UNCHANGED <<tPhase, tClosed>>
        BY <1>2 DEF WorkerStep, Telemetry!WorkerPops, Telemetry!WorkerPublishes, Telemetry!WorkerExits,
                    Telemetry!Take, Telemetry!Drained, Telemetry!queue
    <2>2. CASE Telemetry!WorkerPops
        BY <2>1, <2>2 DEF Telemetry!WorkerPops, Telemetry!Take
    <2>3. CASE Telemetry!WorkerPublishes \/ Telemetry!WorkerExits
        BY <2>1, <2>3 DEF Telemetry!WorkerPublishes, Telemetry!WorkerExits, Telemetry!Drained,
                          Telemetry!queue
    <2>. QED
        BY <1>2, <2>2, <2>3 DEF WorkerStep
<1>3. CASE StartRun \/ SendSummary \/ ReportStatus
    BY <1>3 DEF StartRun, SendSummary, ReportStatus, Telemetry!StartThread,
                Telemetry!PublishFrameSummary, Telemetry!PublishStatus, telemetryVars
<1>4. CASE StopTelemetry
    BY <1>4 DEF StopTelemetry, Telemetry!StopCloses, Telemetry!StopJoins, Telemetry!Shut
<1>5. CASE (SilentMain \/ SilentOthers \/ UNCHANGED vars) /\ (main # "aborted" \/ UNCHANGED vars)
    <2>1. UNCHANGED telemetryVars
        BY <1>5, SilentSteps
    <2>. QED
        BY <2>1 DEF telemetryVars
<1>6. CASE Analyse
    BY <1>6 DEF Analyse, telemetryVars
<1>. QED
    BY <1>1, <1>2, <1>3, <1>4, <1>5, <1>6 DEF Next, Main, SilentMain, SilentOthers

\* A sequence followed by another continues.
LEMMA ConcatContinues ==
    ASSUME NEW s \in Seq(Message), NEW t \in Seq(Message)
    PROVE  Promise!Continues(s, s \o t)
<1>1. /\ Len(s) \in Nat /\ Len(t) \in Nat /\ Len(s \o t) = Len(s) + Len(t)
      /\ \A i \in 1..(Len(s) + Len(t)) : (s \o t)[i] = IF i <= Len(s) THEN s[i] ELSE t[i - Len(s)]
    BY LenProperties, ConcatProperties
<1>2. Len(s) <= Len(s \o t) /\ \A i \in 1..Len(s) : (s \o t)[i] = s[i]
    BY <1>1
<1>. QED
    BY <1>2 DEF Promise!Continues

\* The messages of a frame and the status are told when the call before is over.
LEMMA CallTells ==
    ASSUME TypesInv, TelemetryInv, SendSummary \/ ReportStatus, config.telemetry
    PROVE  Promise!Tell
<1>1. /\ tPhase = "running" /\ tTodo = <<>> /\ tTodo' \in Seq(Message)
      /\ UNCHANGED <<tItems, tClosed, tPhase, tHeld, tHanded>>
    BY SummarySpoken, StatusSpoken
<1>2. ~tClosed /\ tItems \in Seq(Message) /\ tHeld \in Seq(Message)
    BY <1>1 DEF TelemetryInv, TelemetryLife, TelemetryTypes
<1>. DEFINE base == tHeld \o tItems
<1>3. base \in Seq(Message) /\ base \o <<>> = base
    <2>1. base \in Seq(Message)
        BY <1>2, ConcatProperties
    <2>. HIDE DEF base
    <2>. QED
        BY <2>1, ConcatEmptySeq
<1>4. Outgoing = base /\ Outgoing' = base \o tTodo'
    BY <1>1, <1>3 DEF Outgoing
<1>. HIDE DEF base
<1>5. Promise!Continues(Outgoing, Outgoing')
    BY <1>1, <1>3, <1>4, ConcatContinues
<1>. QED
    BY <1>1, <1>2, <1>5 DEF Promise!Tell, Outgoing

\* A push is no step of the outbox, unless there is no room.
LEMMA PushTells ==
    ASSUME TelemetryInv, Shelved, PushMessage
    PROVE  Promise!Lose \/ UNCHANGED Promise!ovars
<1>1. tTodo # <<>> /\ tTodo' = Tail(tTodo) /\ UNCHANGED <<tPhase, tHeld, tHanded, tClosed>>
    BY DEF PushMessage, Telemetry!PublishAsync, Telemetry!Store, Telemetry!Refuse, Telemetry!Discard,
           Telemetry!queue
<1>2. tItems \in Seq(Message) /\ tHeld \in Seq(Message) /\ tTodo \in Seq(Message)
    BY DEF TelemetryInv, TelemetryTypes
<1>3. Head(tTodo) \in Message /\ Tail(tTodo) \in Seq(Message)
    BY <1>1, <1>2, HeadTailProperties
<1>. DEFINE m == <<Head(tTodo)>>
            rest == Tail(tTodo)
<1>4. m \in Seq(Message) /\ rest \in Seq(Message) /\ tTodo = m \o rest
    BY <1>1, <1>2, <1>3
<1>5. CASE Telemetry!Store(Head(tTodo))
    <2>1. tItems' = tItems \o m
        BY <1>2, <1>3, <1>5, AppendIsConcat DEF Telemetry!Store
    <2>. HIDE DEF m, rest
    <2>2. tHeld \o tItems \in Seq(Message)
        BY <1>2, ConcatProperties
    <2>3. (tHeld \o tItems) \o m = tHeld \o (tItems \o m)
        <3>1. tHeld \in Seq(Message) /\ tItems \in Seq(Message) /\ m \in Seq(Message)
            BY <1>2, <1>4
        <3>. QED
            BY <3>1, MessagesAssociate, Zenon
    <2>4. ((tHeld \o tItems) \o m) \o rest = (tHeld \o tItems) \o (m \o rest)
        <3> SUFFICES ASSUME NEW s \in Seq(Message)
                     PROVE  (s \o m) \o rest = s \o (m \o rest)
            BY <2>2, Zenon
        <3>. QED
            BY <1>4, MessagesAssociate, Zenon
    <2>5. Outgoing' = Outgoing
        <3>1. Outgoing' = (tHeld \o (tItems \o m)) \o rest
            BY <1>1, <2>1 DEF Outgoing, rest
        <3>. QED
            BY <1>4, <2>3, <2>4, <3>1 DEF Outgoing
    <2>. QED
        BY <1>1, <2>5 DEF Promise!ovars, Outgoing
<1>6. CASE Telemetry!Discard
    <2>1. /\ TelemetryCapacity = 0 /\ tItems' = <<>> /\ tItems = <<>> /\ tHeld = <<>>
          /\ ~ (TelemetryCapacity > 0)
        BY <1>6 DEF Telemetry!Discard, Telemetry!queue, Shelved
    <2>2. \A s \in Seq(Message) : (<<>> \o <<>>) \o s = s
        BY EmptySeq, ConcatEmptySeq
    <2>3. Outgoing = tTodo /\ Outgoing' = Tail(tTodo)
        <3>1. Outgoing = (<<>> \o <<>>) \o tTodo /\ Outgoing' = (<<>> \o <<>>) \o Tail(tTodo)
            BY <1>1, <2>1 DEF Outgoing
        <3>. QED
            BY <1>2, <1>3, <2>2, <3>1
    <2>. QED
        BY <1>1, <2>1, <2>3 DEF Promise!Lose, Outgoing
<1>7. CASE Telemetry!Refuse
    BY <1>1, <1>7 DEF Telemetry!Refuse, TelemetryInv, TelemetryLife
<1>. QED
    BY <1>5, <1>6, <1>7 DEF PushMessage, Telemetry!PublishAsync

\* Taking a message from the queue is no step of the outbox, handing it over is one.
LEMMA WorkerTells ==
    ASSUME TelemetryInv, Shelved, WorkerStep
    PROVE  Promise!HandOver \/ UNCHANGED Promise!ovars
<1>1. /\ tItems \in Seq(Message) /\ tHeld \in Seq(Message) /\ tTodo \in Seq(Message)
      /\ tHanded \in Seq(Message)
    BY DEF TelemetryInv, TelemetryTypes
<1>2. CASE Telemetry!WorkerPops
    <2>1. /\ tItems # <<>> /\ tItems' = Tail(tItems) /\ tHeld' = <<Head(tItems)>> /\ tWorker = "popping"
          /\ UNCHANGED <<tPhase, tTodo, tHanded, tClosed>>
        BY <1>2 DEF Telemetry!WorkerPops, Telemetry!Take
    <2>2. Head(tItems) \in Message /\ Tail(tItems) \in Seq(Message)
        BY <1>1, <2>1, HeadTailProperties
    <2>3. tHeld = <<>>
        BY <2>1 DEF TelemetryInv, TelemetryLife
    <2>4. tHeld \o tItems = tItems
        BY <1>1, <2>3, ConcatEmptySeq
    <2>5. <<Head(tItems)>> \o Tail(tItems) = tItems
        BY <1>1, <2>1, <2>2
    <2>6. Outgoing' = Outgoing
        BY <2>1, <2>4, <2>5 DEF Outgoing
    <2>. QED
        BY <2>1, <2>6 DEF Promise!ovars, Outgoing
<1>3. CASE Telemetry!WorkerPublishes
    <2>1. /\ tHanded' = tHanded \o tHeld /\ tHeld' = <<>> /\ tWorker = "publishing"
          /\ UNCHANGED <<tItems, tClosed, tPhase, tTodo>>
        BY <1>3 DEF Telemetry!WorkerPublishes
    <2>2. Len(tHeld) = 1
        BY <2>1 DEF Shelved
    <2>. DEFINE m == tHeld[1]
                rest == tItems \o tTodo
    <2>3. m \in Message /\ tHeld = <<m>>
        <3>1. m \in Message
            <4>1. 1 \in 1..Len(tHeld)
                BY <2>2
            <4>. QED
                BY <1>1, <4>1, LenProperties
        <3>2. <<m>> \in Seq(Message) /\ Len(<<m>>) = 1 /\ <<m>>[1] = m
            BY <3>1
        <3>3. \A i \in 1..Len(tHeld) : tHeld[i] = <<m>>[i]
            BY <2>2, <3>2
        <3>. QED
            BY <1>1, <2>2, <3>1, <3>2, <3>3, SeqEqual
    <2>4. tHanded' = Append(tHanded, m)
        BY <1>1, <2>1, <2>3, AppendIsConcat
    <2>5. rest \in Seq(Message)
        BY <1>1, ConcatProperties
    <2>6. Outgoing = tHeld \o rest
        BY <1>1, MessagesAssociate, Zenon DEF Outgoing
    <2>7. Outgoing' = rest
        <3>1. <<>> \o tItems = tItems
            BY <1>1, ConcatEmptySeq
        <3>. QED
            BY <2>1, <3>1 DEF Outgoing
    <2>. HIDE DEF rest, m
    <2>8. Outgoing # <<>> /\ Head(Outgoing) = m /\ Tail(Outgoing) = rest
        <3>1. <<m>> \o rest # <<>> /\ Head(<<m>> \o rest) = m /\ Tail(<<m>> \o rest) = rest
            BY <2>3, <2>5
        <3>. QED
            BY <2>3, <2>6, <3>1
    <2>. QED
        BY <2>1, <2>4, <2>7, <2>8 DEF Promise!HandOver, Outgoing
<1>4. CASE Telemetry!WorkerExits
    <2>1. UNCHANGED <<tItems, tHeld, tTodo, tHanded, tClosed, tPhase>>
        BY <1>4 DEF Telemetry!WorkerExits, Telemetry!Drained, Telemetry!queue
    <2>. QED
        BY <2>1 DEF Promise!ovars
<1>. QED
    BY <1>2, <1>3, <1>4 DEF WorkerStep

\* stop() begins when no call is in progress and ends when nothing is left.
LEMMA StopTells ==
    ASSUME TelemetryInv, Shelved, StopTelemetry
    PROVE  Promise!BeginStop \/ Promise!EndStop
<1>1. CASE Telemetry!StopCloses
    <2>1. /\ tPhase = "running" /\ tPhase' = "stopping" /\ tClosed' = TRUE
          /\ UNCHANGED <<tItems, tHeld, tTodo, tHanded>>
        BY <1>1 DEF Telemetry!StopCloses, Telemetry!Shut
    <2>2. ~tClosed
        BY <2>1 DEF TelemetryInv, TelemetryLife
    <2>. QED
        BY <2>1, <2>2 DEF Promise!BeginStop
<1>2. CASE Telemetry!StopJoins
    <2>1. /\ tPhase = "stopping" /\ tPhase' = "stopped" /\ tWorker = "done"
          /\ UNCHANGED <<tItems, tHeld, tTodo, tHanded, tClosed>>
        BY <1>2 DEF Telemetry!StopJoins
    <2>2. tClosed /\ tTodo = <<>> /\ tItems = <<>> /\ tHeld = <<>>
        BY <2>1 DEF Shelved, TelemetryInv, TelemetryLife
    <2>3. (<<>> \o <<>>) \o <<>> = <<>>
        BY EmptySeq, ConcatEmptySeq
    <2>. QED
        BY <2>1, <2>2, <2>3 DEF Promise!EndStop
<1>. QED
    BY <1>1, <1>2 DEF StopTelemetry

\* AnalysisPipeline::run makes its calls so that TelemetryPublisher is an outbox
\* to it: whatever ends the run, what MQTT was given is the first of what the run
\* told, in the order of its calls, and stop() returns when nothing is left.
THEOREM TelemetryIsOutboxCorrect == SafeSpec => TelemetryIsOutbox
<1> DEFINE Inv == FramesInv /\ Lives /\ TypesInv /\ TelemetryInv /\ Shelved
<1>1. Init => Inv /\ Promise!Init
    <2>1. Init => Shelved
        BY DEF Init, Telemetry!PublisherInit, Telemetry!QueueInit, Shelved
    <2>2. (<<>> \o <<>>) \o <<>> = <<>>
        BY EmptySeq, ConcatEmptySeq
    <2>3. Init => Promise!Init
        BY <2>2 DEF Init, Telemetry!PublisherInit, Telemetry!QueueInit, Promise!Init
    <2>. QED
        BY <2>1, <2>3, InitFrames, InitLives, InitTypes, InitComplete
<1>2. Inv /\ [Next]_vars => Inv'
    BY StepKeepsFrames, StepKeepsTypes, TelemetryKept, ShelvedKept
<1>3. Inv /\ [Next]_vars => [Promise!Next]_Promise!ovars
    <2> SUFFICES ASSUME Inv, [Next]_vars
                 PROVE  Promise!Next \/ UNCHANGED Promise!ovars
        OBVIOUS
    <2>. USE DEF Promise!Next
    <2>1. CASE UNCHANGED telemetryVars
        BY <2>1 DEF telemetryVars, Promise!ovars
    <2>2. CASE SendSummary \/ ReportStatus
        <3>1. CASE config.telemetry
            BY <2>2, <3>1, CallTells
        <3>2. CASE ~ config.telemetry
            BY <2>1, <2>2, <3>2 DEF SendSummary, ReportStatus
        <3>. QED
            BY <3>1, <3>2
    <2>3. CASE PushMessage
        BY <2>3, PushTells
    <2>4. CASE WorkerStep
        BY <2>4, WorkerTells
    <2>5. CASE StopTelemetry
        BY <2>5, StopTells
    <2>6. CASE StartRun
        <3>1. CASE config.telemetry
            <4>1. /\ tPhase = "created" /\ tPhase' = "running"
                  /\ UNCHANGED <<tItems, tHeld, tTodo, tHanded, tClosed>>
                BY <2>6, <3>1 DEF StartRun, Telemetry!StartThread
            <4>. QED
                BY <4>1 DEF Promise!ovars
        <3>2. CASE ~ config.telemetry
            BY <2>1, <2>6, <3>2 DEF StartRun
        <3>. QED
            BY <3>1, <3>2
    <2>7. CASE (SilentMain \/ SilentOthers \/ UNCHANGED vars) /\ (main # "aborted" \/ UNCHANGED vars)
        BY <2>1, <2>7, SilentSteps
    <2>8. CASE Analyse
        BY <2>1, <2>8 DEF Analyse
    <2>. QED
        BY <2>2, <2>3, <2>4, <2>5, <2>6, <2>7, <2>8 DEF Next, Main, SilentMain, SilentOthers
<1>. HIDE DEF Inv
<1>. QED
    BY <1>1, <1>2, <1>3, PTL DEF SafeSpec, TelemetryIsOutbox, Promise!Spec
===============================================================================
