# Vehicle detection: specifications, model checking and proofs

TLA+ modules of the vehicle program (capture, analysis, telemetry, CAN bus, video stream) and of
the Qt terminal that displays its results, with TLC runs on small instances and TLAPS proofs.
Paths are relative to the repository.

## 1. The system

The **vehicle program** (`main.cpp`, one call of `AnalysisPipeline::run`) reads frames in a capture
thread, hands them over a bounded queue to the main thread, which detects, tracks and rates them,
takes a snapshot of the vehicle state, publishes a summary, and shows, records and streams the
annotated frame. The **terminal** (`src/qt_terminal`) is a Qt program on another board: it reads
its own CAN bus, subscribes to the vehicle program's MQTT topics, publishes its CAN state, and
shows the video stream.

```
            capture thread          main thread                 telemetry worker
 VideoSource ----------> BlockingQueue -> detect, track, rate --> BlockingQueue --> MqttClient --> broker
                                     ^        |        |                                          |
            CAN receiver thread      |        |        +--> MjpegStreamer thread ==== HTTP ====+  |
 CAN bus --> CanBusClient --snapshot-+        +--> window                                      |  |
                                                                                               v  v
 CAN bus --> SocketCanReader --> DashboardWindow <-- MqttBridge callbacks (posted)        MjpegView (terminal)
```

### Inventory

| component | state | operations | interacts by | what is hard | what makes it correct |
|---|---|---|---|---|---|
| BlockingQueue | items, closed, two condition variables | push, pop, close | calls of several threads | lost wake-ups, spurious wake-ups, close against blocked calls, capacity 0 | FIFO, bound, nobody sleeps who could go on, close releases all, backlog survives close |
| AnalysisPipeline | config, frame queue, cache, result, the threads | run | queue, telemetry, CAN, view, stream | joins, exceptions, quitting while capture is blocked, back pressure | always ends, every frame analysed and reported, no thread left |
| TelemetryPublisher | message queue, worker | start, publishFrameSummary, publishStatus, stop | BlockingQueue, MqttClient | stop against a worker with a backlog, failed publishes | drained before disconnect, stop returns, order |
| MqttClient | client pointer, connected | connect, publish, disconnect | libmosquitto (own thread), broker | failing library calls, reconnection, resending, abandoned clients | abandoned clients are bounded, the library outlives them, first arrivals in order |
| CanBusClient | socket, running flag, state, thread | start, stop, snapshot | CAN bus, pipeline | stop against a blocking read, close against read, short frames | no read of a closed descriptor, stop returns, signals are the last received |
| SortTracker | tracks, next id | update | called for each frame | long sequences of matches and misses | ids live as long as they should, matching is greedy and injective |
| BehaviorAnalyzer | none | analyze | called for each frame | several rules and tracks at once | one event for a track and a rule, rated with the own vehicle's state |
| LLM review | none; the service: its key | enrichWithLlm; POST /analyze | HTTP service | broken off, late, unusable and contradictory replies, wrong event addressed | whole or not at all, the last word decides, every change is in the evidence |
| Detector | back end, class names | create, detect | ONNX Runtime or OpenCV, VideoSource's stand-in | four layouts of an output, two back ends, suppression of chains of boxes | the detections are those of their definition, one for an object |
| VideoSource, Visualizer, FrameCache | reader; window; window of frames | open, read; show, render; push | called by the pipeline | end or error of the source, a camera that becomes synthetic frames, invisible window | part of the pipeline's properties |
| command line of the program | config | parseArgs | read by the pipeline | options that imply others, negative numbers | a run ends where its options say |
| MjpegStreamer | socket, newest frame, clients | start, publish, stop | HTTP clients | slow clients, frames skipped, stop with clients | newest frame goes out, nothing stays open |
| MjpegView | reply, buffer, picture, timers | start, stop, timers, network events | streamer over HTTP | partial data, trimmed buffer, reconnection | whole pictures only, never back, never gives up |
| DashboardWindow, MqttBridge, SocketCanReader | labels, table; client, connected; socket, state | handlers and callbacks | events posted from the network thread | own messages coming back, duplicates, losses, a failing bus | one source at a time, ends on the newest, label tells the truth |
| PerformanceMonitor, Logger, the terminal's options, build | figures, log | | | | *(not modelled: they influence nothing else)* |

`PROJECT.json` lists the same components with the files they are in, and under "hazards" what is
hard to test in them, each at its line with the properties that cover it.

## 2. Modules

| module | models | state and actions against the code |
|---|---|---|
| `QueueState` | the members of `BlockingQueue` and its critical sections | `PushMayProceed`, `PopMayProceed` are the two wait predicates; `Refuse`, `Discard`, `Store` the three returns of push; `Drained`, `Take` those of pop; `Shut` is close |
| `ClosableQueue` | what the queue promises | a call is pending until its predicate holds; no wake-ups |
| `BlockingQueue` | push, pop, close with their waits | a thread in a call is `running` or `waiting`; `notify_one` picks any waiter; spurious wake-ups |
| `BlockingQueueProofs` | theorems about `BlockingQueue` | |
| `Outbox` | what the publisher promises, to `TelemetrySystem` and to the pipeline | one sequence of what was told and is still to be handed over; no queue and no worker |
| `TelemetryPublisher` | the publisher and its worker | `todo` is what the call in progress still has to push; one action per queue operation |
| `MqttClient` | the client, libmosquitto and the broker | `live` clients include abandoned ones; `outbox` is what libmosquitto holds |
| `TelemetrySystem` | the two composed, with the pipeline's calls | `Owner` and `Worker` are the two threads; `Promise` maps the call in progress, the queue and the worker's hand to an `Outbox` |
| `TelemetryProofs` | theorems about `TelemetrySystem` | |
| `AnalysisPipeline` | `run()` and its threads | `main` and `capture` say where a thread is; the queues are instances of `QueueState`, telemetry of `TelemetryPublisher` |
| `PipelineProofs` | theorems about `AnalysisPipeline` | |
| `CommandLine` | `parseArgs` and what becomes of a video that does not open | a command line is the options given; its result is a `config` |
| `CanDecoder` | the two decoders of CAN frames | a frame has an id, is long enough or not, and carries a value |
| `CanBusClient`, `CanBusClientProofs` | the CAN client and theorems about it | one action per step of start, stop and the receive loop |
| `Subsequence` | `std::copy_if`, `std::remove_if`; the broker's first sight of a message, a topic's messages | `Picked`: the elements at some of the places, as a recursive function |
| `Detector` | `createDetector`, letterbox, decoding, suppression, the stand-ins | an output is rows of boxes and scores, in a layout; a box is a strip |
| `SortTracker` | `update()` | a track has an id, a box, its age and its trajectory |
| `Perception` | the two composed: what the main loop does with a frame before it rates it | one action for an image, of which the model makes any of its outputs, and one for a synthetic frame: detect, then update |
| `PerceptionProofs` | theorems about `Perception` | |
| `RiskReview` | `analyze()`, `enrichWithLlm()`, `HttpClient`, the Python service | a track is its kind and the signs the rules look for; a reply is the objects found in it; `trail` is what the review appends to the evidence |
| `RiskReviewProofs` | theorems about `RiskReview` | |
| `MjpegStreamer`, `MjpegView`, `VideoLink` | the streamer, the terminal's view, and both with the network | a picture is its start and its end; a connection holds `SocketRoom` of these |
| `VideoLinkProofs` | theorems about `VideoLink` | |
| `Terminal` | the rest of the terminal, until its window is closed | `posted` is the queue of events of the GUI thread |
| `TerminalProofs` | theorems about `Terminal` | |

`ClosableQueue` stands between the queue and its users: `BlockingQueue` is shown to implement it, and
the pipeline and the publisher use `QueueState`, the same critical sections, with a caller that
proceeds when its predicate holds. So the condition variables are reasoned about once.

`MC*` modules only give constants for TLC. Operators whose name ends in `Fault` are seeded
faults: the definition they are named after is replaced by them to see that a property notices.

### What is abstracted

* Payloads are what they are about (frame, number of the event, version of the vehicle state).
  Formatting and JSON are left out.
* A box is a strip, a stretch of a line, so that overlap is a ratio of lengths, counted
  in ten-thousandths and rounded up, so that a threshold in ten-thousandths is exceeded exactly when the ratio exceeds it; the confidences of an output are
  in hundredths, their products in ten-thousandths. What a model puts out is any few rows, except that it is of one of the kinds
  the guess about the objectness is right for (`PerceptionAssumption`).
* The Kalman filter: the box predicted for a track is any of a few, its own or a shifted one.
* An endless source: the frames after number `SourceFrames` are one and the same, `Late`, which
  the histories leave out, and a number of frames read stops counting there.
* A command line is the options that change what a run does: those that name hosts, sizes and
  thresholds are constants of the models.
* The analyzer's thresholds: a track shows a sign or not. The service's reply may hold any objects when a model
  writes it. Where the body may break off the array counts as incomplete, as its bracket is
  missing. Nothing is assumed about what a model answers.
* A JPEG picture is two marks, so that it can be cut in two and its halves can be mixed up with
  another's. Whatever is not a whole picture may decode to anything or to nothing.
* A CAN signal is the value of the last frame that set it; the scaling to physical units is
  left out. The identifiers are compared as the code does, without the flags of the frame.
* In `AnalysisPipeline` the optional parts are switched by `config`. An exception may leave the
  detector, the window and the drawing. The video file may fail to open, with one frame after the other, and a picture
  to encode for the stream; then that frame is not written or not published, and the run goes on. That `VideoWriter::write`
  stores what it is given is assumed.
* Of the figures of a frame or a status the terminal shows, the models keep whose they are.
* In `CanBusClient` a start that fails changes nothing and is not a step.
* In `Terminal` a connection callback sets `connected_` and posts its event in one step; in between, inside the callback
  (`mqtt_bridge.cpp:114-118`, `124-125`), the label may be behind for an instant. A reader that is started while the
  interface is down is a start followed by `BusDown`. The vehicle program the terminal listens to has a valid vehicle state, as
  it sends `can/state` for no other (`telemetry_publisher.cpp:131`).
* In `MjpegStreamer` a client is dropped when its picture cannot be sent; a failure of the few bytes that end a part, after a
  whole picture, is not told apart.

### External parts

libmosquitto (a publish only queues, the network thread sends up to `Inflight` messages unacknowledged,
reconnects and sends again; a client with the same id takes the session over), the broker, CAN
buses, TCP connections, other HTTP clients and the decoder of images are modelled from how the
code uses them, and so are the network of the detector, the Kalman filter and OpenCV's decoders. They may fail wherever the code handles a failure, a bounded number of times.

## 3. Runs

| run | what it asks | instance | size |
|---|---|---|---|
| `queue` | the queue's invariants, its refinement of `ClosableQueue` with liveness, release by close, delivery | 2 producers, 2 consumers, capacity 2, 2 calls each | seconds |
| `queue_zero` | a push into a queue of capacity 0 returns | as above, capacity 0 | seconds |
| `pipeline` | nothing is lost, the video has no gap, no thread survives, the run ends | 8 command lines: files of 3 frames, a camera, synthetic frames; frame queue 0 (hence 1), telemetry queue 1 | 208 000 states, a minute |
| `pipeline_quit` | q or Esc ends the run: **violated** | the same, and a camera that does not open | seconds to the trace |
| `telemetry` | the publisher implements `Outbox`; abandoned clients, order | 1 frame with up to 1 event, queue 2, window 1, 2 failures | 51 000 states |
| `telemetry_status` | the status reaches the broker: **violated** | as `telemetry` | 900 states to the trace |
| `video` | whole pictures, never back, newest shown, always retries, nothing left open | 3 frames, 2 runs, 2 connections, 1 disturbance, the view destroyed at any time | 131 000 states, a minute |
| `perception` | detections and suppression against their definitions; ids, matching | 3 frames, outputs of 2 rows and some of 3, all layouts and back ends | 35 000 states |
| `review` | a review counts whole or not at all and its last word decides; an echo changes nothing | 2 tracks with up to 2 events each, replies of 2 objects | 400 000 states |
| `can` | descriptor, signals, stop returns | 3 frames of all kinds, socket of 2 | 52 000 states |
| `terminal` | display and label | 2 remote frames, 2 local ones, 1 status, 1 mishap, 1 row, closed at any time | 4.9 million states, two minutes |
| `terminal_fallback` | fallback after a failing bus: **violated** | as `terminal` | 30 000 states to the trace |

### Why the bounds are enough

* Queue: two producers and two consumers make it possible that the thread that was notified is
  overtaken by another of its kind; capacity 2 separates "was empty" from "has room" and "was
  full" from "has a value". The proofs remove the bounds for safety.
* Pipeline: three frames exceed the queue (one) and the capture thread's hand (one), so that
  back pressure and a blocked capture thread occur; the frame limit 2 is below the length of the
  source, 0 is no limit. The command lines add a camera with a limit, one that does not open, and endless frames with
  a user who may quit. The telemetry queue of one blocks the main loop in the middle of a
  frame's messages. `InvisibleLimit` is 1 instead of 5: it is only counted up to.
* Telemetry: two failures give an abandoned client and a failed connection, or a lost link after
  it; a window of one separates what was sent from what is queued.
* Video: a socket of one picture makes a client slow after one frame; a buffer of two pictures
  that is cut to one and a half leaves half a picture at its start; two runs give a reconnection.
* Perception: with `MaxMissed` 1 a track is missed, matched again and lost within three frames. The
  rows make a chain of three (the middle one overlaps both its neighbours, which do not overlap each
  other), boxes cut at the edge of the picture, equal confidences, and a class the program does not
  use. The later frames have fewer rows to choose from.
* Review: two tracks with two events each may share a rule; two objects may name one event, contradict each other, or
  be unusable; 3 is the number that does not fit into an int.
* CAN: three frames give an older and a newer value of one signal, with a short or foreign frame
  between; starts and stops are not bounded.
* Terminal: two versions give an older and a newer; one mishap is a lost link, messages sent
  again, or the bus going down. One identifier is on the local bus, as frames that are too short do what
  unknown ones do: nothing.

### Fairness

* `BlockingQueue`: weak fairness of each call that has begun, since no critical section waits
  while it holds the mutex. `ConsumingSpec` adds that consumers call pop again, as the pipeline's loop
  and the telemetry worker do.
* `AnalysisPipeline`: each thread is scheduled, and the library calls return
  (HTTP has a timeout, a CAN read has one that must not be 0). Nothing is assumed of the network. Nor
  is it assumed that a user ever presses a key, that a window is ever found invisible, or that a camera is ever gone.
* `VideoLink`: the streamer's thread and the GUI's event handling (the timer for decoding, reading,
  the end of a reply). Nothing is assumed of the user, of other clients or of when a view opens.
* `CanBusClient`: the receiver and the end of stop.
* `TelemetrySystem` and `RiskReview` have no liveness property; that the publisher's stop returns is part of the
  pipeline's `RunEnds`.
* `Terminal` has none either: its convergence is stated of the states in which nothing is
  left to handle.

Deadlock is checked in every run; where a system may rightly stop, the end is an explicit step
(`Stopped`, `Ended`, `Done`, `Quiet`).

## 4. Divergences found

* `telemetry_status`. `README.md:286` says that the `/status` topic carries the summary of the run at
  its end. `mosquitto_publish` only queues it; `MqttClient::disconnect` (`mqtt_client.cpp:123`)
  then force-stops the network loop and destroys the client. In the trace nothing fails and
  the status does not reach the broker.
* `terminal_fallback`. `docs/imx6ull_qt_terminal.md:80` calls `/can/state` the fallback when the local CAN is
  unavailable. `localCanActive_` is decided once, at the start (`dashboard_window.cpp:161`); an interface
  that fails later only changes a label (`:132`), and the remote state is ignored from then on.
* `pipeline_quit`. `README.md:85-86` says that `--frames 0` goes on until the video ends, the camera is gone or
  the user quits, and that `q` or `Esc` in the live window quits. A camera that does not open becomes endless synthetic
  frames (`video_source.cpp:57`). They have no image, and `Visualizer::show` returns before it asks for a key
  when there is nothing to draw (`visualizer.cpp:109`). In the trace the key is pressed and the
  run goes on for ever, with each thread scheduled.

## 5. Proofs

`BlockingQueueProofs`, for any finite sets of threads, any capacity and any number of calls:

* `TypeCorrect`, `FifoCorrect`, `BoundedCorrect`. FIFO and the bound are inductive with the types.
  (With a capacity of 0 the queue stays empty.)
* `NoConsumerForgottenCorrect`, `NoProducerForgottenCorrect`. The invariant counts: while
  a consumer is blocked, the values stored are no more than the consumers running. A push adds one
  value and, if a consumer is blocked, wakes one; a pop takes one value and one running consumer; a
  consumer blocks only when the queue is empty. Producers and free slots likewise. The proof
  rests on lemmas about the cardinality of the two sets after each of these.
* `CallOrderCorrect`: each producer's values are accepted in the order of its calls. The invariant
  adds that no accepted number exceeds the calls issued, and is less while the call is in progress.
* `RefinesClosableQueue`: with `pending` for the running and waiting threads, each step maps to a step of
  `ClosableQueue` or to none (a wait, a spurious wake-up).

`CanBusClientProofs`, for any number of frames and any buffer:

* `TypeCorrect` and `ReadsOpenSocketOnlyCorrect`. The invariant `ThreadLife` says that a thread runs on an
  open socket, that it has not ended if it is to go on, and that stop() is waiting for it if it is to
  end; without the last part a second start could meet an old thread.
* `SignalsAreLastReceivedCorrect`. Inductive with the types: for each signal either no frame with its
  id and both bytes was given to the receiver, or the last such frame holds the signal's value; and the state
  is valid if and only if a frame with a known id was.

`PipelineProofs`, for any set of configurations, sizes and lengths of the source:

* `NoThreadSurvivesCorrect`. The property speaks of the end of the run only; the invariant `Lives` says for
  every place of the main thread behind a join that the thread joined there is gone, and that no thread
  begins after the start of the run.
* `EveryFrameAnalysedCorrect`. The invariant `FramesInv`: the frames queued follow the one taken without a gap,
  the last one pushed is the last one read (but for the one in the capture thread's hand), the queue is closed before
  the source ends only by a user who quits, and the frames analysed are those up to the one taken. `DrawnInv` relates them
  to the drawing: until the video is open nothing has been written, and the frames it could not be opened with followed by
  those written are the frames analysed, but for the one in hand (`VideoKept`); the stream has the frames analysed without those
  that could not be encoded (`StreamKept`); and a run that was quit was quit by a key or by the window (`QuitByUser`).
* `TypeCorrect`. A frame that was counted was read, and a window that was invisible too often is not looked at again.
* `TelemetryCompleteCorrect`. The invariant `Telling`: what the telemetry queue took, followed by what the call in
  progress is still to push, tells of every frame analysed and every event of the result, with the current
  frame's messages missing between its analysis and `publishFrameSummary`, and with the status at the end once it was
  reported. `TelemetryInv` says that all of it reaches the client: what was accepted is what was handed over, held or queued, the
  worker exists from the start of the run, the queue is not closed during a call, and a worker that is done left it
  empty. `NeverLate` says that with telemetry a run never reaches the frames the histories leave out. The lemmas below them say what
  `Picked` finds in two sequences in a row, and what the messages of one frame tell.
* `NeverStuckCorrect`: until the run has ended the main thread, the capture thread or the telemetry worker can go on. Each
  may wait: for a frame, for room in one of two queues, for a thread to be joined. The invariant `Waiting` says who answers
  for it: a capture thread that is gone, or a user who quits, has closed the frame queue (`Released`), a thread that is joined was
  told to stop (`ToldToStop`), and the publisher's calls come one after the other, each in its phase (`InTurn`). A
  queue that is full or empty leaves its other end something to do. `NeverStuck` writes the
  guards out, since ENABLED is out of the prover's reach. No run checks it: TLC's search for deadlocks and `RunEnds`
  do so for one size.
* `TelemetryIsOutboxCorrect`: the pipeline's use of its publisher implements `Outbox`, with the same mapping as in
  `TelemetrySystem`. The invariant `Shelved` says that stop() alone closes the queue, so that no push before it is refused, that
  the worker holds one message when it publishes, and that with a capacity of 0 nothing is ever on its way. This covers runs that abort, of which `TelemetryComplete` says nothing.
  No run checks it; the run `telemetry` does so for the publisher with a caller of its own.

`TelemetryProofs`, for any number of frames and events, any capacity and window, any number of failures:

* `DrainedBeforeDisconnectCorrect`. The invariant `PublisherInv`: what was accepted is what was handed to the
  client, then what the worker holds, then what is queued; and a worker that is done left a closed, empty queue.
  No run checks it: `ImplementsOutbox` says more of what is handed over, and the run `pipeline` that the worker ends.
* `RefinesOutbox`. What the worker holds, what is queued and what the call in progress has still to push are
  one sequence, `Outgoing`, which a push or a pop leaves as it is (concatenation is associative), a call extends, and a
  publish shortens at its head. `Closing` says that stop() comes after the last call and alone closes the queue,
  so no push is refused, and that a queue of capacity 0 stays empty, so each push there loses its message.
* `LeaksBoundedCorrect` and `LibraryOutlivesClientsCorrect`. The invariant `ClientInv` counts a client as
  abandoned as soon as its publish has failed, so that there is always a free handle, and that the library is
  initialised once for each client alive.
* `FirstArrivalsInOrderCorrect` and `TypeCorrect`. Three invariants meet here. `CallOrder` says that what a call has still
  to push comes after all that the queue took, so that what the worker hands over follows everything it
  handed over before. `LinkTypes` says that the session is a living client's and that the clients that are gone hold nothing.
  `Arrivals` says of each client, while no publish has failed: what it holds was handed over, is in order, and is
  known to the broker or comes after all that the broker knows; what is on its way is known. A link that breaks only
  moves messages back from on their way to waiting, so sending them again adds nothing to the order.

`TerminalProofs`, for any number of messages, frames and mishaps:

* `DisplayFollowsSourceCorrect`. The property without a local bus needs that none of the terminal's own states is on its
  way back (`SourceInv`); `TypeCorrect`.
* `ConvergesToNewestCorrect` and `ConnectionLabelRightCorrect`. Both properties speak of the states with no event posted. The
  invariant `Settled` says for every state: the last event of a kind, once it was posted, is still posted
  with none of its kind behind it, or was handled and its effect is still there. Three lemmas about
  sequences say what appending an event, of the kind or of another, and taking the first one do to this.

`VideoLinkProofs`, for any sockets and clients, sizes of socket and buffer, and numbers of pictures, runs and disturbances:

* `TypeCorrect` and `NothingLeftOpenCorrect`. The invariant `LinkInv` ties the two ends together: which connections the
  backlog, the client list, the network and the view may know of in each phase of the streamer, and that none of
  them outlives `stop()`.
* `ShowsWholeFramesCorrect` and `NeverGoesBackCorrect`. The invariant `Pictures` follows the marks of a connection from the
  streamer's current frame over the wire into the view's buffer: they are alternately the start and the end of
  one picture, they never go back, they end on a whole picture while the connection is open, and they are no newer than the frame
  being sent and no older than the picture in view. A buffer that is trimmed may begin with an end, which is why the
  decoder's search for a start is needed.
* `SentFramesArriveCorrect`: what was sent to the terminal is not lost before its reply ends. This is the safety half of
  `NewestIsShown`: the fairness there brings to the screen what is proved here to be still on its way. `Ordered` is what makes
  it true when the buffer is cut: of any three marks in a row two are a whole picture, and those behind are not older. So a picture and
  a half must be kept, which is a hypothesis; the code keeps 2 MB. With room for a picture only, TLC finds a
  client dropped in the middle of a frame whose last whole picture is cut away with the front. No run checks the property
  by itself; `NewestIsShown` cannot hold without it.

`RiskReviewProofs`, for any tracks, replies of any length and contents:

* `TypeCorrect`, `ReviewIsWholeCorrect` and `EchoKeepsRisksCorrect`. A lemma on the analysis says that a
  frame's events name each pair of a track and a behaviour once; one on the review, by induction on the objects applied, says
  what the first k of them have made of an event. The invariant is `Waiting` (nothing has changed before the review),
  `Sent` (what is in a reply is what was sent, and an echo is the request) and `Judged` (what the review has done).

`PerceptionProofs`, for any outputs of a model, any forms of its tensors, predictions, sizes and thresholds:

* `TypeCorrect` and `KeptExactlyWhileRecentCorrect`. The invariant `TrackerInv` says of the list of tracks that it is
  complete and ordered, that a track's `missed` is the number of frames since it was seen, and that its
  trajectory is the window that ends there. The proof follows the list through matching, appending and forgetting.
* `OneTrackPerObjectCorrect`. `Match` is injective, by induction on the tracks; what was not matched
  becomes new tracks; and the suppression keeps only boxes apart, by induction on the boxes. That these are all the boxes
  rests on `Ranked` being a permutation (a pigeonhole argument on the ranks), that they lie in the picture on the
  arithmetic of clipping; and an overlap of lengths is related to the number of pixels shared.
* `DetectionsAreExactCorrect`. The program's way from a tensor to detections (turn it or not, find the best class of a
  row, scale, clip, sort, suppress) against a definition without order: a detection has the pixels, the score and a best class of a
  row, and each row that is sure and wide enough is detected, or overlaps too much a detection at least as sure. The lemmas: each attribute of a
  row is found at its place in all four layouts, as quotient and rest are unique; scaling there and back gives the same
  edges on `ExactSizes`, where the frame's larger side is an even multiple of the model's input, as 1280 is of 640; `Ranked` is a permutation and sorted; and
  the suppression, by induction on the boxes it has been through, has kept each of them or one that speaks for it. The
  invariant `Inference` says that the output at hand is what the detections came from. At other sizes an edge may be rounded
  to the next pixel, and nothing is claimed. `ExactSizes` asks besides for more than one class, so that a row has the attributes the
  detector looks for, and for a threshold below a complete overlap.
* `MatchingIsGreedyCorrect`, an action property: what a track takes is the best of what the older tracks left.

The assumptions are those named in the modules (`CapacityAssumption`, `ThreadsAssumption`,
`CanAssumption`, `ConfigsAssumption`, `SizesAssumption`, `SystemAssumption`, `InflightAssumption`,
`MaxFailuresAssumption`, `TerminalAssumption`, `SocketRoomAssumption`, `BufferAssumption`, `SocketsAssumption`,
`MaxFramesAssumption`, `ReviewAssumption`, `TrackerAssumption`, `DetectorAssumption`, `PerceptionAssumption`), and TLC
evaluates them in the runs. They ask for natural numbers as bounds, at least one message in flight, that the
vehicle program publishes at least one frame, that part of a full buffer is kept, and for the kind of model that the detector is
made for.

What a recursive function computes is proved by induction on a set: the set of numbers for which the statement holds
contains 0 and successors, hence all naturals, as the library's theorems on well-founded relations give it without an operator as a
parameter. This needs the recursion written as a function, so the models use `Picked` where `SelectSeq` would do.

Only model-checked is what speaks of liveness and fairness, which is out of the prover's reach: `RunEnds`, that the view retries and shows the
newest picture, that the CAN client's stop returns, that the queue's calls return and what it accepted is delivered, and the liveness half of its refinement.
Each invariant and each action property that a passing run checks is a theorem.

## 6. Not modelled

* What is drawn in a picture, log lines, figures of performance, the terminal's option parser, build and deployment: nothing
  else depends on them, or they are external.
* The networks of the detector and of the review service, the Kalman filter's arithmetic, decoding of pictures: external.
  Models of other sets of classes than COCO's, for which the detector's guess at the layout may be wrong (a hazard
  without a property).
* The JSON of the LLM review character by character, the picture in the request, the service's own
  HTTP request to its model.
* `CanBusClient::send`, which nobody calls; what reads the `FrameCache`, as nothing does.
* Endless connections to the streamer, which keep its accept loop busy. A receive timeout of 0 on the CAN bus.

## 7. Plan

Done, in the order of importance: the queue with its proofs; telemetry with its proofs; the pipeline with its command
lines and endless sources, and its proofs; the video link with the view's end; the detector and the
tracker; the CAN client with its proofs; the terminal until its window is closed, with its proofs; the risk review.

Done as well: the proofs of the video link, the risk review and perception, the rest of those of telemetry,
the publisher as an implementation of `Outbox`, alone and inside the pipeline, and that the pipeline is never stuck,
and that no frame sent to the terminal is lost on its way.

Next, in this order:

1. `RiskReview` inside the pipeline: a review that takes as long as the timeout holds the main loop up, with the
   capture thread blocked behind it. An abstract review in one step, which the detailed one implements.
2. The streamer's shutdown inside the pipeline's order of stops.
