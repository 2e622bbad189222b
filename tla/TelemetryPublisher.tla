------------------------- MODULE TelemetryPublisher -------------------------
(***************************************************************************)
(* vehicle::business::TelemetryPublisher, enabled: the calls its owner     *)
(* makes (start, publishFrameSummary for each frame, publishStatus, stop)  *)
(* and the worker thread that empties the queue.  The MQTT client is not   *)
(* here: what it answers is only logged, so the publisher does the same    *)
(* whatever happens to it.  TelemetrySystem adds it.                       *)
(***************************************************************************)
EXTENDS QueueState

VARIABLES phase,      \* "created", "running", "stopping", "stopped"
          todo,       \* what the call in progress has still to push
          worker,     \* "none", "popping", "publishing", "done"
          held,       \* the message the worker has popped, in a sequence
          accepted,   \* history: messages the queue has taken
          handed      \* history: messages given to mqtt_.publish

publisherVars == <<items, closed, phase, todo, worker, held, accepted, handed>>

\* A message is its topic, the frame it is about, its place in the frame's
\* messages, and the version of the vehicle state in it (0: no valid state).
Msg(topic, frame, part, can) == [topic |-> topic, frame |-> frame, part |-> part, can |-> can]

Before(m, n) == m.frame < n.frame \/ (m.frame = n.frame /\ m.part < n.part)

PublisherInit ==
    /\ QueueInit
    /\ phase = "created"
    /\ todo = <<>>
    /\ worker = "none"
    /\ held = <<>>
    /\ accepted = <<>>
    /\ handed = <<>>

\* start(): a failed connect() is tolerated, the thread starts anyway.
StartThread ==
    /\ phase = "created"
    /\ phase' = "running"
    /\ worker' = "popping"
    /\ UNCHANGED <<items, closed, todo, held, accepted, handed>>

\* publishFrameSummary: the summary, one message for each event, and the
\* vehicle state if it is valid.
FrameMessages(frame, events, can) ==
    <<Msg("frames", frame, 0, can)>>
      \o [e \in 1..events |-> Msg("events", frame, e, can)]
      \o (IF can = 0 THEN <<>> ELSE <<Msg("can/state", frame, events + 1, can)>>)

PublishFrameSummary(frame, events, can) ==
    /\ phase = "running"
    /\ todo = <<>>
    /\ todo' = FrameMessages(frame, events, can)
    /\ UNCHANGED <<items, closed, phase, worker, held, accepted, handed>>

PublishStatus(frame) ==
    /\ phase = "running"
    /\ todo = <<>>
    /\ todo' = <<Msg("status", frame, 0, 0)>>
    /\ UNCHANGED <<items, closed, phase, worker, held, accepted, handed>>

\* publishAsync: the caller blocks while the queue is full, and a refusal is
\* only logged.
PublishAsync ==
    /\ todo # <<>>
    /\ \/ Store(Head(todo)) /\ accepted' = Append(accepted, Head(todo))
       \/ (Refuse \/ Discard) /\ UNCHANGED accepted
    /\ todo' = Tail(todo)
    /\ UNCHANGED <<phase, worker, held, handed>>

\* run(): pop, publish, again, until the queue is closed and empty.
WorkerPops ==
    /\ worker = "popping"
    /\ Take(Head(items))
    /\ held' = <<Head(items)>>
    /\ worker' = "publishing"
    /\ UNCHANGED <<phase, todo, accepted, handed>>

WorkerPublishes ==
    /\ worker = "publishing"
    /\ handed' = handed \o held
    /\ held' = <<>>
    /\ worker' = "popping"
    /\ UNCHANGED <<items, closed, phase, todo, accepted>>

\* Seeded: the worker leaves as soon as it sees the queue closed.
WorkerExitsFault ==
    /\ worker = "popping"
    /\ closed /\ UNCHANGED queue
    /\ worker' = "done"
    /\ UNCHANGED <<phase, todo, held, accepted, handed>>

WorkerExits ==
    /\ worker = "popping"
    /\ Drained
    /\ worker' = "done"
    /\ UNCHANGED <<phase, todo, held, accepted, handed>>

\* stop(): close the queue, ...
StopCloses ==
    /\ phase = "running"
    /\ todo = <<>>
    /\ Shut
    /\ phase' = "stopping"
    /\ UNCHANGED <<todo, worker, held, accepted, handed>>

\* Seeded: stop() does not join the worker.
StopJoinsFault ==
    phase = "stopping" /\ phase' = "stopped"
    /\ UNCHANGED <<items, closed, todo, worker, held, accepted, handed>>

\* ... join the worker and disconnect (the client's part is in TelemetrySystem).
StopJoins ==
    /\ phase = "stopping"
    /\ worker = "done"
    /\ phase' = "stopped"
    /\ UNCHANGED <<items, closed, todo, worker, held, accepted, handed>>
=============================================================================
