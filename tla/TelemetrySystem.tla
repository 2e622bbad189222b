-------------------------- MODULE TelemetrySystem --------------------------
(***************************************************************************)
(* The publisher with its MQTT client, the library's threads and the       *)
(* broker.  The owner's calls are those of AnalysisPipeline::run: start,   *)
(* a summary per frame, the status, stop.                                  *)
(***************************************************************************)
EXTENDS TelemetryPublisher, MqttClient

CONSTANTS Frames,        \* frames analysed
          MaxEvents,     \* bound: risk events of one frame
          CanVersions    \* vehicle states a frame may see, 0 for none

ASSUME SystemAssumption == Frames \in Nat /\ MaxEvents \in Nat

VARIABLES framesDone,     \* publishFrameSummary calls made
         statusDone      \* publishStatus has been called

vars == <<publisherVars, mqttVars, framesDone, statusDone>>

Init ==
    /\ PublisherInit
    /\ MqttInit
    /\ framesDone = 0
    /\ statusDone = FALSE

----------------------------------------------------------------------------
\* The owner: the pipeline's main thread.
Start ==
    /\ StartThread
    /\ Connect \/ ConnectFails
    /\ UNCHANGED <<framesDone, statusDone>>

Summarise ==
    /\ framesDone < Frames
    /\ ~statusDone
    /\ \E events \in 0..MaxEvents, can \in CanVersions :
          PublishFrameSummary(framesDone + 1, events, can)
    /\ framesDone' = framesDone + 1
    /\ UNCHANGED <<statusDone, mqttVars>>

ReportStatus ==
    /\ ~statusDone
    /\ PublishStatus(Frames + 1)
    /\ statusDone' = TRUE
    /\ UNCHANGED <<framesDone, mqttVars>>

Push == PublishAsync /\ UNCHANGED <<framesDone, statusDone, mqttVars>>

BeginStop == statusDone /\ StopCloses /\ UNCHANGED <<framesDone, statusDone, mqttVars>>

EndStop == StopJoins /\ Disconnect /\ UNCHANGED <<framesDone, statusDone>>

\* The worker thread.
Pop == WorkerPops /\ UNCHANGED <<framesDone, statusDone, mqttVars>>
Hand == WorkerPublishes /\ Publish(Head(held)) /\ UNCHANGED <<framesDone, statusDone>>
Exit == WorkerExits /\ UNCHANGED <<framesDone, statusDone, mqttVars>>

Owner == Start \/ Summarise \/ ReportStatus \/ Push \/ BeginStop \/ EndStop
Worker == Pop \/ Hand \/ Exit

\* The owner has stopped the publisher and goes on without it.
Stopped == phase = "stopped" /\ UNCHANGED vars

Next ==
    \/ Owner
    \/ Worker
    \/ Network /\ UNCHANGED <<publisherVars, framesDone, statusDone>>
    \/ Stopped

Spec == Init /\ [][Next]_vars

----------------------------------------------------------------------------
Message == [topic : {"frames", "events", "can/state", "status"},
            frame : 1..(Frames + 1), part : 0..(MaxEvents + 1), can : CanVersions \cup {0}]

\* The client the publisher holds is never one that has been destroyed, and
\* no more is on its way than it has queued.
TypeOK ==
    /\ items \in Seq(Message) /\ closed \in BOOLEAN
    /\ phase \in {"created", "running", "stopping", "stopped"}
    /\ todo \in Seq(Message) /\ held \in Seq(Message)
    /\ worker \in {"none", "popping", "publishing", "done"}
    /\ accepted \in Seq(Message) /\ handed \in Seq(Message)
    /\ framesDone \in 0..Frames /\ statusDone \in BOOLEAN
    /\ live \subseteq Handles
    /\ client \in live \cup {NoClient}
    /\ connected \in BOOLEAN /\ (connected => client # NoClient)
    /\ session \in live \cup {NoClient}
    /\ outbox \in [Handles -> Seq(Message)]
    /\ sent \in 0..Inflight
    /\ sent <= IF session = NoClient THEN 0 ELSE Len(outbox[session])
    /\ libRefs \in Nat /\ arrived \in Seq(Message)

\* When stop() has returned, every message the queue took was given to the
\* client before the client was disconnected, in the order of the calls:
\* close() does not cost the backlog, and the worker is not overtaken.
DrainedBeforeDisconnect ==
    phase = "stopped" => worker = "done" /\ held = <<>> /\ handed = accepted

\* The publisher is an outbox: the call in progress, the queue and the worker's
\* hand are one sequence of what was told and is still to be handed over, and
\* nothing overtakes, is lost, is handed over twice, or is left when stop()
\* disconnects, unless the queue has a capacity of 0.
Promise == INSTANCE Outbox WITH
              Keeps <- Capacity > 0,
              waiting <- (held \o items) \o todo,
              stage <- IF phase = "stopped" THEN "ended" ELSE IF closed THEN "closing" ELSE "open"
ImplementsOutbox == Promise!Spec

\* A client is abandoned, still running and still reconnecting under the same
\* id, only by the connect() that follows a failed publish: at most one each.
LeaksBounded == Cardinality(live \ {client}) <= publishErrors

\* The library is never cleaned up under a client that is still alive, although
\* initialisations and clean-ups do not pair up when a connection fails.
LibraryOutlivesClients == Cardinality(live) <= libRefs

\* As long as no publish failed there is one client, and whatever links break
\* and whatever is sent again, the broker first sees the messages in order.
FirstArrivalsInOrder ==
    publishErrors = 0 =>
        \A i, j \in DOMAIN arrived : i < j => Before(arrived[i], arrived[j])

\* README.md: the /status topic carries the summary of the run when it ends.
\* So when no call failed and no link broke, the broker has seen it once the
\* publisher has stopped.
StatusReachesBroker ==
    phase = "stopped" /\ failures = 0 =>
        \E i \in DOMAIN arrived : arrived[i].topic = "status"
=============================================================================
