------------------------------- MODULE Terminal -------------------------------
(***************************************************************************)
(* The Qt terminal without its video: DashboardWindow and SocketCanReader  *)
(* in the GUI thread, MqttBridge whose callbacks run in libmosquitto's     *)
(* network thread and post events to the GUI thread.  External: the CAN    *)
(* bus of the board, the broker, and the vehicle program that publishes    *)
(* its frames, its events and the state of its own CAN bus.                *)
(***************************************************************************)
EXTENDS CanDecoder, Sequences

CONSTANTS MaxRows,      \* rows of the event table: 30
          MaxVersions,  \* bound: frames the vehicle program publishes
          MaxLocal,     \* bound: frames on the board's CAN bus
          MaxLosses,    \* bound: links lost, messages sent again, the bus going down
          BusIds        \* bound: the identifiers on the board's bus

ASSUME TerminalAssumption ==
    /\ MaxRows \in Nat /\ MaxVersions \in Nat \ {0} /\ MaxLocal \in Nat /\ MaxLosses \in Nat
    /\ BusIds \subseteq Signals \cup {"other"}

VARIABLES
    gui,             \* GUI thread: "starting", "announcing", "startingCan", "idle",
                     \*   "reading" (inside readAvailableFrames), "closing", "closed"
    client,          \* mqtt_ has a client
    connected,       \* connected_
    posted,          \* events posted to the GUI thread, not handled
    connectionShown, \* connectionLabel_ says connected
    callbacks,       \* history: a callback has run since start() returned
    localCanActive,  \* localCanActive_
    canStatus,       \* canStatusLabel_: "stopped", "listening", "unavailable", "error"
    canState,        \* SocketCanReader: state_
    shown,           \* the vehicle state on display: where from, and which
    labels,          \* the other figures: whose frame number, fps and cpu, 0 for "--"
    rows,            \* eventsTable_, newest first
    rx,              \* external: frames in the CAN socket
    localFrames,     \* external: frames on the board's bus so far
    canUp,           \* external: the interface is up
    republished,     \* external: states the broker has from this terminal
    next,            \* external: the next message of the vehicle program
    missed,          \* history: the topics whose last message was lost on the way here
    losses           \* external: what went wrong so far

guiVars == <<gui, connectionShown, localCanActive, canStatus, canState, shown, labels,
             rows>>
bridgeVars == <<client, connected, posted, callbacks>>
worldVars == <<rx, localFrames, canUp, republished, next, missed, losses>>
vars == <<guiVars, bridgeVars, worldVars>>

NoLabels == [frame |-> 0, fps |-> 0, cpu |-> 0]
Nothing == [from |-> "none", what |-> NoVehicleState]
Local(state) == [from |-> "local", what |-> state]
Remote(version) == [from |-> "remote", what |-> version]

\* The vehicle program's messages, three for each frame (the first and the last
\* carry the vehicle state of that frame), and its status at the end.
Topics == <<"frames", "events", "can/state">>
Status == MaxVersions + 1
MessageCount == MaxVersions * Len(Topics) + 1
MessageAt(i) ==
    [kind |-> "message", what |-> Remote(((i - 1) \div Len(Topics)) + 1),
     topic |-> IF i = MessageCount THEN "status" ELSE Topics[((i - 1) % Len(Topics)) + 1]]
Echo(state) == [kind |-> "message", topic |-> "can/state", what |-> Local(state)]
Connection(up) == [kind |-> "connection", up |-> up]

Init ==
    /\ gui = "starting"
    /\ client = FALSE /\ connected = FALSE /\ posted = <<>> /\ callbacks = FALSE
    /\ connectionShown = FALSE
    /\ localCanActive = FALSE /\ canStatus = "stopped"
    /\ canState = NoVehicleState /\ shown = Nothing /\ rows = <<>>
    /\ rx = <<>> /\ localFrames = 0 /\ canUp = TRUE /\ republished = <<>>
    /\ labels = NoLabels
    /\ next = 1 /\ missed = {} /\ losses = 0

----------------------------------------------------------------------------
(* The constructor of the window: connectServices(). *)

\* MqttBridge::start(): the network thread is running once it has succeeded.
StartBridge ==
    /\ gui = "starting"
    /\ \/ client' = TRUE /\ gui' = "announcing"
       \/ client' = FALSE /\ gui' = "startingCan"
    /\ UNCHANGED <<connected, posted, callbacks, connectionShown, localCanActive, canStatus,
                   canState, shown, labels, rows, worldVars>>

\* Its last statement posts "connecting": behind what the network thread has
\* posted by then.
Announce ==
    /\ gui = "announcing"
    /\ posted' = Append(posted, Connection(FALSE))
    /\ callbacks' = FALSE
    /\ gui' = "startingCan"
    /\ UNCHANGED <<client, connected, connectionShown, localCanActive, canStatus, canState,
                   shown, labels, rows, worldVars>>

\* SocketCanReader::start(), once.
StartCan ==
    /\ gui = "startingCan"
    /\ localCanActive' \in {canUp, FALSE}
    /\ canStatus' = IF localCanActive' THEN "listening" ELSE "unavailable"
    /\ gui' = "idle"
    /\ UNCHANGED <<bridgeVars, connectionShown, canState, shown, labels, rows, worldVars>>

----------------------------------------------------------------------------
(* The event loop. *)

SetConnectionState ==
    /\ gui = "idle" /\ posted # <<>>
    /\ Head(posted).kind = "connection"
    /\ connectionShown' = Head(posted).up
    /\ posted' = Tail(posted)
    /\ UNCHANGED <<gui, client, connected, callbacks, localCanActive, canStatus, canState,
                   shown, labels, rows, worldVars>>

\* Seeded: the rows at the bottom stay.
AddEventFault(event) == <<event>> \o rows

\* addEvent(): on top, the bottom row out.
AddEvent(event) == SubSeq(<<event>> \o rows, 1, IF Len(rows) < MaxRows THEN Len(rows) + 1
                                                                       ELSE MaxRows)

\* Seeded: the fallback is not tied to the local CAN; the vehicle program's
\* messages are used for the table alone.
DisplayFault(message) == message.what
DisplayNeverFault(message) == shown

\* What the display shows after a message with a vehicle state.
Display(message) == IF localCanActive THEN shown ELSE message.what

\* handleMessage(), by the end of the topic; the terminal's own states come
\* back to it under "terminal/can/state".
HandleMessage ==
    /\ gui = "idle" /\ posted # <<>>
    /\ LET message == Head(posted) IN
          /\ message.kind = "message"
          /\ \/ message.topic = "frames" /\ shown' = Display(message)
                /\ labels' = [labels EXCEPT !.frame = message.what.what, !.fps = message.what.what]
                /\ UNCHANGED rows
             \/ message.topic = "can/state" /\ shown' = Display(message)
                /\ UNCHANGED <<labels, rows>>
             \/ message.topic = "events" /\ rows' = AddEvent(message.what)
                /\ UNCHANGED <<shown, labels>>
             \/ message.topic = "status"
                /\ labels' = [labels EXCEPT !.fps = message.what.what, !.cpu = message.what.what]
                /\ UNCHANGED <<shown, rows>>
    /\ posted' = Tail(posted)
    /\ UNCHANGED <<gui, client, connected, callbacks, connectionShown, localCanActive,
                   canStatus, canState, worldVars>>

\* readAvailableFrames(): called when there is something to read ...
Readable ==
    /\ gui = "idle" /\ localCanActive
    /\ rx # <<>>
    /\ gui' = "reading"
    /\ UNCHANGED <<connectionShown, localCanActive, canStatus, canState, shown,
                   labels, rows, bridgeVars, worldVars>>

Known(frame) == frame.long /\ frame.id \in Signals

\* ... it applies frame after frame, showing and publishing each new state (a
\* publish that fails is not repeated) ...
ApplyOne ==
    /\ gui = "reading"
    /\ rx # <<>>
    /\ rx' = Tail(rx)
    /\ canState' = ApplyFrame(Head(rx), canState)
    /\ IF Known(Head(rx))
         THEN /\ shown' = Local(canState')
              /\ \/ connected /\ client /\ republished' = Append(republished, canState')
                 \/ UNCHANGED republished
         ELSE UNCHANGED <<shown, republished>>
    /\ UNCHANGED <<gui, connectionShown, localCanActive, canStatus, labels, rows, bridgeVars,
                   localFrames, canUp, next, missed, losses>>

\* ... until there is no more.
ReadAll ==
    /\ gui = "reading"
    /\ rx = <<>>
    /\ gui' = "idle"
    /\ UNCHANGED <<connectionShown, localCanActive, canStatus, canState, shown,
                   labels, rows, bridgeVars, worldVars>>

\* Or the read fails: the interface has gone down.
CanError ==
    /\ gui = "idle" /\ localCanActive
    /\ ~canUp /\ canStatus # "error"
    /\ canStatus' = "error"
    /\ UNCHANGED <<gui, connectionShown, localCanActive, canState, shown, labels, rows,
                   bridgeVars, worldVars>>

\* The window is closed and destroyed with all that it shows, and its children
\* with it: the reader closes its socket, the bridge begins stop().  What is
\* posted will not be handled.
CloseWindow ==
    /\ gui = "idle"
    /\ gui' = "closing"
    /\ connected' = FALSE /\ posted' = <<>> /\ rx' = <<>>
    /\ connectionShown' = FALSE /\ localCanActive' = FALSE /\ canStatus' = "stopped"
    /\ canState' = NoVehicleState /\ shown' = Nothing /\ labels' = NoLabels /\ rows' = <<>>
    /\ UNCHANGED <<client, callbacks, localFrames, canUp, republished, next, missed, losses>>

\* The network thread is joined, then the client is destroyed.
StopBridge ==
    /\ gui = "closing"
    /\ gui' = "closed"
    /\ client' = FALSE
    /\ UNCHANGED <<connectionShown, localCanActive, canStatus, canState, shown, labels, rows,
                   connected, posted, callbacks, worldVars>>

Gui ==
    \/ StartBridge \/ Announce \/ StartCan
    \/ SetConnectionState \/ HandleMessage \/ Readable \/ ApplyOne \/ ReadAll \/ CanError
    \/ CloseWindow \/ StopBridge

----------------------------------------------------------------------------
(* The network thread: its callbacks, up to the end of MqttBridge::stop(). *)

Post(event) == posted' = IF gui = "closing" THEN posted ELSE Append(posted, event)

\* onConnect(): the broker accepts and the subscription is made, or not.
OnConnect ==
    /\ client /\ ~connected
    /\ connected' \in BOOLEAN
    /\ Post(Connection(connected'))
    /\ ~connected' => losses < MaxLosses
    /\ losses' = IF connected' THEN losses ELSE losses + 1
    /\ callbacks' = TRUE
    /\ UNCHANGED <<guiVars, client, rx, localFrames, canUp, republished, next, missed>>

\* Seeded: the flag is left as it is.
OnDisconnectFault ==
    /\ connected /\ losses < MaxLosses
    /\ losses' = losses + 1
    /\ Post(Connection(FALSE))
    /\ callbacks' = TRUE
    /\ UNCHANGED <<guiVars, client, connected, rx, localFrames, canUp, republished, next, missed>>

OnDisconnect ==
    /\ connected /\ losses < MaxLosses
    /\ losses' = losses + 1
    /\ connected' = FALSE
    /\ Post(Connection(FALSE))
    /\ callbacks' = TRUE
    /\ UNCHANGED <<guiVars, client, rx, localFrames, canUp, republished, next, missed>>

\* onMessage(), for the vehicle program's next message; while this terminal is
\* not connected the message passes it by.
OnMessage ==
    /\ next <= MessageCount
    /\ next' = next + 1
    /\ IF connected THEN Post(MessageAt(next)) /\ missed' = missed \ {MessageAt(next).topic}
                    ELSE missed' = missed \cup {MessageAt(next).topic} /\ UNCHANGED posted
    /\ UNCHANGED <<guiVars, client, connected, callbacks, rx, localFrames, canUp, republished,
                   losses>>

\* onMessage(), for a state of this terminal.
OnEcho ==
    /\ connected /\ republished # <<>>
    /\ Post(Echo(Head(republished)))
    /\ republished' = Tail(republished)
    /\ UNCHANGED <<guiVars, client, connected, callbacks, rx, localFrames, canUp, next, missed,
                   losses>>

----------------------------------------------------------------------------
(* External: the vehicle program sends messages again; the board's CAN bus. *)
SendAgain ==
    /\ losses < MaxLosses
    /\ losses' = losses + 1
    /\ next' \in 1..(next - 1)
    /\ UNCHANGED <<guiVars, bridgeVars, rx, localFrames, canUp, republished, missed>>

BusFrame ==
    /\ canUp /\ localCanActive
    /\ localFrames < MaxLocal
    /\ localFrames' = localFrames + 1
    /\ \E frame \in CanFrame({localFrames + 1}) :
          frame.id \in BusIds /\ rx' = Append(rx, frame)
    /\ UNCHANGED <<guiVars, bridgeVars, canUp, republished, next, missed, losses>>

BusDown ==
    /\ canUp /\ losses < MaxLosses
    /\ losses' = losses + 1
    /\ canUp' = FALSE
    /\ UNCHANGED <<guiVars, bridgeVars, rx, localFrames, republished, next, missed>>

Quiet ==
    /\ next > MessageCount /\ posted = <<>> /\ gui = "idle"
    /\ UNCHANGED vars

\* A closed terminal does nothing more.
Closed == gui = "closed" /\ UNCHANGED vars

Next ==
    \/ /\ gui # "closed"
       /\ \/ Gui
          \/ OnConnect \/ OnDisconnect \/ OnMessage \/ OnEcho
          \/ SendAgain \/ BusFrame \/ BusDown
    \/ Quiet \/ Closed

Spec == Init /\ [][Next]_vars

----------------------------------------------------------------------------
\* The table never has more rows than MaxRows, and the bridge is connected
\* only with a client (a callback during stop() may set the flag again: publish()
\* asks for both).
TypeOK ==
    /\ gui \in {"starting", "announcing", "startingCan", "idle", "reading", "closing", "closed"}
    /\ client \in BOOLEAN /\ connected \in BOOLEAN
    /\ connected => client \/ gui = "closed"
    /\ labels \in [frame : 0..MaxVersions, fps : 0..Status, cpu : {0, Status}]
    /\ missed \subseteq {MessageAt(i).topic : i \in 1..MessageCount}
    /\ connectionShown \in BOOLEAN /\ localCanActive \in BOOLEAN
    /\ canStatus \in {"stopped", "listening", "unavailable", "error"}
    /\ canState \in VehicleState(1..MaxLocal)
    /\ Len(rows) <= MaxRows

\* With a local CAN bus the display shows the state read there last, and
\* neither the vehicle program's nor the terminal's own state that comes back
\* through the broker; without one it never shows a local state.
DisplayFollowsSource ==
    /\ localCanActive => shown \in {Nothing, Local(canState)}
    /\ ~localCanActive => shown.from # "local"

\* Whatever was sent again, or lost and sent again, the terminal ends on what is
\* newest: the number of the last frame, the figures of the status (the rate is
\* that of the last frame if it has no status) and, without a local CAN bus, the
\* last state of the vehicle program; each unless its last message was lost.
ConvergesToNewest ==
    next > MessageCount /\ posted = <<>> /\ gui = "idle" =>
        /\ "frames" \notin missed => labels.frame = MaxVersions
        /\ "status" \notin missed => labels.fps = Status /\ labels.cpu = Status
        /\ "can/state" \notin missed /\ ~localCanActive => shown = Remote(MaxVersions)

\* Once the GUI has handled what was posted, the label says what the bridge
\* knows, provided that the network thread has reported anything after start()
\* announced that it is connecting: a connection made earlier is overwritten
\* by that announcement.
ConnectionLabelRight ==
    posted = <<>> /\ callbacks /\ gui \notin {"closing", "closed"} => connectionShown = connected

\* docs/imx6ull_qt_terminal.md: /can/state is used as fallback display state
\* when local CAN is unavailable.  So once the terminal has seen the interface
\* fail, a state of the vehicle program that it handles is displayed.
FallbackWhenUnavailable ==
    [][(canStatus \in {"unavailable", "error"} /\ HandleMessage
          /\ Head(posted).topic = "can/state" /\ Head(posted).what.from = "remote")
       => shown' = Head(posted).what]_vars
=============================================================================
