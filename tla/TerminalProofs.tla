--------------------------- MODULE TerminalProofs ---------------------------
(***************************************************************************)
(* Theorems about Terminal, for any number of messages, frames and         *)
(* mishaps: the display follows one source; the types are right; the       *)
(* display ends on what is newest, and the label on what the bridge knows. *)
(***************************************************************************)
EXTENDS Terminal, SequenceTheorems, TLAPS

(* One source.  The terminal's own states come back through the broker, so *)
(* that what must be excluded without a local CAN bus is that one of them  *)
(* is on its way.                                                          *)

\* The events that carry no state of this terminal.
RemoteEvent == {Connection(up) : up \in BOOLEAN} \cup {MessageAt(i) : i \in Nat}

\* Before the event loop nothing is displayed, and the CAN bus is not in use.
Preparing == {"starting", "announcing", "startingCan"}
NothingYet == gui \in Preparing => shown = Nothing /\ ~localCanActive
ReadsLocally == gui = "reading" => localCanActive

\* Without a local CAN bus no own state is posted, nor will be.
NoEcho ==
    ~localCanActive =>
        /\ posted \in Seq(RemoteEvent)
        /\ gui \in {"closing", "closed"} \/ republished = <<>>

SourceInv == DisplayFollowsSource /\ NothingYet /\ ReadsLocally /\ NoEcho /\ next \in Nat

LEMMA RemoteEventIsRemote ==
    ASSUME NEW e \in RemoteEvent, e.kind = "message" PROVE e.what.from = "remote"
BY DEF RemoteEvent, Connection, MessageAt, Remote

LEMMA InitSource == Init => SourceInv
<1> SUFFICES ASSUME Init PROVE SourceInv
    OBVIOUS
<1>1. posted \in Seq(RemoteEvent)
    BY EmptySeq DEF Init
<1>2. shown.from # "local"
    BY DEF Init, Nothing
<1>. QED
    BY <1>1, <1>2 DEF Init, SourceInv, DisplayFollowsSource, NothingYet, ReadsLocally, NoEcho,
                      Preparing

\* What is posted while there is no local CAN bus is remote.
LEMMA PostKeepsRemote ==
    ASSUME NoEcho, NEW e \in RemoteEvent, Post(e) PROVE ~localCanActive => posted' \in Seq(RemoteEvent)
BY AppendProperties DEF NoEcho, Post

LEMMA GuiKeepsSource == SourceInv /\ Gui => SourceInv'
<1> SUFFICES ASSUME SourceInv, Gui PROVE SourceInv'
    OBVIOUS
<1>. USE DEF SourceInv, NothingYet, ReadsLocally, Preparing
<1>1. CASE StartBridge
    BY <1>1 DEF StartBridge, worldVars, DisplayFollowsSource, NoEcho
<1>2. CASE Announce
    <2>1. Connection(FALSE) \in RemoteEvent
        BY DEF RemoteEvent
    <2>2. posted' \in Seq(RemoteEvent)
        BY <1>2, <2>1, AppendProperties DEF Announce, NoEcho
    <2>. QED
        BY <1>2, <2>2 DEF Announce, worldVars, DisplayFollowsSource, NoEcho
<1>3. CASE StartCan
    BY <1>3 DEF StartCan, bridgeVars, worldVars, DisplayFollowsSource, NoEcho, Nothing
<1>4. CASE SetConnectionState
    <2>1. ~localCanActive => posted' \in Seq(RemoteEvent)
        BY <1>4, HeadTailProperties DEF SetConnectionState, NoEcho
    <2>. QED
        BY <1>4, <2>1 DEF SetConnectionState, worldVars, DisplayFollowsSource, NoEcho
<1>5. CASE HandleMessage
    <2>1. ~localCanActive => posted' \in Seq(RemoteEvent) /\ Head(posted) \in RemoteEvent
        BY <1>5, HeadTailProperties DEF HandleMessage, NoEcho
    <2>2. ~localCanActive => Head(posted).what.from = "remote"
        BY <1>5, <2>1, RemoteEventIsRemote DEF HandleMessage
    <2>3. \/ shown' = shown
          \/ ~localCanActive /\ shown' = Head(posted).what
        BY <1>5 DEF HandleMessage, Display
    <2>4. gui = "idle" /\ UNCHANGED <<gui, localCanActive, canState, republished, next>>
        BY <1>5 DEF HandleMessage, worldVars
    <2>5. DisplayFollowsSource'
        BY <2>2, <2>3, <2>4 DEF DisplayFollowsSource
    <2>. QED
        BY <2>1, <2>4, <2>5 DEF NoEcho
<1>6. CASE Readable \/ ReadAll \/ CanError
    BY <1>6 DEF Readable, ReadAll, CanError, bridgeVars, worldVars, DisplayFollowsSource, NoEcho
<1>7. CASE ApplyOne
    <2>1. localCanActive /\ UNCHANGED <<gui, localCanActive, posted, next>>
        BY <1>7 DEF ApplyOne, bridgeVars
    <2>2. shown' = Local(canState') \/ (shown' = shown /\ canState' = canState)
        BY <1>7 DEF ApplyOne, Known, ApplyFrame
    <2>. QED
        BY <1>7, <2>1, <2>2 DEF DisplayFollowsSource, NoEcho, ApplyOne
<1>8. CASE CloseWindow
    <2>1. posted' \in Seq(RemoteEvent)
        BY <1>8, EmptySeq DEF CloseWindow
    <2>. QED
        BY <1>8, <2>1 DEF CloseWindow, DisplayFollowsSource, NoEcho, Nothing
<1>9. CASE StopBridge
    BY <1>9 DEF StopBridge, worldVars, DisplayFollowsSource, NoEcho
<1>. QED
    BY <1>1, <1>2, <1>3, <1>4, <1>5, <1>6, <1>7, <1>8, <1>9 DEF Gui

LEMMA WorldKeepsSource ==
    SourceInv /\ gui # "closed"
      /\ (OnConnect \/ OnDisconnect \/ OnMessage \/ OnEcho \/ SendAgain \/ BusFrame \/ BusDown)
        => SourceInv'
<1> SUFFICES ASSUME SourceInv, gui # "closed",
                    OnConnect \/ OnDisconnect \/ OnMessage \/ OnEcho \/ SendAgain \/ BusFrame \/ BusDown
             PROVE  SourceInv'
    OBVIOUS
<1>. USE DEF SourceInv
<1>1. UNCHANGED guiVars
    BY DEF OnConnect, OnDisconnect, OnMessage, OnEcho, SendAgain, BusFrame, BusDown
<1>2. DisplayFollowsSource' /\ NothingYet' /\ ReadsLocally'
    BY <1>1 DEF guiVars, DisplayFollowsSource, NothingYet, ReadsLocally
<1>3. next' \in Nat
    <2>1. CASE OnMessage
        BY <2>1 DEF OnMessage
    <2>2. CASE SendAgain
        BY <2>2 DEF SendAgain
    <2>3. CASE next' = next
        BY <2>3
    <2>. QED
        BY <2>1, <2>2, <2>3 DEF OnConnect, OnDisconnect, OnEcho, BusFrame, BusDown
<1>4. CASE OnConnect \/ OnDisconnect
    <2>1. PICK up \in BOOLEAN : Post(Connection(up))
        BY <1>4 DEF OnConnect, OnDisconnect
    <2>2. Connection(up) \in RemoteEvent
        BY DEF RemoteEvent
    <2>3. ~localCanActive => posted' \in Seq(RemoteEvent)
        BY <2>1, <2>2, PostKeepsRemote
    <2>. QED
        BY <1>1, <1>2, <1>3, <1>4, <2>3 DEF OnConnect, OnDisconnect, NoEcho, guiVars
<1>5. CASE OnMessage
    <2>1. MessageAt(next) \in RemoteEvent
        BY DEF RemoteEvent
    <2>2. Post(MessageAt(next)) \/ posted' = posted
        BY <1>5 DEF OnMessage
    <2>3. ~localCanActive => posted' \in Seq(RemoteEvent)
        BY <2>1, <2>2, PostKeepsRemote DEF NoEcho
    <2>. QED
        BY <1>1, <1>2, <1>3, <1>5, <2>3 DEF OnMessage, NoEcho, guiVars
<1>6. CASE OnEcho
    <2>1. localCanActive \/ gui = "closing"
        BY <1>6 DEF OnEcho, NoEcho
    <2>2. gui = "closing" => posted' = posted
        BY <1>6 DEF OnEcho, Post
    <2>3. gui' = gui /\ localCanActive' = localCanActive
        BY <1>1 DEF guiVars
    <2>4. NoEcho'
        BY <2>1, <2>2, <2>3 DEF NoEcho
    <2>. QED
        BY <1>2, <1>3, <2>4
<1>7. CASE SendAgain \/ BusFrame \/ BusDown
    BY <1>1, <1>2, <1>3, <1>7 DEF SendAgain, BusFrame, BusDown, bridgeVars, guiVars, NoEcho
<1>. QED
    BY <1>4, <1>5, <1>6, <1>7

LEMMA StepKeepsSource == SourceInv /\ [Next]_vars => SourceInv'
<1> SUFFICES ASSUME SourceInv, [Next]_vars PROVE SourceInv'
    OBVIOUS
<1>1. CASE UNCHANGED vars
    BY <1>1 DEF vars, guiVars, bridgeVars, worldVars, SourceInv, DisplayFollowsSource,
                NothingYet, ReadsLocally, NoEcho
<1>. QED
    BY <1>1, GuiKeepsSource, WorldKeepsSource DEF Next, Quiet, Closed

\* DashboardWindow shows the local bus's last state while there is a local bus,
\* and never a state of its own that came back when there is none.
THEOREM DisplayFollowsSourceCorrect == Spec => []DisplayFollowsSource
<1>1. SourceInv => DisplayFollowsSource
    BY DEF SourceInv
<1>. QED
    BY <1>1, InitSource, StepKeepsSource, PTL DEF Spec

----------------------------------------------------------------------------
(* The types: what is posted is a connection, a message of the vehicle     *)
(* program or a state of this terminal.                                    *)

States == VehicleState(1..MaxLocal)
Event == {Connection(up) : up \in BOOLEAN} \cup {MessageAt(i) : i \in 1..MessageCount}
           \cup {Echo(state) : state \in States}
Shown == {MessageAt(i).what : i \in 1..MessageCount}
Arriving == {MessageAt(i).topic : i \in 1..MessageCount}

Flags ==
    /\ gui \in {"starting", "announcing", "startingCan", "idle", "reading", "closing", "closed"}
    /\ client \in BOOLEAN /\ connected \in BOOLEAN
    /\ connectionShown \in BOOLEAN /\ localCanActive \in BOOLEAN
    /\ canStatus \in {"stopped", "listening", "unavailable", "error"}
    /\ canUp \in BOOLEAN

\* Only a client connects, and there is none before start().
Clients ==
    /\ gui = "starting" => ~client
    /\ connected => client \/ gui = "closed"

Bus ==
    /\ localFrames \in 0..MaxLocal /\ rx \in Seq(CanFrame(1..MaxLocal))
    /\ canState \in States /\ republished \in Seq(States)

Messages ==
    /\ posted \in Seq(Event) /\ next \in 1..(MessageCount + 1)
    /\ missed \subseteq Arriving
    /\ labels \in [frame : 0..MaxVersions, fps : 0..Status, cpu : {0, Status}]
    /\ rows \in Seq(Shown) /\ Len(rows) <= MaxRows

TypesInv == Flags /\ Clients /\ Bus /\ Messages

\* The last message is the status, and those before are of its frames.
LEMMA MessageTypes ==
    ASSUME NEW i \in 1..MessageCount
    PROVE  /\ MessageAt(i).kind = "message" /\ MessageAt(i).topic \in Arriving
           /\ MessageAt(i).what \in Shown
           /\ MessageAt(i).topic = "status" => MessageAt(i).what.what = Status
           /\ MessageAt(i).topic # "status" => MessageAt(i).what.what \in 1..MaxVersions
<1>1. Len(Topics) = 3 /\ \A k \in 1..3 : Topics[k] # "status"
    BY DEF Topics
<1>2. MessageCount = MaxVersions * 3 + 1 /\ MaxVersions \in Nat
    BY <1>1, TerminalAssumption DEF MessageCount
<1>3. MessageAt(i).what.what = ((i - 1) \div 3) + 1
    BY <1>1 DEF MessageAt, Remote
<1>4. MessageAt(i).topic = IF i = MessageCount THEN "status" ELSE Topics[((i - 1) % 3) + 1]
    BY <1>1 DEF MessageAt
<1>5. ((i - 1) % 3) + 1 \in 1..3
    BY <1>2
<1>6. i = MessageCount => ((i - 1) \div 3) + 1 = Status
    BY <1>2 DEF Status
<1>7. i # MessageCount => ((i - 1) \div 3) + 1 \in 1..MaxVersions
    BY <1>2
<1>8. MessageAt(i).topic \in Arriving /\ MessageAt(i).what \in Shown
    BY DEF Arriving, Shown
<1>9. MessageAt(i).kind = "message"
    BY DEF MessageAt
<1>. QED
    BY <1>1, <1>3, <1>4, <1>5, <1>6, <1>7, <1>8, <1>9

LEMMA CountType == MessageCount \in Nat \ {0} /\ Status \in Nat /\ MaxLocal \in Nat /\ MaxRows \in Nat
BY TerminalAssumption DEF MessageCount, Status, Topics

LEMMA InitTypes == Init => TypesInv
<1> SUFFICES ASSUME Init PROVE TypesInv
    OBVIOUS
<1>1. Flags /\ Clients
    BY DEF Init, Flags, Clients
<1>2. canState \in States
    BY DEF Init, States, NoVehicleState, VehicleState
<1>3. /\ rx \in Seq(CanFrame(1..MaxLocal)) /\ republished \in Seq(States)
      /\ posted \in Seq(Event) /\ rows \in Seq(Shown) /\ Len(rows) = 0
    BY EmptySeq DEF Init
<1>4. Bus
    BY <1>2, <1>3, CountType DEF Init, Bus
<1>5. labels \in [frame : 0..MaxVersions, fps : 0..Status, cpu : {0, Status}]
    BY TerminalAssumption, CountType DEF Init, NoLabels
<1>6. Messages
    BY <1>3, <1>5, CountType DEF Init, Messages
<1>. QED
    BY <1>1, <1>4, <1>6 DEF TypesInv

\* A new row goes on top, and the table keeps its limit.
LEMMA AddEventType ==
    ASSUME rows \in Seq(Shown), Len(rows) <= MaxRows, NEW e \in Shown
    PROVE  AddEvent(e) \in Seq(Shown) /\ Len(AddEvent(e)) <= MaxRows
<1> DEFINE all == <<e>> \o rows
           n == IF Len(rows) < MaxRows THEN Len(rows) + 1 ELSE MaxRows
<1>1. <<e>> \in Seq(Shown) /\ Len(<<e>>) = 1
    OBVIOUS
<1>2. all \in Seq(Shown) /\ Len(all) = Len(rows) + 1
    BY <1>1, ConcatProperties
<1>3. n \in 0..Len(all) /\ n <= MaxRows
    BY <1>2, CountType
<1>4. AddEvent(e) = SubSeq(all, 1, n)
    BY DEF AddEvent
<1>. HIDE DEF all, n
<1>. QED
    BY <1>2, <1>3, <1>4, SubSeqProperties

LEMMA HandleMessageKeepsTypes == TypesInv /\ HandleMessage => TypesInv'
<1> SUFFICES ASSUME TypesInv, HandleMessage PROVE TypesInv'
    OBVIOUS
<1>. DEFINE m == Head(posted)
<1>1. /\ UNCHANGED <<gui, client, connected, connectionShown, localCanActive, canStatus, canState,
                     worldVars>>
      /\ m.kind = "message" /\ posted # <<>> /\ posted' = Tail(posted)
    BY DEF HandleMessage
<1>2. Flags' /\ Clients' /\ Bus'
    BY <1>1 DEF TypesInv, Flags, Clients, Bus, worldVars
<1>3. m \in Event /\ posted' \in Seq(Event)
    BY <1>1, HeadTailProperties DEF TypesInv, Messages
<1>4. \/ \E i \in 1..MessageCount : m = MessageAt(i)
      \/ m.topic = "can/state"
    BY <1>1, <1>3 DEF Event, Connection, Echo
<1>5. labels' \in [frame : 0..MaxVersions, fps : 0..Status, cpu : {0, Status}]
    <2>1. CASE labels' = labels
        BY <2>1 DEF TypesInv, Messages
    <2>2. CASE /\ m.topic = "frames"
               /\ labels' = [labels EXCEPT !.frame = m.what.what, !.fps = m.what.what]
        <3>1. m.what.what \in 1..MaxVersions
            BY <1>4, <2>2, MessageTypes
        <3>2. m.what.what \in 0..MaxVersions /\ m.what.what \in 0..Status
            BY <3>1, TerminalAssumption DEF Status
        <3>. QED
            BY <2>2, <3>2 DEF TypesInv, Messages
    <2>3. CASE /\ m.topic = "status"
               /\ labels' = [labels EXCEPT !.fps = m.what.what, !.cpu = m.what.what]
        <3>1. labels' = [labels EXCEPT !.fps = Status, !.cpu = Status]
            BY <1>4, <2>3, MessageTypes
        <3>2. Status \in 0..Status /\ Status \in {0, Status}
            BY CountType
        <3>. QED
            BY <3>1, <3>2 DEF TypesInv, Messages
    <2>. QED
        BY <2>1, <2>2, <2>3 DEF HandleMessage
<1>6. rows' \in Seq(Shown) /\ Len(rows') <= MaxRows
    <2>1. CASE rows' = rows
        BY <2>1 DEF TypesInv, Messages
    <2>2. CASE m.topic = "events" /\ rows' = AddEvent(m.what)
        <3>1. m.what \in Shown
            BY <1>4, <2>2, MessageTypes
        <3>. QED
            BY <2>2, <3>1, AddEventType DEF TypesInv, Messages
    <2>. QED
        BY <2>1, <2>2 DEF HandleMessage
<1>7. Messages'
    BY <1>1, <1>3, <1>5, <1>6 DEF TypesInv, Messages, worldVars
<1>. QED
    BY <1>2, <1>7 DEF TypesInv

\* A local frame becomes a state, which is shown and published.
LEMMA ApplyOneKeepsTypes == TypesInv /\ ApplyOne => TypesInv'
<1> SUFFICES ASSUME TypesInv, ApplyOne PROVE TypesInv'
    OBVIOUS
<1>1. /\ UNCHANGED <<gui, connectionShown, localCanActive, canStatus, labels, rows, bridgeVars,
                     localFrames, canUp, next, missed>>
      /\ rx # <<>> /\ rx' = Tail(rx) /\ canState' = ApplyFrame(Head(rx), canState)
      /\ republished' = republished \/ republished' = Append(republished, canState')
    BY DEF ApplyOne
<1>2. Head(rx) \in CanFrame(1..MaxLocal) /\ rx' \in Seq(CanFrame(1..MaxLocal))
    BY <1>1, HeadTailProperties DEF TypesInv, Bus
<1>3. canState' \in States
    <2>. DEFINE frame == Head(rx)
    <2>1. frame.value \in 1..MaxLocal /\ canState' = ApplyFrame(frame, canState)
        BY <1>1, <1>2 DEF CanFrame
    <2>. HIDE DEF frame
    <2>2. canState \in States /\ canState.signal \in [Signals -> (1..MaxLocal) \cup {Unset}]
        BY DEF TypesInv, Bus, States, VehicleState
    <2>3. [canState.signal EXCEPT ![frame.id] = frame.value] \in [Signals -> (1..MaxLocal) \cup {Unset}]
        BY <2>1, <2>2
    <2>. QED
        BY <2>1, <2>2, <2>3 DEF ApplyFrame, States, VehicleState
<1>4. republished' \in Seq(States)
    BY <1>1, <1>3, AppendProperties DEF TypesInv, Bus
<1>5. Bus'
    BY <1>1, <1>2, <1>3, <1>4 DEF TypesInv, Bus
<1>6. Flags' /\ Clients' /\ Messages'
    BY <1>1 DEF TypesInv, Flags, Clients, Messages, bridgeVars
<1>. QED
    BY <1>5, <1>6 DEF TypesInv

LEMMA GuiKeepsTypes == TypesInv /\ Gui => TypesInv'
<1> SUFFICES ASSUME TypesInv, Gui PROVE TypesInv'
    OBVIOUS
<1>. USE DEF TypesInv
<1>1. CASE StartBridge
    <2>1. Flags' /\ Clients'
        BY <1>1 DEF StartBridge, Flags, Clients, worldVars
    <2>. QED
        BY <1>1, <2>1 DEF StartBridge, Bus, Messages, worldVars
<1>2. CASE Announce
    <2>1. Connection(FALSE) \in Event
        BY DEF Event
    <2>2. posted' \in Seq(Event)
        BY <1>2, <2>1, AppendProperties DEF Announce, Messages
    <2>3. Flags' /\ Clients'
        BY <1>2 DEF Announce, Flags, Clients, worldVars
    <2>. QED
        BY <1>2, <2>2, <2>3 DEF Announce, Bus, Messages, worldVars
<1>3. CASE StartCan
    <2>1. localCanActive' \in BOOLEAN
        BY <1>3 DEF StartCan, Flags
    <2>2. Flags' /\ Clients'
        BY <1>3, <2>1 DEF StartCan, Flags, Clients, bridgeVars, worldVars
    <2>. QED
        BY <1>3, <2>2 DEF StartCan, Bus, Messages, bridgeVars, worldVars
<1>4. CASE SetConnectionState
    <2>1. /\ posted # <<>> /\ posted' = Tail(posted) /\ connectionShown' = Head(posted).up
          /\ Head(posted).kind = "connection"
          /\ UNCHANGED <<gui, client, connected, localCanActive, canStatus, canState, labels, rows,
                         worldVars>>
        BY <1>4 DEF SetConnectionState
    <2>2. Head(posted) \in Event /\ posted' \in Seq(Event)
        BY <2>1, HeadTailProperties DEF Messages
    <2>3. connectionShown' \in BOOLEAN
        BY <2>1, <2>2 DEF Event, Connection, MessageAt, Echo
    <2>4. Flags' /\ Clients'
        BY <2>1, <2>3 DEF Flags, Clients, worldVars
    <2>. QED
        BY <2>1, <2>2, <2>4 DEF Bus, Messages, worldVars
<1>5. CASE Readable \/ ReadAll \/ CanError
    <2>1. /\ gui' \in {gui, "reading", "idle"} /\ gui' # "starting" /\ gui # "closed"
          /\ canStatus' \in {canStatus, "error"}
          /\ UNCHANGED <<connectionShown, localCanActive, canState, labels, rows, bridgeVars,
                         worldVars>>
        BY <1>5 DEF Readable, ReadAll, CanError
    <2>2. Flags' /\ Clients'
        BY <2>1 DEF Flags, Clients, bridgeVars, worldVars
    <2>. QED
        BY <2>1, <2>2 DEF Bus, Messages, bridgeVars, worldVars
<1>6. CASE CloseWindow
    <2>1. Flags' /\ Clients'
        BY <1>6 DEF CloseWindow, Flags, Clients
    <2>2. canState' \in States
        BY <1>6 DEF CloseWindow, States, NoVehicleState, VehicleState
    <2>3. /\ rx' \in Seq(CanFrame(1..MaxLocal)) /\ posted' \in Seq(Event)
          /\ rows' \in Seq(Shown) /\ Len(rows') <= MaxRows
        BY <1>6, EmptySeq, CountType DEF CloseWindow
    <2>4. labels' \in [frame : 0..MaxVersions, fps : 0..Status, cpu : {0, Status}]
        BY <1>6, TerminalAssumption, CountType DEF CloseWindow, NoLabels
    <2>. QED
        BY <1>6, <2>1, <2>2, <2>3, <2>4 DEF CloseWindow, Bus, Messages
<1>7. CASE StopBridge
    <2>1. Flags' /\ Clients'
        BY <1>7 DEF StopBridge, Flags, Clients, worldVars
    <2>. QED
        BY <1>7, <2>1 DEF StopBridge, Bus, Messages, worldVars
<1>. QED
    BY <1>1, <1>2, <1>3, <1>4, <1>5, <1>6, <1>7, HandleMessageKeepsTypes, ApplyOneKeepsTypes DEF Gui

LEMMA PostType ==
    ASSUME posted \in Seq(Event), NEW e \in Event, Post(e) PROVE posted' \in Seq(Event)
BY AppendProperties DEF Post

LEMMA WorldKeepsTypes ==
    TypesInv /\ (OnConnect \/ OnDisconnect \/ OnMessage \/ OnEcho \/ SendAgain \/ BusFrame \/ BusDown)
        => TypesInv'
<1> SUFFICES ASSUME TypesInv, OnConnect \/ OnDisconnect \/ OnMessage \/ OnEcho \/ SendAgain
                                 \/ BusFrame \/ BusDown
             PROVE  TypesInv'
    OBVIOUS
<1>. USE DEF TypesInv
<1>1. UNCHANGED <<gui, client, connectionShown, localCanActive, canStatus, canState, labels, rows>>
    BY DEF OnConnect, OnDisconnect, OnMessage, OnEcho, SendAgain, BusFrame, BusDown, guiVars,
           bridgeVars
<1>2. connected' \in BOOLEAN /\ (connected' => connected \/ client)
    <2>1. \/ client /\ connected' \in BOOLEAN
          \/ connected' = FALSE
          \/ connected' = connected
        BY DEF OnConnect, OnDisconnect, OnMessage, OnEcho, SendAgain, BusFrame, BusDown, bridgeVars
    <2>2. connected' \in BOOLEAN
        BY <2>1, Zenon DEF Flags
    <2>3. connected' => connected \/ client
        BY <2>1, Zenon
    <2>. QED
        BY <2>2, <2>3
<1>3. canUp' \in BOOLEAN
    <2>1. canUp' = canUp \/ canUp' = FALSE
        BY DEF OnConnect, OnDisconnect, OnMessage, OnEcho, SendAgain, BusFrame, BusDown
    <2>2. canUp \in BOOLEAN
        BY DEF Flags
    <2>. QED
        BY <2>1, <2>2
<1>4. Flags' /\ Clients'
    BY <1>1, <1>2, <1>3 DEF Flags, Clients
<1>5. CASE OnConnect \/ OnDisconnect
    <2>1. PICK up \in BOOLEAN : Post(Connection(up))
        BY <1>5 DEF OnConnect, OnDisconnect
    <2>2. posted' \in Seq(Event)
        BY <2>1, PostType DEF Event, Messages
    <2>3. UNCHANGED <<rx, localFrames, republished, next, missed>>
        BY <1>5 DEF OnConnect, OnDisconnect
    <2>. QED
        BY <1>1, <1>4, <2>2, <2>3 DEF Bus, Messages
<1>6. CASE OnMessage
    <2>1. /\ next \in 1..MessageCount /\ next' = next + 1
          /\ UNCHANGED <<rx, localFrames, republished>>
        BY <1>6, CountType DEF OnMessage, Messages
    <2>2. MessageAt(next) \in Event /\ MessageAt(next).topic \in Arriving
        BY <2>1 DEF Event, Arriving
    <2>3. Post(MessageAt(next)) \/ posted' = posted
        BY <1>6 DEF OnMessage
    <2>4. posted' \in Seq(Event)
        BY <2>2, <2>3, PostType DEF Messages
    <2>5. missed' \subseteq Arriving
        BY <1>6, <2>2 DEF OnMessage, Messages
    <2>. QED
        BY <1>1, <1>4, <2>1, <2>4, <2>5, CountType DEF Bus, Messages
<1>7. CASE OnEcho
    <2>1. /\ republished # <<>> /\ republished' = Tail(republished)
          /\ Post(Echo(Head(republished)))
          /\ UNCHANGED <<rx, localFrames, next, missed>>
        BY <1>7 DEF OnEcho
    <2>2. Head(republished) \in States /\ republished' \in Seq(States)
        BY <2>1, HeadTailProperties DEF Bus
    <2>3. posted' \in Seq(Event)
        BY <2>1, <2>2, PostType DEF Event, Messages
    <2>. QED
        BY <1>1, <1>4, <2>1, <2>2, <2>3 DEF Bus, Messages
<1>8. CASE SendAgain
    <2>1. next' \in 1..(MessageCount + 1)
        BY <1>8, CountType DEF SendAgain, Messages
    <2>. QED
        BY <1>1, <1>4, <1>8, <2>1 DEF SendAgain, Bus, Messages, bridgeVars
<1>9. CASE BusFrame
    <2>1. PICK frame \in CanFrame({localFrames + 1}) : rx' = Append(rx, frame)
        BY <1>9 DEF BusFrame
    <2>2. localFrames' \in 0..MaxLocal /\ localFrames + 1 \in 1..MaxLocal
        BY <1>9, CountType DEF BusFrame, Bus
    <2>3. frame \in CanFrame(1..MaxLocal)
        BY <2>2 DEF CanFrame
    <2>4. rx' \in Seq(CanFrame(1..MaxLocal))
        BY <2>1, <2>3, AppendProperties DEF Bus
    <2>. QED
        BY <1>1, <1>4, <1>9, <2>2, <2>4 DEF BusFrame, Bus, Messages, bridgeVars
<1>10. CASE BusDown
    BY <1>1, <1>4, <1>10 DEF BusDown, Bus, Messages, bridgeVars
<1>. QED
    BY <1>5, <1>6, <1>7, <1>8, <1>9, <1>10

LEMMA StepKeepsTypes == TypesInv /\ [Next]_vars => TypesInv'
<1> SUFFICES ASSUME TypesInv, [Next]_vars PROVE TypesInv'
    OBVIOUS
<1>1. CASE UNCHANGED vars
    BY <1>1 DEF vars, guiVars, bridgeVars, worldVars, TypesInv, Flags, Clients, Bus, Messages
<1>. QED
    BY <1>1, GuiKeepsTypes, WorldKeepsTypes DEF Next, Quiet, Closed

\* The type invariant of the terminal: the event table keeps its limit, and
\* the bridge is connected only with a client.
THEOREM TypeCorrect == Spec => []TypeOK
<1>1. TypesInv => TypeOK
    BY DEF TypesInv, Flags, Clients, Bus, Messages, States, Arriving, TypeOK
<1>. QED
    BY <1>1, InitTypes, StepKeepsTypes, PTL DEF Spec

----------------------------------------------------------------------------
(* Convergence.  It is about the last event of a kind: either it is still  *)
(* posted, with none of its kind behind it, or it has been handled and its *)
(* effect is there.                                                        *)

\* In the queue q the last event of the set S is e; or none is left, and done.
LastIs(q, S, e) == \E i \in DOMAIN q : q[i] = e /\ \A j \in DOMAIN q : j > i => q[j] \notin S
NoneOf(q, S) == \A i \in DOMAIN q : q[i] \notin S
SettledOn(q, S, e, done) == LastIs(q, S, e) \/ (NoneOf(q, S) /\ done)

LEMMA AppendedIsLast ==
    ASSUME NEW E, NEW q \in Seq(E), NEW e \in E, NEW S PROVE LastIs(Append(q, e), S, e)
<1>1. /\ Append(q, e) \in Seq(E) /\ Len(Append(q, e)) = Len(q) + 1 /\ Len(q) \in Nat
      /\ Append(q, e)[Len(q) + 1] = e
    BY AppendProperties, LenProperties
<1>2. DOMAIN Append(q, e) = 1..(Len(q) + 1)
    BY <1>1, LenProperties
<1>. QED
    BY <1>1, <1>2 DEF LastIs

LEMMA AppendKeepsLast ==
    ASSUME NEW E, NEW q \in Seq(E), NEW x \in E, NEW S, x \notin S, NEW e, NEW done,
           SettledOn(q, S, e, done)
    PROVE  SettledOn(Append(q, x), S, e, done)
<1>1. Len(q) \in Nat /\ DOMAIN q = 1..Len(q)
    BY LenProperties
<1>2. /\ Append(q, x) \in Seq(E) /\ Len(Append(q, x)) = Len(q) + 1
      /\ Append(q, x)[Len(q) + 1] = x
      /\ \A i \in 1..Len(q) : Append(q, x)[i] = q[i]
    BY AppendProperties
<1>3. DOMAIN Append(q, x) = 1..(Len(q) + 1)
    BY <1>2, LenProperties
<1>4. CASE LastIs(q, S, e)
    <2>1. PICK i \in 1..Len(q) : q[i] = e /\ \A j \in 1..Len(q) : j > i => q[j] \notin S
        BY <1>1, <1>4 DEF LastIs
    <2>2. \A j \in 1..(Len(q) + 1) : j > i => Append(q, x)[j] \notin S
        BY <1>1, <1>2, <2>1
    <2>3. i \in 1..(Len(q) + 1) /\ Append(q, x)[i] = e
        BY <1>1, <1>2, <2>1
    <2>4. LastIs(Append(q, x), S, e)
        BY <1>3, <2>2, <2>3 DEF LastIs
    <2>. QED
        BY <2>4 DEF SettledOn
<1>5. CASE NoneOf(q, S) /\ done
    <2>1. NoneOf(Append(q, x), S)
        BY <1>1, <1>2, <1>3, <1>5 DEF NoneOf
    <2>. QED
        BY <1>5, <2>1 DEF SettledOn
<1>. QED
    BY <1>4, <1>5 DEF SettledOn

\* The first event is taken: it was the last of its kind, or that is still there.
LEMMA TailKeepsLast ==
    ASSUME NEW E, NEW q \in Seq(E), q # <<>>, NEW S, NEW e \in S, NEW done, NEW after,
           SettledOn(q, S, e, done),
           Head(q) \notin S /\ done => after, Head(q) = e => after
    PROVE  SettledOn(Tail(q), S, e, after)
<1>1. Len(q) \in Nat \ {0} /\ DOMAIN q = 1..Len(q)
    BY LenProperties, EmptySeq
<1>2. /\ Tail(q) \in Seq(E) /\ Len(Tail(q)) = Len(q) - 1
      /\ \A i \in 1..Len(Tail(q)) : Tail(q)[i] = q[i + 1]
    BY HeadTailProperties
<1>3. DOMAIN Tail(q) = 1..(Len(q) - 1) /\ \A i \in 1..(Len(q) - 1) : Tail(q)[i] = q[i + 1]
    BY <1>2, LenProperties
<1>4. Head(q) = q[1]
    OBVIOUS
<1>5. CASE LastIs(q, S, e)
    <2>1. PICK i \in 1..Len(q) : q[i] = e /\ \A j \in 1..Len(q) : j > i => q[j] \notin S
        BY <1>1, <1>5 DEF LastIs
    <2>2. CASE i = 1
        <3>1. \A j \in 1..(Len(q) - 1) : q[j + 1] \notin S
            BY <1>1, <2>1, <2>2
        <3>2. NoneOf(Tail(q), S)
            BY <1>3, <3>1 DEF NoneOf
        <3>3. after
            BY <1>4, <2>1, <2>2
        <3>. QED
            BY <3>2, <3>3 DEF SettledOn
    <2>3. CASE i # 1
        <3>1. i - 1 \in 1..(Len(q) - 1) /\ Tail(q)[i - 1] = e
            BY <1>1, <1>3, <2>1, <2>3
        <3>2. \A j \in 1..(Len(q) - 1) : j > i - 1 => Tail(q)[j] \notin S
            BY <1>1, <1>3, <2>1
        <3>3. LastIs(Tail(q), S, e)
            BY <1>3, <3>1, <3>2 DEF LastIs
        <3>. QED
            BY <3>3 DEF SettledOn
    <2>. QED
        BY <2>2, <2>3
<1>6. CASE NoneOf(q, S) /\ done
    <2>1. NoneOf(Tail(q), S)
        BY <1>1, <1>3, <1>6 DEF NoneOf
    <2>2. after
        BY <1>1, <1>4, <1>6 DEF NoneOf
    <2>. QED
        BY <2>1, <2>2 DEF SettledOn
<1>. QED
    BY <1>5, <1>6 DEF SettledOn

----------------------------------------------------------------------------
(* The events that change the label, the frame number, the figures of the  *)
(* status, and the vehicle state; and the last one of each.                *)

Links == {Connection(up) : up \in BOOLEAN}
Of(topics) == {MessageAt(i) : i \in {k \in 1..MessageCount : MessageAt(k).topic \in topics}}
FinalFrame == MessageAt(MessageCount - 3)
FinalState == MessageAt(MessageCount - 1)
FinalStatus == MessageAt(MessageCount)

\* The label will say what the bridge knows.
LabelSettled ==
    callbacks => SettledOn(posted, Links, Connection(connected), connectionShown = connected)

\* Once the last message of a topic was sent, and not lost, the display settles on it.
FrameSettled ==
    next > MessageCount - 3 /\ "frames" \notin missed =>
        SettledOn(posted, Of({"frames"}), FinalFrame, labels.frame = MaxVersions)
StateSettled ==
    next > MessageCount - 1 /\ "can/state" \notin missed /\ ~localCanActive =>
        SettledOn(posted, Of({"frames", "can/state"}), FinalState, shown = Remote(MaxVersions))
StatusSettled ==
    next > MessageCount /\ "status" \notin missed =>
        SettledOn(posted, Of({"frames", "status"}), FinalStatus,
                  labels.fps = Status /\ labels.cpu = Status)

Settled ==
    gui \notin {"closing", "closed"} =>
        LabelSettled /\ FrameSettled /\ StateSettled /\ StatusSettled

\* The topics by number: the last three messages are a state, preceded by an
\* event and a frame, and the status.
LEMMA LastMessages ==
    /\ MessageCount \in Nat /\ MessageCount > 3
    /\ FinalFrame \in Of({"frames"}) /\ FinalFrame.what.what = MaxVersions
    /\ FinalState \in Of({"frames", "can/state"}) /\ FinalState.what = Remote(MaxVersions)
    /\ FinalStatus \in Of({"frames", "status"}) /\ FinalStatus.what.what = Status
    /\ FinalFrame.topic = "frames" /\ FinalState.topic = "can/state" /\ FinalStatus.topic = "status"
    /\ MessageAt(MessageCount - 2).topic = "events"
<1>1. Len(Topics) = 3 /\ Topics[1] = "frames" /\ Topics[2] = "events" /\ Topics[3] = "can/state"
    BY DEF Topics
<1>2. MaxVersions \in Nat \ {0} /\ MessageCount = MaxVersions * 3 + 1
    BY <1>1, TerminalAssumption DEF MessageCount
<1>3. \A i \in 1..MessageCount :
         /\ MessageAt(i).topic = IF i = MessageCount THEN "status" ELSE Topics[((i - 1) % 3) + 1]
         /\ MessageAt(i).what = Remote(((i - 1) \div 3) + 1)
    BY <1>1 DEF MessageAt
<1>4. /\ MessageCount \in Nat /\ MessageCount > 3
      /\ \A k \in 0..3 : MessageCount - k \in 1..MessageCount
      /\ \A k \in 1..3 : MessageCount - k # MessageCount
    BY <1>2
<1>5. /\ ((MessageCount - 3 - 1) % 3) + 1 = 1 /\ ((MessageCount - 3 - 1) \div 3) + 1 = MaxVersions
      /\ ((MessageCount - 2 - 1) % 3) + 1 = 2
      /\ ((MessageCount - 1 - 1) % 3) + 1 = 3 /\ ((MessageCount - 1 - 1) \div 3) + 1 = MaxVersions
      /\ ((MessageCount - 1) \div 3) + 1 = MaxVersions + 1
    BY <1>2
<1>6. FinalFrame.topic = "frames" /\ FinalFrame.what = Remote(MaxVersions)
    BY <1>1, <1>3, <1>4, <1>5 DEF FinalFrame
<1>7. FinalState.topic = "can/state" /\ FinalState.what = Remote(MaxVersions)
    <2>1. MessageCount - 1 \in 1..MessageCount /\ MessageCount - 1 # MessageCount
        BY <1>4
    <2>. QED
        BY <1>1, <1>3, <1>5, <2>1 DEF FinalState
<1>8. FinalStatus.topic = "status" /\ FinalStatus.what = Remote(Status)
    <2>1. MessageCount \in 1..MessageCount
        BY <1>4
    <2>. QED
        BY <1>3, <1>5, <2>1 DEF FinalStatus, Status
<1>9. MessageAt(MessageCount - 2).topic = "events"
    <2>1. MessageCount - 2 \in 1..MessageCount /\ MessageCount - 2 # MessageCount
        BY <1>4
    <2>. QED
        BY <1>1, <1>3, <1>5, <2>1
<1>10. FinalFrame \in Of({"frames"})
    BY <1>4, <1>6 DEF Of, FinalFrame
<1>11. FinalState \in Of({"frames", "can/state"})
    BY <1>4, <1>7 DEF Of, FinalState
<1>12. FinalStatus \in Of({"frames", "status"})
    BY <1>4, <1>8 DEF Of, FinalStatus
<1>. QED
    BY <1>4, <1>6, <1>7, <1>8, <1>9, <1>10, <1>11, <1>12 DEF Remote

\* What is of a topic, and what is not.
LEMMA OfFacts ==
    ASSUME NEW topics, NEW e \in Of(topics)
    PROVE  e.kind = "message" /\ e.topic \in topics /\ e.what.from = "remote"
BY DEF Of, MessageAt, Remote

LEMMA NotOf ==
    ASSUME NEW topics
    PROVE  /\ \A up \in BOOLEAN : Connection(up) \notin Of(topics)
           /\ \A state : Echo(state) \notin Of(topics)
<1>1. \A up \in BOOLEAN : Connection(up).kind # "message"
    BY DEF Connection
<1>2. \A state : Echo(state).what.from # "remote"
    BY DEF Echo, Local
<1>. QED
    BY <1>1, <1>2, OfFacts

LEMMA InitSettled == Init => Settled
<1> SUFFICES ASSUME Init PROVE Settled
    OBVIOUS
<1>1. callbacks = FALSE /\ next = 1
    BY DEF Init
<1>. QED
    BY <1>1, LastMessages DEF Settled, LabelSettled, FrameSettled, StateSettled, StatusSettled

----------------------------------------------------------------------------
(* The network thread. *)

\* A callback about the link: the label will follow, the messages stay.
LEMMA LinkKeepsSettled == ASSUME TypesInv, Settled, OnConnect \/ OnDisconnect PROVE Settled'
<1>1. PICK up \in BOOLEAN : connected' = up /\ Post(Connection(up))
    BY DEF OnConnect, OnDisconnect, TypesInv, Flags
<1>2. UNCHANGED <<gui, connectionShown, localCanActive, shown, labels, next, missed>>
    BY DEF OnConnect, OnDisconnect, guiVars
<1> SUFFICES ASSUME gui \notin {"closing", "closed"}
             PROVE  LabelSettled' /\ FrameSettled' /\ StateSettled' /\ StatusSettled'
    BY <1>2 DEF Settled
<1>3. posted' = Append(posted, Connection(up))
    BY <1>1 DEF Post
<1>4. posted \in Seq(Event) /\ Connection(up) \in Event
    BY DEF TypesInv, Messages, Event
<1>5. LabelSettled'
    BY <1>1, <1>3, <1>4, AppendedIsLast DEF LabelSettled, SettledOn
<1>6. FrameSettled'
    BY <1>2, <1>3, <1>4, AppendKeepsLast, NotOf DEF Settled, FrameSettled
<1>7. StateSettled'
    BY <1>2, <1>3, <1>4, AppendKeepsLast, NotOf DEF Settled, StateSettled
<1>8. StatusSettled'
    BY <1>2, <1>3, <1>4, AppendKeepsLast, NotOf DEF Settled, StatusSettled
<1>. QED
    BY <1>5, <1>6, <1>7, <1>8

\* The vehicle program's next message: the last of its topic, or of another.
LEMMA MessageKeepsSettled == ASSUME TypesInv, Settled, OnMessage PROVE Settled'
<1> DEFINE m == MessageAt(next)
<1>1. /\ UNCHANGED <<gui, connected, callbacks, connectionShown, localCanActive, shown, labels>>
      /\ next \in 1..MessageCount /\ next' = next + 1
    BY DEF OnMessage, guiVars, TypesInv, Messages
<1> SUFFICES ASSUME gui \notin {"closing", "closed"}
             PROVE  LabelSettled' /\ FrameSettled' /\ StateSettled' /\ StatusSettled'
    BY <1>1 DEF Settled
<1>2. \/ posted' = Append(posted, m) /\ missed' = missed \ {m.topic}
      \/ posted' = posted /\ missed' = missed \cup {m.topic}
    BY DEF OnMessage, Post
<1>3. posted \in Seq(Event) /\ m \in Event
    BY <1>1 DEF TypesInv, Messages, Event
<1>4. LabelSettled /\ FrameSettled /\ StateSettled /\ StatusSettled
    BY DEF Settled
<1>5. MessageCount \in Nat /\ MessageCount > 3
    BY LastMessages
<1>6. LabelSettled'
    <2> SUFFICES ASSUME callbacks
                 PROVE  SettledOn(posted', Links, Connection(connected), connectionShown = connected)
        BY <1>1 DEF LabelSettled
    <2>1. m \notin Links
        BY DEF Links, Connection, MessageAt
    <2>2. SettledOn(posted, Links, Connection(connected), connectionShown = connected)
        BY <1>4 DEF LabelSettled
    <2>. HIDE DEF m
    <2>3. SettledOn(Append(posted, m), Links, Connection(connected), connectionShown = connected)
        BY <1>3, <2>1, <2>2, AppendKeepsLast
    <2>. QED
        BY <1>2, <2>2, <2>3
<1>7. FrameSettled'
    <2> SUFFICES ASSUME next' > MessageCount - 3, "frames" \notin missed' PROVE FrameSettled'
        BY DEF FrameSettled
    <2>1. CASE next = MessageCount - 3
        <3>1. m = FinalFrame /\ m.topic = "frames"
            BY <2>1, LastMessages DEF FinalFrame
        <3>2. posted' = Append(posted, FinalFrame)
            BY <1>2, <3>1
        <3>. QED
            BY <1>3, <3>1, <3>2, AppendedIsLast DEF FrameSettled, SettledOn
    <2>2. CASE next # MessageCount - 3
        <3>1. next \in {MessageCount - 2, MessageCount - 1, MessageCount}
            BY <1>1, <1>5, <2>2
        <3>2. m.topic # "frames"
            BY <3>1, LastMessages DEF FinalState, FinalStatus
        <3>3. m \notin Of({"frames"})
            BY <3>2, OfFacts
        <3>4. SettledOn(posted, Of({"frames"}), FinalFrame, labels.frame = MaxVersions)
            BY <1>2, <1>4, <1>5, <3>1, <3>2 DEF FrameSettled
        <3>. HIDE DEF m
        <3>5. SettledOn(Append(posted, m), Of({"frames"}), FinalFrame, labels.frame = MaxVersions)
            BY <1>3, <3>3, <3>4, AppendKeepsLast
        <3>6. SettledOn(posted', Of({"frames"}), FinalFrame, labels.frame = MaxVersions)
            BY <1>2, <3>4, <3>5
        <3>. QED
            BY <1>1, <3>6 DEF FrameSettled
    <2>. QED
        BY <2>1, <2>2
<1>8. StateSettled'
    <2> SUFFICES ASSUME next' > MessageCount - 1, "can/state" \notin missed', ~localCanActive
                 PROVE  StateSettled'
        BY <1>1 DEF StateSettled
    <2>1. CASE next = MessageCount - 1
        <3>1. m = FinalState /\ m.topic = "can/state"
            BY <2>1, LastMessages DEF FinalState
        <3>2. posted' = Append(posted, FinalState)
            BY <1>2, <3>1
        <3>. QED
            BY <1>3, <3>1, <3>2, AppendedIsLast DEF StateSettled, SettledOn
    <2>2. CASE next # MessageCount - 1
        <3>1. next = MessageCount
            BY <1>1, <1>5, <2>2
        <3>2. m.topic = "status"
            BY <3>1, LastMessages DEF FinalStatus
        <3>3. m \notin Of({"frames", "can/state"})
            BY <3>2, OfFacts
        <3>4. SettledOn(posted, Of({"frames", "can/state"}), FinalState, shown = Remote(MaxVersions))
            BY <1>2, <1>4, <1>5, <3>1, <3>2 DEF StateSettled
        <3>. HIDE DEF m
        <3>5. SettledOn(Append(posted, m), Of({"frames", "can/state"}), FinalState, shown = Remote(MaxVersions))
            BY <1>3, <3>3, <3>4, AppendKeepsLast
        <3>6. SettledOn(posted', Of({"frames", "can/state"}), FinalState, shown = Remote(MaxVersions))
            BY <1>2, <3>4, <3>5
        <3>. QED
            BY <1>1, <3>6 DEF StateSettled
    <2>. QED
        BY <2>1, <2>2
<1>9. StatusSettled'
    <2> SUFFICES ASSUME next' > MessageCount, "status" \notin missed' PROVE StatusSettled'
        BY DEF StatusSettled
    <2>1. next = MessageCount
        BY <1>1, <1>5
    <2>2. m = FinalStatus /\ m.topic = "status"
        BY <2>1, LastMessages DEF FinalStatus
    <2>3. posted' = Append(posted, FinalStatus)
        BY <1>2, <2>2
    <2>. QED
        BY <1>3, <2>2, <2>3, AppendedIsLast DEF StatusSettled, SettledOn
<1>. QED
    BY <1>6, <1>7, <1>8, <1>9

\* A state of this terminal is no message of the vehicle program.
LEMMA EchoKeepsSettled == ASSUME TypesInv, Settled, OnEcho PROVE Settled'
<1>1. UNCHANGED <<gui, connected, callbacks, connectionShown, localCanActive, shown, labels, next,
                  missed>>
    BY DEF OnEcho, guiVars
<1> SUFFICES ASSUME gui \notin {"closing", "closed"}
             PROVE  LabelSettled' /\ FrameSettled' /\ StateSettled' /\ StatusSettled'
    BY <1>1 DEF Settled
<1> DEFINE e == Echo(Head(republished))
<1>2. posted' = Append(posted, e)
    BY DEF OnEcho, Post
<1>3. posted \in Seq(Event) /\ e \in Event
    BY HeadTailProperties DEF OnEcho, TypesInv, Bus, Messages, Event
<1>4. e \notin Links
    BY DEF Links, Connection, Echo
<1>5. \A topics : e \notin Of(topics)
    BY NotOf
<1>6. LabelSettled /\ FrameSettled /\ StateSettled /\ StatusSettled
    BY DEF Settled
<1>. HIDE DEF e
<1>7. LabelSettled'
    BY <1>1, <1>2, <1>3, <1>4, <1>6, AppendKeepsLast DEF LabelSettled
<1>8. FrameSettled'
    BY <1>1, <1>2, <1>3, <1>5, <1>6, AppendKeepsLast DEF FrameSettled
<1>9. StateSettled'
    BY <1>1, <1>2, <1>3, <1>5, <1>6, AppendKeepsLast DEF StateSettled
<1>10. StatusSettled'
    BY <1>1, <1>2, <1>3, <1>5, <1>6, AppendKeepsLast DEF StatusSettled
<1>. QED
    BY <1>7, <1>8, <1>9, <1>10

LEMMA WorldKeepsSettled ==
    TypesInv /\ Settled
      /\ (OnConnect \/ OnDisconnect \/ OnMessage \/ OnEcho \/ SendAgain \/ BusFrame \/ BusDown)
        => Settled'
<1> SUFFICES ASSUME TypesInv, Settled,
                    OnConnect \/ OnDisconnect \/ OnMessage \/ OnEcho \/ SendAgain \/ BusFrame \/ BusDown
             PROVE  Settled'
    OBVIOUS
<1>1. CASE SendAgain \/ BusFrame \/ BusDown
    <2>1. /\ UNCHANGED <<gui, connected, callbacks, posted, connectionShown, localCanActive, shown,
                         labels, missed>>
          /\ next' = next \/ next' \in 1..(next - 1)
        BY <1>1 DEF SendAgain, BusFrame, BusDown, guiVars, bridgeVars
    <2>2. next \in Nat /\ next' \in Nat /\ next' <= next /\ MessageCount \in Nat
        BY <2>1, CountType DEF TypesInv, Messages
    <2>. QED
        BY <2>1, <2>2 DEF Settled, LabelSettled, FrameSettled, StateSettled, StatusSettled
<1>. QED
    BY <1>1, LinkKeepsSettled, MessageKeepsSettled, EchoKeepsSettled

----------------------------------------------------------------------------
(* The GUI thread. *)

\* A change of the label; the messages behind it stay.
LEMMA ConnectionKeepsSettled ==
    ASSUME TypesInv, Settled, SetConnectionState PROVE Settled'
<1>1. /\ UNCHANGED <<gui, connected, callbacks, localCanActive, shown, labels, next, missed>>
      /\ gui = "idle" /\ posted # <<>> /\ posted' = Tail(posted)
      /\ Head(posted).kind = "connection" /\ connectionShown' = Head(posted).up
    BY DEF SetConnectionState, worldVars
<1> SUFFICES LabelSettled' /\ FrameSettled' /\ StateSettled' /\ StatusSettled'
    BY DEF Settled
<1>2. posted \in Seq(Event) /\ Head(posted) \in Event
    BY <1>1, HeadTailProperties DEF TypesInv, Messages
<1>3. PICK up \in BOOLEAN : Head(posted) = Connection(up)
    BY <1>1, <1>2 DEF Event, MessageAt, Echo
<1>4. LabelSettled /\ FrameSettled /\ StateSettled /\ StatusSettled
    BY <1>1 DEF Settled
<1>5. ASSUME NEW topics PROVE Head(posted) \notin Of(topics)
    BY <1>3, NotOf
<1>6. LabelSettled'
    <2> SUFFICES ASSUME callbacks
                 PROVE  SettledOn(Tail(posted), Links, Connection(connected), connectionShown' = connected)
        BY <1>1 DEF LabelSettled
    <2>1. SettledOn(posted, Links, Connection(connected), connectionShown = connected)
        BY <1>4 DEF LabelSettled
    <2>2. Connection(connected) \in Links /\ Head(posted) \in Links
        BY <1>3 DEF Links, TypesInv, Flags
    <2>3. Head(posted) = Connection(connected) => connectionShown' = connected
        BY <1>1 DEF Connection
    <2>. QED
        BY <1>1, <1>2, <2>1, <2>2, <2>3, TailKeepsLast
<1>7. FrameSettled'
    BY <1>1, <1>2, <1>4, <1>5, LastMessages, TailKeepsLast, OfFacts DEF FrameSettled
<1>8. StateSettled'
    BY <1>1, <1>2, <1>4, <1>5, LastMessages, TailKeepsLast, OfFacts DEF StateSettled
<1>9. StatusSettled'
    BY <1>1, <1>2, <1>4, <1>5, LastMessages, TailKeepsLast, OfFacts DEF StatusSettled
<1>. QED
    BY <1>6, <1>7, <1>8, <1>9

\* A message takes its effect: the last of its kind the one that remains.
LEMMA HandledKeepsSettled ==
    ASSUME TypesInv, SourceInv, Settled, HandleMessage PROVE Settled'
<1> DEFINE m == Head(posted)
<1>1. /\ UNCHANGED <<gui, connected, callbacks, connectionShown, localCanActive, next, missed>>
      /\ gui = "idle" /\ posted # <<>> /\ posted' = Tail(posted) /\ m.kind = "message"
    BY DEF HandleMessage, worldVars
<1> SUFFICES LabelSettled' /\ FrameSettled' /\ StateSettled' /\ StatusSettled'
    BY DEF Settled
<1>2. posted \in Seq(Event) /\ m \in Event
    BY <1>1, HeadTailProperties DEF TypesInv, Messages
<1>3. LabelSettled /\ FrameSettled /\ StateSettled /\ StatusSettled
    BY <1>1 DEF Settled
<1>4. m.topic # "can/state" => m \in Of({m.topic})
    <2>1. m.topic # "can/state" => \E i \in 1..MessageCount : m = MessageAt(i)
        BY <1>1, <1>2 DEF Event, Connection, Echo
    <2>. QED
        BY <2>1 DEF Of
<1>5. LabelSettled'
    <2> SUFFICES ASSUME callbacks
                 PROVE  SettledOn(Tail(posted), Links, Connection(connected), connectionShown = connected)
        BY <1>1 DEF LabelSettled
    <2>1. SettledOn(posted, Links, Connection(connected), connectionShown = connected)
        BY <1>3 DEF LabelSettled
    <2>2. Connection(connected) \in Links
        BY DEF Links, TypesInv, Flags
    <2>3. m \notin Links
        BY <1>1 DEF Links, Connection
    <2>4. m # Connection(connected)
        BY <2>2, <2>3
    <2>. QED
        BY <1>1, <1>2, <2>1, <2>2, <2>4, TailKeepsLast
<1>6. FrameSettled'
    <2> SUFFICES ASSUME next > MessageCount - 3, "frames" \notin missed
                 PROVE  SettledOn(Tail(posted), Of({"frames"}), FinalFrame, labels'.frame = MaxVersions)
        BY <1>1 DEF FrameSettled
    <2>1. SettledOn(posted, Of({"frames"}), FinalFrame, labels.frame = MaxVersions)
        BY <1>3 DEF FrameSettled
    <2>2. m \notin Of({"frames"}) => m.topic # "frames"
        BY <1>4
    <2>3. m.topic # "frames" => labels'.frame = labels.frame
        BY DEF HandleMessage, TypesInv, Messages
    <2>4. m = FinalFrame => labels'.frame = MaxVersions
        BY LastMessages DEF HandleMessage, TypesInv, Messages
    <2>. QED
        BY <1>1, <1>2, <2>1, <2>2, <2>3, <2>4, LastMessages, TailKeepsLast
<1>7. StateSettled'
    <2> SUFFICES ASSUME next > MessageCount - 1, "can/state" \notin missed, ~localCanActive
                 PROVE  SettledOn(Tail(posted), Of({"frames", "can/state"}), FinalState,
                                  shown' = Remote(MaxVersions))
        BY <1>1 DEF StateSettled
    <2>1. SettledOn(posted, Of({"frames", "can/state"}), FinalState, shown = Remote(MaxVersions))
        BY <1>3 DEF StateSettled
    <2>2. m.topic \in {"frames", "can/state"} => m \in Of({"frames", "can/state"})
        <3>1. m \in RemoteEvent
            BY <1>1, HeadTailProperties DEF SourceInv, NoEcho
        <3>2. m.what.from = "remote"
            BY <1>1, <3>1, RemoteEventIsRemote
        <3>3. \E i \in 1..MessageCount : m = MessageAt(i)
            BY <1>1, <1>2, <3>2 DEF Event, Connection, Echo, Local
        <3>. QED
            BY <3>3 DEF Of
    <2>3. m.topic \notin {"frames", "can/state"} => shown' = shown
        BY DEF HandleMessage
    <2>4. m = FinalState => shown' = Remote(MaxVersions)
        BY LastMessages DEF HandleMessage, Display
    <2>. QED
        BY <1>1, <1>2, <2>1, <2>2, <2>3, <2>4, LastMessages, TailKeepsLast
<1>8. StatusSettled'
    <2> SUFFICES ASSUME next > MessageCount, "status" \notin missed
                 PROVE  SettledOn(Tail(posted), Of({"frames", "status"}), FinalStatus,
                                  labels'.fps = Status /\ labels'.cpu = Status)
        BY <1>1 DEF StatusSettled
    <2>1. SettledOn(posted, Of({"frames", "status"}), FinalStatus,
                    labels.fps = Status /\ labels.cpu = Status)
        BY <1>3 DEF StatusSettled
    <2>2. m \notin Of({"frames", "status"}) => m.topic \notin {"frames", "status"}
        <3>1. \A t \in {"frames", "status"} : Of({t}) \subseteq Of({"frames", "status"})
            BY DEF Of
        <3>. QED
            BY <1>4, <3>1
    <2>3. m.topic \notin {"frames", "status"} => labels' = labels
        BY DEF HandleMessage
    <2>4. m = FinalStatus => labels'.fps = Status /\ labels'.cpu = Status
        BY LastMessages DEF HandleMessage, TypesInv, Messages
    <2>. QED
        BY <1>1, <1>2, <2>1, <2>2, <2>3, <2>4, LastMessages, TailKeepsLast
<1>. QED
    BY <1>5, <1>6, <1>7, <1>8

LEMMA GuiKeepsSettled == TypesInv /\ SourceInv /\ Settled /\ Gui => Settled'
<1> SUFFICES ASSUME TypesInv, SourceInv, Settled, Gui PROVE Settled'
    OBVIOUS
<1>1. CASE StartBridge \/ Readable \/ ReadAll \/ CanError
    <2>1. /\ UNCHANGED <<connected, callbacks, posted, connectionShown, localCanActive, shown, labels,
                         next, missed>>
          /\ gui \notin {"closing", "closed"}
        BY <1>1 DEF StartBridge, Readable, ReadAll, CanError, bridgeVars, worldVars
    <2>. QED
        BY <2>1 DEF Settled, LabelSettled, FrameSettled, StateSettled, StatusSettled
<1>2. CASE Announce
    <2>1. /\ UNCHANGED <<localCanActive, shown, labels, next, missed>>
          /\ posted' = Append(posted, Connection(FALSE)) /\ ~callbacks' /\ gui = "announcing"
        BY <1>2 DEF Announce, worldVars
    <2>2. posted \in Seq(Event) /\ Connection(FALSE) \in Event
        BY DEF TypesInv, Messages, Event
    <2>3. FrameSettled /\ StateSettled /\ StatusSettled
        BY <2>1 DEF Settled
    <2>4. FrameSettled'
        BY <2>1, <2>2, <2>3, AppendKeepsLast, NotOf DEF FrameSettled
    <2>5. StateSettled'
        BY <2>1, <2>2, <2>3, AppendKeepsLast, NotOf DEF StateSettled
    <2>6. StatusSettled'
        BY <2>1, <2>2, <2>3, AppendKeepsLast, NotOf DEF StatusSettled
    <2>. QED
        BY <2>1, <2>4, <2>5, <2>6 DEF Settled, LabelSettled
<1>3. CASE StartCan
    <2>1. /\ UNCHANGED <<connected, callbacks, posted, connectionShown, shown, labels, next, missed>>
          /\ gui = "startingCan"
        BY <1>3 DEF StartCan, bridgeVars, worldVars
    <2>2. ~localCanActive
        BY <2>1 DEF SourceInv, NothingYet, Preparing
    <2>. QED
        BY <2>1, <2>2 DEF Settled, LabelSettled, FrameSettled, StateSettled, StatusSettled
<1>4. CASE ApplyOne
    <2>1. /\ UNCHANGED <<gui, connected, callbacks, posted, connectionShown, localCanActive, labels,
                         next, missed>>
          /\ localCanActive
        BY <1>4 DEF ApplyOne, bridgeVars, SourceInv, ReadsLocally
    <2>. QED
        BY <2>1 DEF Settled, LabelSettled, FrameSettled, StateSettled, StatusSettled
<1>5. CASE CloseWindow \/ StopBridge
    BY <1>5 DEF CloseWindow, StopBridge, Settled
<1>. QED
    BY <1>1, <1>2, <1>3, <1>4, <1>5, ConnectionKeepsSettled, HandledKeepsSettled DEF Gui

LEMMA SettledCorrect == Spec => [](TypesInv /\ SourceInv /\ Settled)
<1>1. Init => TypesInv /\ SourceInv /\ Settled
    BY InitTypes, InitSource, InitSettled
<1>2. TypesInv /\ SourceInv /\ Settled /\ [Next]_vars => (TypesInv /\ SourceInv /\ Settled)'
    <2> SUFFICES ASSUME TypesInv, SourceInv, Settled, [Next]_vars
                 PROVE  TypesInv' /\ SourceInv' /\ Settled'
        OBVIOUS
    <2>1. TypesInv' /\ SourceInv'
        BY StepKeepsTypes, StepKeepsSource
    <2>2. CASE UNCHANGED vars
        BY <2>1, <2>2 DEF vars, guiVars, bridgeVars, worldVars, Settled, LabelSettled, FrameSettled,
                          StateSettled, StatusSettled
    <2>. QED
        BY <2>1, <2>2, GuiKeepsSettled, WorldKeepsSettled DEF Next, Quiet, Closed
<1>. QED
    BY <1>1, <1>2, PTL DEF Spec

\* DashboardWindow::handleMessage: when nothing is left to handle, each figure
\* is the newest, unless the last message that carries it was lost.
THEOREM ConvergesToNewestCorrect == Spec => []ConvergesToNewest
<1>1. TypesInv /\ Settled => ConvergesToNewest
    <2> SUFFICES ASSUME TypesInv, Settled, next > MessageCount, posted = <<>>, gui = "idle"
                 PROVE  /\ "frames" \notin missed => labels.frame = MaxVersions
                        /\ "status" \notin missed => labels.fps = Status /\ labels.cpu = Status
                        /\ "can/state" \notin missed /\ ~localCanActive => shown = Remote(MaxVersions)
        BY DEF ConvergesToNewest
    <2>1. next > MessageCount - 3 /\ next > MessageCount - 1
        BY CountType DEF TypesInv, Messages
    <2>2. ASSUME NEW S, NEW e, NEW done, SettledOn(posted, S, e, done) PROVE done
        <3>1. DOMAIN posted = {}
            BY EmptySeq
        <3>. QED
            BY <2>2, <3>1 DEF SettledOn, LastIs
    <2>. QED
        BY <2>1, <2>2 DEF Settled, FrameSettled, StateSettled, StatusSettled
<1>. QED
    BY <1>1, SettledCorrect, PTL

\* MqttBridge and setConnectionState: once the posted events are handled the
\* label says what the last callback left in connected_.
THEOREM ConnectionLabelRightCorrect == Spec => []ConnectionLabelRight
<1>1. Settled => ConnectionLabelRight
    <2> SUFFICES ASSUME Settled, posted = <<>>, callbacks, gui \notin {"closing", "closed"}
                 PROVE  connectionShown = connected
        BY DEF ConnectionLabelRight
    <2>1. SettledOn(posted, Links, Connection(connected), connectionShown = connected)
        BY DEF Settled, LabelSettled
    <2>2. DOMAIN posted = {}
        BY EmptySeq
    <2>. QED
        BY <2>1, <2>2 DEF SettledOn, LastIs
<1>. QED
    BY <1>1, SettledCorrect, PTL
=============================================================================
