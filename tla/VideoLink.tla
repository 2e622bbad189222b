------------------------------ MODULE VideoLink ------------------------------
(***************************************************************************)
(* The annotated video from the vehicle program to the Qt terminal: the    *)
(* MJPEG streamer of each run of the program, the terminal's view, other   *)
(* HTTP clients that connect and do not read, and the network between      *)
(* them.                                                                   *)
(***************************************************************************)
EXTENDS MjpegStreamer, MjpegView

CONSTANTS MaxFrames,       \* bound: frames published
          MaxRuns,         \* bound: runs of the vehicle program
          MaxDisturbances  \* bound: connections of other clients (endless ones would
                           \*   keep the accept loop busy for ever), broken connections

ASSUME SocketsAssumption == NoReply \notin Sockets
ASSUME MaxFramesAssumption == MaxFrames \in Nat

VARIABLES published,    \* frames published, in all runs
          runs,         \* runs begun
          disturbances, \* other clients and broken connections
          viewGone      \* the terminal's window, and the view with it, is destroyed

vars == <<streamerVars, viewVars, published, runs, disturbances, viewGone>>

Init ==
    /\ StreamerInit /\ ViewInit
    /\ published = 0 /\ runs = 0 /\ disturbances = 0 /\ viewGone = FALSE

\* A socket nobody holds.
Free(c) == conn[c] # "backlog" /\ ~InUse(c) /\ reply # c

----------------------------------------------------------------------------
(* The vehicle program. *)
BeginRun ==
    /\ runs < MaxRuns
    /\ StartStream
    /\ runs' = runs + 1
    /\ UNCHANGED <<viewVars, published, disturbances, viewGone>>

Publish ==
    /\ listening /\ ~stopping
    /\ published < MaxFrames
    /\ PublishImage(published + 1)
    /\ published' = published + 1
    /\ UNCHANGED <<viewVars, runs, disturbances, viewGone>>

BeginStop ==
    /\ listening /\ ~stopping
    /\ RequestStop
    /\ UNCHANGED <<viewVars, published, runs, disturbances, viewGone>>

EndStop == FinishStop /\ UNCHANGED <<viewVars, published, runs, disturbances, viewGone>>
Server == Serve /\ UNCHANGED <<viewVars, published, runs, disturbances, viewGone>>

----------------------------------------------------------------------------
(* The terminal. *)
Connected(c) ==
    /\ conn' = [conn EXCEPT ![c] = "backlog"]
    /\ wire' = [wire EXCEPT ![c] = <<>>]
    /\ UNCHANGED <<listening, stopping, latestFrame, latestSequence, server, sentSequence,
                   outgoing, clients, served>>

Open ==
    /\ ~viewGone
    /\ \/ \E c \in Sockets : listening /\ Free(c) /\ OpenStream(c) /\ Connected(c)
       \/ OpenInVain /\ UNCHANGED streamerVars
    /\ UNCHANGED <<published, runs, disturbances, viewGone>>

\* How the connection of the view's reply stands.
Connection(state) == reply # NoReply /\ conn[reply] = state

Receive ==
    /\ Connection("open") \/ Connection("closed")
    /\ \E n \in 1..Len(wire[reply]) :
          /\ AppendBytes(SubSeq(wire[reply], 1, n))
          /\ wire' = [wire EXCEPT ![reply] = SubSeq(@, n + 1, Len(@))]
    /\ UNCHANGED <<listening, stopping, latestFrame, latestSequence, server, sentSequence,
                   outgoing, clients, served, conn, published, runs, disturbances, viewGone>>

Finished ==
    /\ \/ Connection("closed") /\ wire[reply] = <<>>
       \/ Connection("broken")
    /\ ReplyFinished
    /\ UNCHANGED <<streamerVars, published, runs, disturbances, viewGone>>

Decode == ConsumeFrames /\ UNCHANGED <<streamerVars, published, runs, disturbances, viewGone>>

\* The view is destroyed: its connection is reset. One that was not accepted
\* yet will be, as a client that reads nothing.
CloseView ==
    /\ ~viewGone
    /\ viewGone' = TRUE
    /\ StopView
    /\ conn' = [c \in Sockets |-> IF c = reply /\ conn[c] = "open" THEN "broken" ELSE conn[c]]
    /\ UNCHANGED <<listening, stopping, latestFrame, latestSequence, server, sentSequence,
                   outgoing, clients, served, wire, published, runs, disturbances>>

Terminal == Open \/ Receive \/ Finished \/ Decode \/ CloseView

----------------------------------------------------------------------------
(* External: another client connects; a connection breaks. *)
OtherConnects ==
    /\ listening
    /\ disturbances < MaxDisturbances
    /\ disturbances' = disturbances + 1
    /\ \E c \in Sockets : Free(c) /\ Connected(c)
    /\ UNCHANGED <<viewVars, published, runs, viewGone>>

Break ==
    /\ disturbances < MaxDisturbances
    /\ disturbances' = disturbances + 1
    /\ \E c \in Sockets : conn[c] = "open" /\ conn' = [conn EXCEPT ![c] = "broken"]
    /\ UNCHANGED <<listening, stopping, latestFrame, latestSequence, server, sentSequence,
                   outgoing, clients, served, wire, viewVars, published, runs, viewGone>>

\* No run is left and the terminal is closed.
Ended == runs = MaxRuns /\ ~listening /\ viewGone /\ UNCHANGED vars

Next == BeginRun \/ Publish \/ BeginStop \/ EndStop \/ Server \/ Terminal
          \/ OtherConnects \/ Break \/ Ended

(***************************************************************************)
(* The streamer's thread is scheduled, and the GUI handles its events: the *)
(* decode timer fires, what arrives is read, the end of a reply is seen.   *)
(***************************************************************************)
SafeSpec == Init /\ [][Next]_vars
Spec ==
    /\ SafeSpec
    /\ WF_vars(Server)
    /\ WF_vars(Receive) /\ WF_vars(Finished) /\ WF_vars(Decode)

----------------------------------------------------------------------------
Mark == [mark : {"start", "end"}, frame : 1..MaxFrames]

\* The stream is never listened on twice, and no client is listed twice.
TypeOK ==
    /\ listening \in BOOLEAN /\ stopping \in BOOLEAN
    /\ server \in {"none", "accepting", "waiting", "sending", "done"}
    /\ latestFrame \in 0..published /\ latestSequence \in 0..published
    /\ sentSequence \in 0..latestSequence
    /\ clients \in Seq(Sockets)
    /\ \A i, j \in DOMAIN clients : clients[i] = clients[j] => i = j
    /\ server = "sending" => served \in 0..Len(clients)
    /\ conn \in [Sockets -> {"none", "backlog", "open", "closed", "broken"}]
    /\ \A c \in Sockets : wire[c] \in Seq(Mark) /\ Len(wire[c]) <= SocketRoom
    /\ buffer \in Seq(Mark) /\ Len(buffer) <= BufferLimit
    /\ reply \in Sockets \cup {NoReply} /\ timerActive \in BOOLEAN
    /\ viewGone \in BOOLEAN

\* What the terminal shows is one whole picture, whatever was cut off: frames
\* the streamer gave up on, broken connections, a buffer trimmed in the middle.
ShowsWholeFrames ==
    currentFrame # <<>> => \E f \in 1..published : currentFrame = Picture(f)

\* The picture never goes back to an older one: not when frames are skipped,
\* not over a reconnection, not over a new run of the program.
NeverGoesBack ==
    [][currentFrame # <<>> /\ ~viewGone' => currentFrame'[1].frame >= currentFrame[1].frame]_vars

\* What the view holds and will still be given, and whether there is a whole
\* picture in it that is not older than frame f.
Incoming == buffer \o (IF reply = NoReply THEN <<>> ELSE wire[reply])
Carries(s, f) ==
    \E g \in f..MaxFrames : \E i \in 1..(Len(s) - 1) :
        s[i] = Picture(g)[1] /\ s[i + 1] = Picture(g)[2]
Shows(f) == currentFrame # <<>> /\ currentFrame[1].frame >= f
Sends(f) == SendWhole /\ clients[served + 1] = reply /\ outgoing = f

\* A frame that was sent to the terminal is not lost before its reply ends: it, or
\* a newer one, is on its way until it is in view, if what is kept of a buffer that
\* is too long has room for a picture and a half.
SentFramesArrive ==
    [][\A f \in 1..MaxFrames :
          /\ BufferKeep > 2
          /\ reply # NoReply /\ reply' = reply
          /\ Carries(Incoming, f) \/ Shows(f) \/ Sends(f)
          => Carries(Incoming, f)' \/ Shows(f)']_vars

\* Once stop() has returned every connection of the run is closed, and no
\* thread is left to serve it.
NothingLeftOpen ==
    ~listening => clients = <<>> /\ server = "none"
                    /\ \A c \in Sockets : conn[c] \notin {"backlog", "open"}

\* A frame published while the terminal is connected reaches the screen, or a
\* newer one does, unless that connection ends: other clients that read nothing
\* do not hold it up.
NewestIsShown ==
    \A f \in 1..MaxFrames :
        Connection("open") /\ InUse(reply) /\ latestFrame = f /\ latestSequence # sentSequence
        ~> \/ currentFrame # <<>> /\ currentFrame[1].frame >= f
           \/ ~Connection("open") \/ stopping

\* The terminal never gives up: a stream that has ended is read to its end,
\* and then the view is ready to open it again, unless it is destroyed.
AlwaysRetries == Connection("closed") \/ Connection("broken") ~> MayOpen \/ viewGone
=============================================================================
