---------------------------- MODULE MjpegStreamer ----------------------------
(***************************************************************************)
(* vehicle::infra::MjpegStreamer: the owner publishes JPEG frames, and one *)
(* thread, serve(), accepts HTTP clients and writes the newest frame to    *)
(* all of them.  The sockets do not block: a client whose socket buffer    *)
(* has no room for a whole frame is dropped in the middle of it.           *)
(***************************************************************************)
EXTENDS Naturals, Sequences

CONSTANTS Sockets,    \* the server's ends of connections
          SocketRoom  \* what a connection holds unread: two units for a frame

ASSUME SocketRoomAssumption == SocketRoom \in Nat

VARIABLES listening,       \* listenFd_ is open
          stopping,        \* stopping_
          latestFrame,     \* latestFrame_, 0 if there is none
          latestSequence,  \* latestSequence_
          server,          \* serve(): "none", "accepting", "waiting", "sending", "done"
          sentSequence,    \* its local sentSequence
          outgoing,        \* its local copy of the frame
          clients,         \* its local list of clients
          served,          \* how many of them this pass of the loop has served
          conn,            \* conn[c]: "none", "backlog", "open", "closed" by the
                           \*   server, "broken" by the peer or the network
          wire             \* wire[c]: what is written to c and not read

streamerVars == <<listening, stopping, latestFrame, latestSequence, server, sentSequence,
                  outgoing, clients, served, conn, wire>>
sockets == <<conn, wire>>

StreamerInit ==
    /\ listening = FALSE /\ stopping = FALSE
    /\ latestFrame = 0 /\ latestSequence = 0
    /\ server = "none" /\ sentSequence = 0 /\ outgoing = 0
    /\ clients = <<>> /\ served = 0
    /\ conn = [c \in Sockets |-> "none"]
    /\ wire = [c \in Sockets |-> <<>>]

\* The start and the end of the JPEG data of frame f.
Picture(f) == <<[mark |-> "start", frame |-> f], [mark |-> "end", frame |-> f]>>

----------------------------------------------------------------------------
(* The owner.  A run has a streamer of its own. *)

\* start() with a free port.
StartStream ==
    /\ ~listening
    /\ listening' = TRUE
    /\ stopping' = FALSE
    /\ server' = "accepting"
    /\ UNCHANGED <<latestFrame, latestSequence, sentSequence, outgoing, clients, served, sockets>>

PublishImage(f) ==
    /\ latestFrame' = f
    /\ latestSequence' = latestSequence + 1
    /\ UNCHANGED <<listening, stopping, server, sentSequence, outgoing, clients, served, sockets>>

RequestStop ==
    /\ stopping' = TRUE
    /\ UNCHANGED <<listening, latestFrame, latestSequence, server, sentSequence, outgoing,
                   clients, served, sockets>>

\* stop() after the join: the listening socket is closed, and with it what
\* was never accepted; the object goes with its run.
FinishStop ==
    /\ stopping
    /\ server = "done"
    /\ listening' = FALSE
    /\ server' = "none"
    /\ conn' = [c \in Sockets |-> IF conn[c] = "backlog" THEN "closed" ELSE conn[c]]
    /\ latestFrame' = 0 /\ latestSequence' = 0 /\ sentSequence' = 0
    /\ UNCHANGED <<stopping, outgoing, clients, served, wire>>

----------------------------------------------------------------------------
(* serve() *)

\* Accept a client; if its header cannot be written it is closed again.
Accept(c) ==
    /\ server = "accepting"
    /\ conn[c] = "backlog"
    /\ \/ clients' = Append(clients, c) /\ conn' = [conn EXCEPT ![c] = "open"]
       \/ UNCHANGED clients /\ conn' = [conn EXCEPT ![c] = "closed"]
    /\ UNCHANGED <<listening, stopping, latestFrame, latestSequence, server, sentSequence,
                   outgoing, served, wire>>

AcceptNoMore ==
    /\ server = "accepting"
    /\ \A c \in Sockets : conn[c] # "backlog"
    /\ server' = "waiting"
    /\ UNCHANGED <<listening, stopping, latestFrame, latestSequence, sentSequence, outgoing,
                   clients, served, sockets>>

InUse(c) == \E i \in DOMAIN clients : clients[i] = c

\* Seeded: the thread leaves without closing its clients.
LeaveFault ==
    /\ server = "waiting"
    /\ stopping
    /\ server' = "done"
    /\ clients' = <<>>
    /\ UNCHANGED <<listening, stopping, latestFrame, latestSequence, sentSequence, outgoing,
                   served, sockets>>

\* The wait is over: stop() was called, and the thread closes what it has.
Leave ==
    /\ server = "waiting"
    /\ stopping
    /\ server' = "done"
    /\ conn' = [c \in Sockets |-> IF InUse(c) /\ conn[c] = "open" THEN "closed" ELSE conn[c]]
    /\ clients' = <<>>
    /\ UNCHANGED <<listening, stopping, latestFrame, latestSequence, sentSequence, outgoing,
                   served, wire>>

\* Or 100 ms have passed and there is nothing new.
WaitInVain ==
    /\ server = "waiting"
    /\ ~stopping
    /\ latestSequence = sentSequence
    /\ server' = "accepting"
    /\ UNCHANGED <<listening, stopping, latestFrame, latestSequence, sentSequence, outgoing,
                   clients, served, sockets>>

\* Or there is, possibly several frames on.
PickFrame ==
    /\ server = "waiting"
    /\ ~stopping
    /\ latestSequence # sentSequence
    /\ outgoing' = latestFrame
    /\ sentSequence' = latestSequence
    /\ served' = 0
    /\ server' = "sending"
    /\ UNCHANGED <<listening, stopping, latestFrame, latestSequence, clients, sockets>>

Written(c) == conn[c] = "open" /\ Len(wire[c]) + Len(Picture(outgoing)) <= SocketRoom

SendWhole ==
    /\ server = "sending"
    /\ served < Len(clients)
    /\ LET c == clients[served + 1] IN
          /\ Written(c)
          /\ wire' = [wire EXCEPT ![c] = @ \o Picture(outgoing)]
    /\ served' = served + 1
    /\ UNCHANGED <<listening, stopping, latestFrame, latestSequence, server, sentSequence,
                   outgoing, clients, conn>>

\* Seeded: the sockets block, so that only a broken connection fails.
DropClientFault ==
    /\ server = "sending"
    /\ served < Len(clients)
    /\ conn[clients[served + 1]] # "open"
    /\ conn' = [conn EXCEPT ![clients[served + 1]] = "closed"]
    /\ clients' = SubSeq(clients, 1, served) \o SubSeq(clients, served + 2, Len(clients))
    /\ UNCHANGED <<listening, stopping, latestFrame, latestSequence, server, sentSequence,
                   outgoing, served, wire>>

\* A write fails: the client is closed and erased; what was written before
\* may be less than a picture.
DropClient ==
    /\ server = "sending"
    /\ served < Len(clients)
    /\ LET c == clients[served + 1] IN
          /\ ~Written(c)
          /\ conn' = [conn EXCEPT ![c] = "closed"]
          /\ \E n \in 0..(Len(Picture(outgoing)) - 1) :
                wire' = [wire EXCEPT ![c] = IF conn[c] = "open" /\ Len(@) + n <= SocketRoom
                                              THEN @ \o SubSeq(Picture(outgoing), 1, n) ELSE @]
    /\ clients' = SubSeq(clients, 1, served) \o SubSeq(clients, served + 2, Len(clients))
    /\ UNCHANGED <<listening, stopping, latestFrame, latestSequence, server, sentSequence,
                   outgoing, served>>

PassDone ==
    /\ server = "sending"
    /\ served = Len(clients)
    /\ server' = "accepting"
    /\ outgoing' = 0 /\ served' = 0
    /\ UNCHANGED <<listening, stopping, latestFrame, latestSequence, sentSequence, clients,
                   sockets>>

Serve ==
    \/ \E c \in Sockets : Accept(c)
    \/ AcceptNoMore \/ Leave \/ WaitInVain \/ PickFrame
    \/ SendWhole \/ DropClient \/ PassDone
=============================================================================
