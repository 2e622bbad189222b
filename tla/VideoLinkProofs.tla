--------------------------- MODULE VideoLinkProofs ---------------------------
(***************************************************************************)
(* Theorems about VideoLink, for any number of frames, runs, connections   *)
(* and disturbances, and any size of the buffers: its types, nothing left  *)
(* open after a run, whole pictures only, never an older one, and none     *)
(* lost that was sent.                                                     *)
(***************************************************************************)
EXTENDS VideoLink, SequenceTheorems, FiniteSetTheorems, TLAPS

(* What is cut from a sequence. *)

LEMMA PartType ==
    ASSUME NEW E, NEW s \in Seq(E), NEW m \in 1..(Len(s) + 1), NEW n \in 0..Len(s)
    PROVE  /\ SubSeq(s, m, n) \in Seq(E)
           /\ Len(SubSeq(s, m, n)) = IF m <= n THEN n - m + 1 ELSE 0
           /\ \A i \in 1..(n - m + 1) : SubSeq(s, m, n)[i] = s[m + i - 1]
<1>1. Len(s) \in Nat /\ \A i \in m..n : s[i] \in E
    BY LenProperties, ElementOfSeq
<1>2. m \in Int /\ n \in Int
    BY <1>1
<1>. QED
    BY <1>1, <1>2, SubSeqProperties

LEMMA StartOfType ==
    ASSUME NEW E, NEW s \in Seq(E), NEW n \in 0..Len(s)
    PROVE  SubSeq(s, 1, n) \in Seq(E) /\ Len(SubSeq(s, 1, n)) = n
<1>1. Len(s) \in Nat /\ 1 \in 1..(Len(s) + 1)
    BY LenProperties
<1>2. SubSeq(s, 1, n) \in Seq(E) /\ Len(SubSeq(s, 1, n)) = IF 1 <= n THEN n - 1 + 1 ELSE 0
    BY <1>1, PartType
<1>. QED
    BY <1>1, <1>2

\* A client is erased from the list at place k + 1.
Without(s, k) == SubSeq(s, 1, k) \o SubSeq(s, k + 2, Len(s))

LEMMA WithoutProperties ==
    ASSUME NEW E, NEW s \in Seq(E), NEW k \in 0..(Len(s) - 1)
    PROVE  /\ Without(s, k) \in Seq(E)
           /\ Len(Without(s, k)) = Len(s) - 1
           /\ \A i \in 1..(Len(s) - 1) : Without(s, k)[i] = IF i <= k THEN s[i] ELSE s[i + 1]
<1>1. Len(s) \in Nat
    BY LenProperties
<1>2. /\ SubSeq(s, 1, k) \in Seq(E) /\ Len(SubSeq(s, 1, k)) = k
      /\ \A i \in 1..k : SubSeq(s, 1, k)[i] = s[i]
    <2>1. 1 \in 1..(Len(s) + 1) /\ k \in 0..Len(s)
        BY <1>1
    <2>. QED
        BY <1>1, <2>1, PartType
<1>3. /\ SubSeq(s, k + 2, Len(s)) \in Seq(E) /\ Len(SubSeq(s, k + 2, Len(s))) = Len(s) - k - 1
      /\ \A i \in 1..(Len(s) - k - 1) : SubSeq(s, k + 2, Len(s))[i] = s[i + k + 1]
    <2>1. k + 2 \in 1..(Len(s) + 1) /\ Len(s) \in 0..Len(s)
        BY <1>1
    <2>2. \A i \in 1..(Len(s) - (k + 2) + 1) : (k + 2) + i - 1 = i + k + 1
        BY <1>1
    <2>. QED
        BY <1>1, <2>1, <2>2, PartType
<1>4. /\ Without(s, k) \in Seq(E) /\ Len(Without(s, k)) = k + (Len(s) - k - 1)
      /\ \A i \in 1..(k + (Len(s) - k - 1)) :
            Without(s, k)[i] = IF i <= k THEN SubSeq(s, 1, k)[i]
                                         ELSE SubSeq(s, k + 2, Len(s))[i - k]
    <2>. DEFINE a == SubSeq(s, 1, k)
                b == SubSeq(s, k + 2, Len(s))
    <2>1. a \in Seq(E) /\ b \in Seq(E) /\ Len(a) = k /\ Len(b) = Len(s) - k - 1
        BY <1>2, <1>3
    <2>. HIDE DEF a, b
    <2>2. /\ a \o b \in Seq(E) /\ Len(a \o b) = Len(a) + Len(b)
          /\ \A i \in 1..(Len(a) + Len(b)) :
                (a \o b)[i] = IF i <= Len(a) THEN a[i] ELSE b[i - Len(a)]
        BY <2>1, ConcatProperties
    <2>3. /\ Len(a \o b) = k + (Len(s) - k - 1)
          /\ \A i \in 1..(k + (Len(s) - k - 1)) : (a \o b)[i] = IF i <= k THEN a[i] ELSE b[i - k]
        BY <2>1, <2>2
    <2>4. Without(s, k) = a \o b
        BY DEF Without, a, b
    <2>. QED
        BY <2>2, <2>3, <2>4 DEF a, b
<1>5. \A i \in 1..(Len(s) - 1) : Without(s, k)[i] = IF i <= k THEN s[i] ELSE s[i + 1]
    <2> SUFFICES ASSUME NEW i \in 1..(Len(s) - 1)
                 PROVE  Without(s, k)[i] = IF i <= k THEN s[i] ELSE s[i + 1]
        OBVIOUS
    <2>1. CASE i <= k
        BY <1>1, <1>2, <1>4, <2>1
    <2>2. CASE i > k
        <3>1. i - k \in 1..(Len(s) - k - 1) /\ (i - k) + k + 1 = i + 1 /\ ~(i <= k)
              /\ i \in 1..(k + (Len(s) - k - 1))
            BY <1>1, <2>2
        <3>2. Without(s, k)[i] = SubSeq(s, k + 2, Len(s))[i - k]
            BY <1>4, <3>1
        <3>3. SubSeq(s, k + 2, Len(s))[i - k] = s[(i - k) + k + 1]
            BY <1>3, <3>1
        <3>. QED
            BY <3>1, <3>2, <3>3
    <2>. QED
        BY <1>1, <2>1, <2>2
<1>. QED
    BY <1>1, <1>4, <1>5

----------------------------------------------------------------------------
(* The types, and who is connected. *)

Counts ==
    /\ published \in 0..MaxFrames
    /\ latestFrame \in 0..published /\ latestSequence \in 0..published
    /\ sentSequence \in 0..latestSequence
    /\ latestSequence > 0 => latestFrame = published
    /\ server = "sending" => outgoing \in 1..published

\* The thread lives while the socket is listened on, and leaves no client behind.
Thread ==
    /\ listening \in BOOLEAN /\ stopping \in BOOLEAN
    /\ server \in {"none", "accepting", "waiting", "sending", "done"}
    /\ listening = (server # "none")
    /\ server \in {"none", "done"} => clients = <<>>

Listed ==
    /\ clients \in Seq(Sockets)
    /\ \A i, j \in 1..Len(clients) : clients[i] = clients[j] => i = j
    /\ server = "sending" => served \in 0..Len(clients)

\* The server's end of a connection is open only while its client is listed.
Held ==
    /\ conn \in [Sockets -> {"none", "backlog", "open", "closed", "broken"}]
    /\ \A c \in Sockets : conn[c] = "open" => InUse(c)
    /\ \A c \in Sockets : InUse(c) => conn[c] \in {"open", "broken"}
    /\ ~listening => \A c \in Sockets : conn[c] # "backlog"

Wires == wire \in [Sockets -> Seq(Mark)] /\ \A c \in Sockets : Len(wire[c]) <= SocketRoom

View ==
    /\ reply \in Sockets \cup {NoReply}
    /\ buffer \in Seq(Mark) /\ Len(buffer) <= BufferLimit
    /\ reconnectEnabled \in BOOLEAN /\ timerActive \in BOOLEAN /\ viewGone \in BOOLEAN
    /\ reply = NoReply => buffer = <<>>

LinkInv == Counts /\ Thread /\ Listed /\ Held /\ Wires /\ View

LEMMA NobodyInUse == ASSUME NEW c, clients = <<>> PROVE ~InUse(c)
BY EmptySeq DEF InUse

LEMMA PictureType ==
    ASSUME NEW f \in 1..MaxFrames
    PROVE  /\ Picture(f) \in Seq(Mark) /\ Len(Picture(f)) = 2
           /\ Picture(f)[1] = [mark |-> "start", frame |-> f]
           /\ Picture(f)[2] = [mark |-> "end", frame |-> f]
BY DEF Picture, Mark

LEMMA InitLink == Init => LinkInv
<1> SUFFICES ASSUME Init PROVE LinkInv
    OBVIOUS
<1>. USE DEF Init, StreamerInit, ViewInit
<1>1. Counts
    BY MaxFramesAssumption DEF Counts
<1>2. Thread
    BY DEF Thread
<1>3. Listed
    BY EmptySeq DEF Listed
<1>4. Held
    BY NobodyInUse DEF Held
<1>5. Wires
    BY EmptySeq, SocketRoomAssumption DEF Wires
<1>6. View
    <2>1. buffer \in Seq(Mark) /\ Len(buffer) <= BufferLimit
        BY EmptySeq, BufferAssumption
    <2>. QED
        BY <2>1 DEF View
<1>. QED
    BY <1>1, <1>2, <1>3, <1>4, <1>5, <1>6 DEF LinkInv
----------------------------------------------------------------------------
(* The streamer's thread. *)

\* A client accepted is a new one.
LEMMA AcceptKeepsLink == ASSUME LinkInv, NEW c \in Sockets, Accept(c), UNCHANGED viewVars,
                                UNCHANGED <<published, viewGone>>
                         PROVE  LinkInv'
<1>. USE DEF LinkInv
<1>1. /\ server = "accepting" /\ conn[c] = "backlog"
      /\ UNCHANGED <<listening, stopping, latestFrame, latestSequence, server, sentSequence,
                     outgoing, served, wire>>
    BY DEF Accept
<1>2. Counts' /\ Thread' /\ Wires' /\ View'
    BY <1>1 DEF Counts, Thread, Wires, View, viewVars
<1>3. ~InUse(c) /\ listening
    BY <1>1 DEF Held, Thread
<1>4. CASE UNCHANGED clients /\ conn' = [conn EXCEPT ![c] = "closed"]
    <2>1. Listed'
        BY <1>1, <1>4 DEF Listed
    <2>2. Held'
        BY <1>1, <1>3, <1>4 DEF Held, InUse
    <2>. QED
        BY <1>2, <2>1, <2>2
<1>5. CASE clients' = Append(clients, c) /\ conn' = [conn EXCEPT ![c] = "open"]
    <2>1. /\ clients' \in Seq(Sockets) /\ Len(clients') = Len(clients) + 1 /\ Len(clients) \in Nat
          /\ \A i \in 1..Len(clients) : clients'[i] = clients[i]
          /\ clients'[Len(clients) + 1] = c
        BY <1>5, AppendProperties, LenProperties DEF Listed
    <2>2. DOMAIN clients = 1..Len(clients) /\ DOMAIN clients' = 1..(Len(clients) + 1)
        BY <2>1, LenProperties DEF Listed
    <2>3. \A i \in 1..Len(clients) : clients[i] # c
        BY <1>3, <2>2 DEF InUse
    <2>4. \A i, j \in 1..Len(clients') : clients'[i] = clients'[j] => i = j
        BY <2>1, <2>3 DEF Listed
    <2>5. Listed'
        BY <1>1, <2>1, <2>4 DEF Listed
    <2>6. \A d : InUse(d)' <=> InUse(d) \/ d = c
        BY <2>1, <2>2 DEF InUse
    <2>7. Held'
        BY <1>1, <1>3, <1>5, <2>6 DEF Held
    <2>. QED
        BY <1>2, <2>5, <2>7
<1>. QED
    BY <1>4, <1>5 DEF Accept

\* When the thread leaves, it closes the connections that are open.
LEMMA LeaveKeepsLink == ASSUME LinkInv, Leave, UNCHANGED viewVars, UNCHANGED <<published, viewGone>>
                        PROVE  LinkInv'
<1>. USE DEF LinkInv
<1>1. /\ server = "waiting" /\ server' = "done" /\ clients' = <<>>
      /\ conn' = [c \in Sockets |-> IF InUse(c) /\ conn[c] = "open" THEN "closed" ELSE conn[c]]
      /\ UNCHANGED <<listening, stopping, latestFrame, latestSequence, sentSequence, outgoing,
                     served, wire>>
    BY DEF Leave
<1>2. Counts' /\ Thread' /\ Wires' /\ View'
    BY <1>1 DEF Counts, Thread, Wires, View, viewVars
<1>3. Listed'
    BY <1>1, EmptySeq DEF Listed
<1>4. \A c : ~InUse(c)'
    BY <1>1 DEF InUse
<1>5. Held'
    BY <1>1, <1>4 DEF Held, Thread
<1>. QED
    BY <1>2, <1>3, <1>5

\* A picture that has room is written to the end of the wire.
LEMMA WriteType ==
    ASSUME Wires, NEW c \in Sockets, NEW s \in Seq(Mark), Len(wire[c]) + Len(s) <= SocketRoom
    PROVE  /\ [wire EXCEPT ![c] = @ \o s] \in [Sockets -> Seq(Mark)]
           /\ \A d \in Sockets : Len([wire EXCEPT ![c] = @ \o s][d]) <= SocketRoom
<1>1. wire[c] \o s \in Seq(Mark) /\ Len(wire[c] \o s) = Len(wire[c]) + Len(s)
    BY ConcatProperties DEF Wires
<1>. QED
    BY <1>1 DEF Wires

LEMMA SendKeepsLink == ASSUME LinkInv, SendWhole, UNCHANGED viewVars, UNCHANGED <<published, viewGone>>
                       PROVE  LinkInv'
<1>. USE DEF LinkInv
<1>. DEFINE c == clients[served + 1]
<1>1. /\ server = "sending" /\ served < Len(clients) /\ served' = served + 1
      /\ conn[c] = "open" /\ Len(wire[c]) + Len(Picture(outgoing)) <= SocketRoom
      /\ wire' = [wire EXCEPT ![c] = @ \o Picture(outgoing)]
      /\ UNCHANGED <<listening, stopping, latestFrame, latestSequence, server, sentSequence,
                     outgoing, clients, conn>>
    BY DEF SendWhole, Written
<1>2. served \in 0..Len(clients) /\ Len(clients) \in Nat /\ c \in Sockets
    <2>1. served \in 0..Len(clients) /\ Len(clients) \in Nat
        BY <1>1, LenProperties DEF Listed
    <2>2. served + 1 \in 1..Len(clients)
        BY <1>1, <2>1
    <2>. QED
        BY <2>1, <2>2, ElementOfSeq DEF Listed
<1>3. Picture(outgoing) \in Seq(Mark)
    <2>1. outgoing \in 1..MaxFrames
        BY <1>1, MaxFramesAssumption DEF Counts
    <2>. QED
        BY <2>1, PictureType
<1>4. Counts' /\ Thread' /\ View'
    BY <1>1 DEF Counts, Thread, View, viewVars
<1>5. Listed'
    BY <1>1, <1>2 DEF Listed
<1>6. Held'
    BY <1>1 DEF Held, InUse
<1>7. Wires'
    <2>. HIDE DEF c
    <2>. QED
        BY <1>1, <1>2, <1>3, WriteType DEF Wires
<1>. QED
    BY <1>4, <1>5, <1>6, <1>7

\* A client that is dropped is closed and no longer listed.
LEMMA DropKeepsLink == ASSUME LinkInv, DropClient, UNCHANGED viewVars, UNCHANGED <<published, viewGone>>
                       PROVE  LinkInv'
<1>. USE DEF LinkInv
<1>. DEFINE c == clients[served + 1]
<1>1. /\ server = "sending" /\ served < Len(clients)
      /\ conn' = [conn EXCEPT ![c] = "closed"]
      /\ clients' = Without(clients, served)
      /\ UNCHANGED <<listening, stopping, latestFrame, latestSequence, server, sentSequence,
                     outgoing, served>>
    BY DEF DropClient, Without
<1>2. served \in 0..(Len(clients) - 1) /\ Len(clients) \in Nat
    BY <1>1, LenProperties DEF Listed
<1>3. c \in Sockets
    BY <1>2, ElementOfSeq DEF Listed
<1>4. /\ clients' \in Seq(Sockets) /\ Len(clients') = Len(clients) - 1
      /\ \A i \in 1..(Len(clients) - 1) :
            clients'[i] = IF i <= served THEN clients[i] ELSE clients[i + 1]
    BY <1>1, <1>2, WithoutProperties DEF Listed
<1>5. \A i, j \in 1..Len(clients') : clients'[i] = clients'[j] => i = j
    BY <1>2, <1>4 DEF Listed
<1>6. Listed'
    BY <1>1, <1>2, <1>4, <1>5 DEF Listed
<1>7. Counts' /\ Thread' /\ View'
    BY <1>1 DEF Counts, Thread, View, viewVars
<1>8. DOMAIN clients = 1..Len(clients) /\ DOMAIN clients' = 1..(Len(clients) - 1)
    BY <1>2, <1>4, LenProperties DEF Listed
<1>9. \A d : InUse(d)' <=> InUse(d) /\ d # c
    <2> SUFFICES ASSUME NEW d PROVE InUse(d)' <=> InUse(d) /\ d # c
        OBVIOUS
    <2>1. ASSUME InUse(d)' PROVE InUse(d) /\ d # c
        <3>1. PICK i \in 1..(Len(clients) - 1) : clients'[i] = d
            BY <1>8, <2>1 DEF InUse
        <3>2. PICK k \in 1..Len(clients) : clients[k] = d /\ k # served + 1
            BY <1>2, <1>4, <3>1
        <3>3. d # c
            BY <1>2, <3>2 DEF Listed
        <3>. QED
            BY <1>8, <3>2, <3>3 DEF InUse
    <2>2. ASSUME InUse(d), d # c PROVE InUse(d)'
        <3>1. PICK k \in 1..Len(clients) : clients[k] = d /\ k # served + 1
            BY <1>2, <1>8, <2>2 DEF InUse
        <3>2. CASE k <= served
            <4>1. k \in 1..(Len(clients) - 1) /\ clients'[k] = d
                BY <1>2, <1>4, <3>1, <3>2
            <4>. QED
                BY <1>8, <4>1 DEF InUse
        <3>3. CASE k > served
            <4>1. k - 1 \in 1..(Len(clients) - 1) /\ ~(k - 1 <= served) /\ (k - 1) + 1 = k
                BY <1>2, <3>1, <3>3
            <4>2. clients'[k - 1] = d
                BY <1>4, <3>1, <4>1
            <4>. QED
                BY <1>8, <4>1, <4>2 DEF InUse
        <3>. QED
            BY <1>2, <3>1, <3>2, <3>3
    <2>. QED
        BY <2>1, <2>2
<1>10. Held'
    <2>. HIDE DEF c
    <2>. QED
        BY <1>1, <1>3, <1>9 DEF Held, Thread
<1>11. Wires'
    <2>1. PICK n \in 0..(Len(Picture(outgoing)) - 1) :
             wire' = [wire EXCEPT ![c] = IF conn[c] = "open" /\ Len(@) + n <= SocketRoom
                                           THEN @ \o SubSeq(Picture(outgoing), 1, n) ELSE @]
        BY DEF DropClient
    <2>2. outgoing \in 1..MaxFrames
        BY <1>1, MaxFramesAssumption DEF Counts
    <2>3. Len(Picture(outgoing)) = 2 /\ Picture(outgoing) \in Seq(Mark)
        BY <2>2, PictureType
    <2>4. SubSeq(Picture(outgoing), 1, n) \in Seq(Mark) /\ Len(SubSeq(Picture(outgoing), 1, n)) = n
        <3>1. n \in 0..Len(Picture(outgoing))
            BY <2>3
        <3>. QED
            BY <2>3, <3>1, StartOfType
    <2>. HIDE DEF c
    <2>5. CASE conn[c] = "open" /\ Len(wire[c]) + n <= SocketRoom
        BY <1>3, <2>1, <2>4, <2>5, WriteType DEF Wires
    <2>6. CASE wire' = wire
        BY <2>6 DEF Wires
    <2>. QED
        BY <1>3, <2>1, <2>5, <2>6 DEF Wires
<1>. QED
    BY <1>6, <1>7, <1>10, <1>11

LEMMA ServerKeepsLink == LinkInv /\ Server => LinkInv'
<1> SUFFICES ASSUME LinkInv, Server PROVE LinkInv'
    OBVIOUS
<1>1. UNCHANGED <<viewVars, published, viewGone>>
    BY DEF Server
<1>2. CASE AcceptNoMore \/ WaitInVain \/ PickFrame \/ PassDone
    <2>1. UNCHANGED <<listening, stopping, latestFrame, latestSequence, clients, conn, wire>>
          /\ server \in {"accepting", "waiting", "sending"}
        BY <1>2 DEF AcceptNoMore, WaitInVain, PickFrame, PassDone, sockets
    <2>2. server' \in {"accepting", "waiting", "sending"}
        BY <1>2 DEF AcceptNoMore, WaitInVain, PickFrame, PassDone
    <2>3. Counts'
        BY <1>1, <1>2, <2>1 DEF AcceptNoMore, WaitInVain, PickFrame, PassDone, LinkInv, Counts
    <2>4. Thread' /\ Held' /\ Wires' /\ View'
        BY <1>1, <2>1, <2>2 DEF LinkInv, Thread, Held, InUse, Wires, View, viewVars
    <2>5. Listed'
        <3>1. Len(clients) \in Nat
            BY LenProperties DEF LinkInv, Listed
        <3>. QED
            BY <1>2, <2>1, <3>1 DEF AcceptNoMore, WaitInVain, PickFrame, PassDone, LinkInv, Listed
    <2>. QED
        BY <2>3, <2>4, <2>5 DEF LinkInv
<1>. QED
    BY <1>1, <1>2, AcceptKeepsLink, LeaveKeepsLink, SendKeepsLink, DropKeepsLink DEF Server, Serve
----------------------------------------------------------------------------
(* The owner of the streamer, the terminal and the others. *)

LEMMA OwnerKeepsLink ==
    ASSUME LinkInv, BeginRun \/ Publish \/ BeginStop \/ EndStop PROVE LinkInv'
<1>. USE DEF LinkInv
<1>1. UNCHANGED <<viewVars, viewGone, outgoing, clients, served, wire>>
    BY DEF BeginRun, Publish, BeginStop, EndStop, StartStream, PublishImage, RequestStop, FinishStop,
           sockets
<1>2. Wires' /\ View'
    BY <1>1 DEF Wires, View, viewVars
<1>3. server' = "sending" => server = "sending"
    BY DEF BeginRun, Publish, BeginStop, EndStop, StartStream, PublishImage, RequestStop, FinishStop
<1>4. Listed'
    BY <1>1, <1>3 DEF Listed
<1>5. Counts'
    BY MaxFramesAssumption
    DEF BeginRun, Publish, BeginStop, EndStop, StartStream, PublishImage, RequestStop, FinishStop, Counts
<1>6. Thread'
    BY <1>1
    DEF BeginRun, Publish, BeginStop, EndStop, StartStream, PublishImage, RequestStop, FinishStop, Thread
<1>7. CASE BeginRun \/ Publish \/ BeginStop
    <2>1. conn' = conn /\ (listening => listening')
        BY <1>7 DEF BeginRun, Publish, BeginStop, StartStream, PublishImage, RequestStop, sockets
    <2>2. Held'
        BY <1>1, <2>1 DEF Held, InUse
    <2>. QED
        BY <1>2, <1>4, <1>5, <1>6, <2>2
<1>8. CASE EndStop
    <2>1. conn' = [c \in Sockets |-> IF conn[c] = "backlog" THEN "closed" ELSE conn[c]]
        BY <1>8 DEF EndStop, FinishStop
    <2>2. Held'
        BY <1>1, <2>1 DEF Held, InUse
    <2>. QED
        BY <1>2, <1>4, <1>5, <1>6, <2>2
<1>. QED
    BY <1>7, <1>8

\* A connection made is one that nobody held.
LEMMA ConnectedKeepsLink ==
    ASSUME LinkInv, NEW c \in Sockets, listening, Free(c), Connected(c), published' = published
    PROVE  Counts' /\ Thread' /\ Listed' /\ Held' /\ Wires'
<1>. USE DEF LinkInv
<1>1. /\ conn' = [conn EXCEPT ![c] = "backlog"] /\ wire' = [wire EXCEPT ![c] = <<>>]
      /\ UNCHANGED <<listening, stopping, latestFrame, latestSequence, server, sentSequence,
                     outgoing, clients, served>>
      /\ ~InUse(c)
    BY DEF Connected, Free
<1>2. Counts' /\ Thread' /\ Listed'
    <2>1. Counts'
        BY <1>1 DEF Counts
    <2>2. Thread'
        BY <1>1 DEF Thread
    <2>3. Listed'
        BY <1>1 DEF Listed
    <2>. QED
        BY <2>1, <2>2, <2>3
<1>3. Held'
    BY <1>1 DEF Held, InUse
<1>4. Wires'
    BY <1>1, EmptySeq, SocketRoomAssumption DEF Wires
<1>. QED
    BY <1>2, <1>3, <1>4

\* What the buffer keeps is a part of what it held and got.
LEMMA LastType ==
    ASSUME NEW E, NEW s \in Seq(E), NEW n \in Nat
    PROVE  /\ Last(s, n) \in Seq(E) /\ Len(Last(s, n)) <= n /\ Len(Last(s, n)) <= Len(s)
           /\ Len(s) > n => Len(Last(s, n)) = n
           /\ \A i \in 1..Len(Last(s, n)) : Last(s, n)[i] = s[i + (Len(s) - Len(Last(s, n)))]
<1>1. Len(s) \in Nat
    BY LenProperties
<1>2. CASE Len(s) > n
    <2>1. Len(s) - n + 1 \in 1..(Len(s) + 1) /\ Len(s) \in 0..Len(s)
        BY <1>1, <1>2
    <2>2. /\ SubSeq(s, Len(s) - n + 1, Len(s)) \in Seq(E)
          /\ Len(SubSeq(s, Len(s) - n + 1, Len(s))) =
                IF Len(s) - n + 1 <= Len(s) THEN Len(s) - (Len(s) - n + 1) + 1 ELSE 0
          /\ \A i \in 1..(Len(s) - (Len(s) - n + 1) + 1) :
                SubSeq(s, Len(s) - n + 1, Len(s))[i] = s[(Len(s) - n + 1) + i - 1]
        BY <2>1, PartType
    <2>3. /\ Len(SubSeq(s, Len(s) - n + 1, Len(s))) = n
          /\ \A i \in 1..n : (Len(s) - n + 1) + i - 1 = i + (Len(s) - n)
          /\ Len(s) - (Len(s) - n + 1) + 1 = n
        BY <1>1, <2>2
    <2>. DEFINE part == SubSeq(s, Len(s) - n + 1, Len(s))
    <2>4. part \in Seq(E) /\ Len(part) = n /\ \A i \in 1..n : part[i] = s[i + (Len(s) - n)]
        BY <2>2, <2>3
    <2>5. Last(s, n) = part
        BY <1>2 DEF Last
    <2>. HIDE DEF part
    <2>6. /\ part \in Seq(E) /\ Len(part) <= n /\ Len(part) <= Len(s) /\ Len(part) = n
          /\ \A i \in 1..Len(part) : part[i] = s[i + (Len(s) - Len(part))]
        BY <1>1, <1>2, <2>4
    <2>. QED
        BY <2>5, <2>6
<1>3. CASE ~(Len(s) > n)
    BY <1>1, <1>3 DEF Last
<1>. QED
    BY <1>2, <1>3

\* A set of positions has a last one; or else counting on from each would lead
\* from a finite set into itself without its first.
LEMMA LastExists ==
    ASSUME NEW n \in Nat, NEW T \in SUBSET (1..n), T # {}
    PROVE  \E i \in T : \A j \in T : j <= i
<1> SUFFICES ASSUME \A i \in T : \E j \in T : j > i PROVE FALSE
    OBVIOUS
<1>. DEFINE S == {i \in 0..n : \E j \in T : i <= j}
            next == [i \in S |-> i + 1]
<1>1. IsFiniteSet(S) /\ 0 \in S
    <2>1. IsFiniteSet(0..n) /\ S \in SUBSET (0..n)
        BY FS_Interval
    <2>2. 0 \in S
        <3>1. PICK j : j \in T
            OBVIOUS
        <3>2. j \in 1..n
            BY <3>1
        <3>. QED
            BY <3>1, <3>2
    <2>. HIDE DEF S
    <2>. QED
        BY <2>1, <2>2, FS_Subset
<1>2. next \in [S -> S \ {0}]
    <2> SUFFICES ASSUME NEW i \in S PROVE i + 1 \in S /\ i + 1 # 0
        OBVIOUS
    <2>1. PICK j \in T : i <= j
        OBVIOUS
    <2>2. PICK k \in T : k > j
        OBVIOUS
    <2>3. i + 1 <= k /\ k <= n
        BY <2>1, <2>2
    <2>. QED
        BY <2>3
<1>3. IsFiniteSet(S \ {0}) /\ Cardinality(S \ {0}) < Cardinality(S)
    <2>. HIDE DEF S
    <2>1. IsFiniteSet(S \ {0}) /\ Cardinality(S \ {0}) = Cardinality(S) - 1
        BY <1>1, FS_RemoveElement
    <2>2. Cardinality(S) \in Nat
        BY <1>1, FS_CardinalityType
    <2>. QED
        BY <2>1, <2>2
<1>4. PICK i \in S, j \in S : i # j /\ next[i] = next[j]
    <2>. HIDE DEF S, next
    <2>. QED
        BY <1>1, <1>2, <1>3, FS_PigeonHole
<1>. QED
    BY <1>4

LEMMA LastOfMarks ==
    ASSUME NEW n \in Nat, NEW mark, Marks(mark, n) # {}
    PROVE  /\ LastOf(Marks(mark, n)) \in 1..n
           /\ buffer[LastOf(Marks(mark, n))].mark = mark
           /\ \A j \in Marks(mark, n) : j <= LastOf(Marks(mark, n))
<1>. DEFINE T == Marks(mark, n)
<1>1. T \in SUBSET (1..n) /\ \A i \in T : buffer[i].mark = mark
    BY DEF Marks
<1>. HIDE DEF T
<1>2. \E i \in T : \A j \in T : j <= i
    BY <1>1, LastExists DEF T
<1>3. LastOf(T) \in T /\ \A j \in T : j <= LastOf(T)
    BY <1>2 DEF LastOf
<1>. QED
    BY <1>1, <1>3 DEF T

\* What is left after an image was taken out, or all was dropped.
LEMMA TakenType ==
    ASSUME View, ConsumeFrames
    PROVE  buffer' \in Seq(Mark) /\ Len(buffer') <= BufferLimit /\ (buffer = <<>> => buffer' = <<>>)
<1>1. Len(buffer) \in Nat /\ Len(buffer) <= BufferLimit
    BY LenProperties DEF View
<1>2. CASE buffer' = <<>>
    BY <1>2, EmptySeq, BufferAssumption
<1>3. CASE buffer' # <<>>
    <2>. DEFINE ends == Marks("end", Len(buffer))
                e == LastOf(ends)
    <2>1. ends # {} /\ buffer' = SubSeq(buffer, e + 1, Len(buffer))
        BY <1>3 DEF ConsumeFrames
    <2>2. e \in 1..Len(buffer) /\ buffer # <<>>
        BY <1>1, <2>1, LastOfMarks
    <2>. HIDE DEF e
    <2>3. e + 1 \in 1..(Len(buffer) + 1) /\ Len(buffer) \in 0..Len(buffer)
        BY <1>1, <2>2
    <2>4. /\ buffer' \in Seq(Mark)
          /\ Len(buffer') = IF e + 1 <= Len(buffer) THEN Len(buffer) - (e + 1) + 1 ELSE 0
        BY <2>1, <2>3, PartType DEF View
    <2>. QED
        BY <1>1, <2>2, <2>4, BufferAssumption
<1>. QED
    BY <1>2, <1>3

LEMMA TerminalKeepsLink == LinkInv /\ Terminal => LinkInv'
<1> SUFFICES ASSUME LinkInv, Terminal PROVE LinkInv'
    OBVIOUS
<1>. USE DEF LinkInv
<1>1. CASE Open
    <2>1. UNCHANGED <<published, viewGone>> /\ buffer' = <<>> /\ reconnectEnabled' = TRUE
          /\ timerActive' \in BOOLEAN
        BY <1>1 DEF Open, OpenStream, OpenInVain
    <2>2. buffer' \in Seq(Mark)' /\ Len(buffer') <= BufferLimit
        BY <2>1, EmptySeq, BufferAssumption
    <2>3. CASE OpenInVain /\ UNCHANGED streamerVars
        <3>1. reply' = reply
            BY <2>3 DEF OpenInVain
        <3>2. View'
            BY <2>1, <2>2, <3>1 DEF View
        <3>. QED
            BY <2>1, <2>3, <3>2 DEF Counts, Thread, Listed, Held, InUse, Wires, streamerVars
    <2>4. CASE \E c \in Sockets : listening /\ Free(c) /\ OpenStream(c) /\ Connected(c)
        <3>1. PICK c \in Sockets : listening /\ Free(c) /\ OpenStream(c) /\ Connected(c)
            BY <2>4
        <3>2. reply' = c /\ c # NoReply
            BY <3>1, SocketsAssumption DEF OpenStream
        <3>3. View'
            BY <2>1, <2>2, <3>2 DEF View
        <3>. QED
            BY <2>1, <3>1, <3>3, ConnectedKeepsLink
    <2>. QED
        BY <1>1, <2>3, <2>4 DEF Open
<1>2. CASE Receive
    <2>1. /\ reply \in Sockets
          /\ UNCHANGED <<listening, stopping, latestFrame, latestSequence, server, sentSequence,
                         outgoing, clients, served, conn, published, viewGone, reply,
                         reconnectEnabled, timerActive>>
        BY <1>2 DEF Receive, Connection, AppendBytes, View
    <2>2. PICK n \in 1..Len(wire[reply]) :
             /\ AppendBytes(SubSeq(wire[reply], 1, n))
             /\ wire' = [wire EXCEPT ![reply] = SubSeq(@, n + 1, Len(@))]
        BY <1>2 DEF Receive
    <2>3. wire[reply] \in Seq(Mark) /\ Len(wire[reply]) \in Nat /\ Len(wire[reply]) <= SocketRoom
        BY <2>1, LenProperties DEF Wires
    <2>4. Counts' /\ Thread' /\ Listed' /\ Held'
        BY <2>1 DEF Counts, Thread, Listed, Held, InUse
    <2>5. Wires'
        <3>. DEFINE rest == SubSeq(wire[reply], n + 1, Len(wire[reply]))
        <3>1. n + 1 \in 1..(Len(wire[reply]) + 1) /\ Len(wire[reply]) \in 0..Len(wire[reply])
            BY <2>3
        <3>2. /\ rest \in Seq(Mark)
              /\ Len(rest) = IF n + 1 <= Len(wire[reply]) THEN Len(wire[reply]) - (n + 1) + 1 ELSE 0
            BY <2>3, <3>1, PartType
        <3>3. Len(rest) <= SocketRoom
            BY <2>3, <3>2, SocketRoomAssumption
        <3>4. wire' = [wire EXCEPT ![reply] = rest]
            BY <2>2
        <3>. HIDE DEF rest
        <3>. QED
            BY <2>1, <3>2, <3>3, <3>4 DEF Wires
    <2>6. View'
        <3>. DEFINE longer == buffer \o SubSeq(wire[reply], 1, n)
        <3>1. SubSeq(wire[reply], 1, n) \in Seq(Mark)
            <4>1. n \in 0..Len(wire[reply])
                BY <2>3
            <4>. QED
                BY <2>3, <4>1, StartOfType
        <3>2. longer \in Seq(Mark) /\ Len(longer) \in Nat
            BY <3>1, ConcatProperties, LenProperties DEF View
        <3>3. buffer' = IF Len(longer) > BufferLimit THEN Last(longer, BufferKeep) ELSE longer
            BY <2>2 DEF AppendBytes
        <3>. HIDE DEF longer
        <3>4. /\ Last(longer, BufferKeep) \in Seq(Mark)
              /\ Len(Last(longer, BufferKeep)) <= BufferKeep
              /\ Len(Last(longer, BufferKeep)) \in Nat
            <4>1. BufferKeep \in Nat
                BY BufferAssumption
            <4>. DEFINE kept == Last(longer, BufferKeep)
            <4>2. kept \in Seq(Mark) /\ Len(kept) <= BufferKeep
                BY <3>2, <4>1, LastType
            <4>. HIDE DEF kept
            <4>3. Len(kept) \in Nat
                BY <4>2, LenProperties
            <4>. QED
                BY <4>2, <4>3 DEF kept
        <3>5. buffer' \in Seq(Mark) /\ Len(buffer') <= BufferLimit
            BY <3>2, <3>3, <3>4, BufferAssumption
        <3>. QED
            BY <2>1, <3>5, SocketsAssumption DEF View
    <2>. QED
        BY <2>4, <2>5, <2>6
<1>3. CASE Finished
    <2>1. UNCHANGED <<streamerVars, published, viewGone, reconnectEnabled>>
          /\ reply' = NoReply /\ buffer' = <<>> /\ timerActive' = (timerActive \/ reconnectEnabled)
        BY <1>3 DEF Finished, ReplyFinished
    <2>2. buffer' \in Seq(Mark)' /\ Len(buffer') <= BufferLimit
        BY <2>1, EmptySeq, BufferAssumption
    <2>3. View'
        BY <2>1, <2>2 DEF View
    <2>. QED
        BY <2>1, <2>3 DEF Counts, Thread, Listed, Held, InUse, Wires, streamerVars
<1>4. CASE Decode
    <2>1. UNCHANGED <<streamerVars, published, viewGone, reconnectEnabled, timerActive, reply>>
        BY <1>4 DEF Decode, ConsumeFrames
    <2>2. buffer' \in Seq(Mark) /\ Len(buffer') <= BufferLimit /\ (buffer = <<>> => buffer' = <<>>)
        BY <1>4, TakenType DEF Decode
    <2>3. View'
        BY <2>1, <2>2 DEF View
    <2>. QED
        BY <2>1, <2>3 DEF Counts, Thread, Listed, Held, InUse, Wires, streamerVars
<1>5. CASE CloseView
    <2>1. /\ UNCHANGED <<listening, stopping, latestFrame, latestSequence, server, sentSequence,
                         outgoing, clients, served, wire, published>>
          /\ conn' = [c \in Sockets |-> IF c = reply /\ conn[c] = "open" THEN "broken" ELSE conn[c]]
          /\ viewGone' = TRUE /\ reconnectEnabled' = FALSE /\ timerActive' = FALSE
          /\ reply' = NoReply /\ buffer' = <<>>
        BY <1>5 DEF CloseView, StopView
    <2>2. buffer' \in Seq(Mark)' /\ Len(buffer') <= BufferLimit
        BY <2>1, EmptySeq, BufferAssumption
    <2>3. View'
        BY <2>1, <2>2 DEF View
    <2>4. Held'
        BY <2>1 DEF Held, InUse
    <2>. QED
        BY <2>1, <2>3, <2>4 DEF Counts, Thread, Listed, Wires
<1>. QED
    BY <1>1, <1>2, <1>3, <1>4, <1>5 DEF Terminal

LEMMA OthersKeepLink == LinkInv /\ (OtherConnects \/ Break) => LinkInv'
<1> SUFFICES ASSUME LinkInv, OtherConnects \/ Break PROVE LinkInv'
    OBVIOUS
<1>. USE DEF LinkInv
<1>1. UNCHANGED <<viewVars, published, viewGone>>
    BY DEF OtherConnects, Break
<1>2. View'
    BY <1>1 DEF View, viewVars
<1>3. CASE OtherConnects
    BY <1>1, <1>2, <1>3, ConnectedKeepsLink DEF OtherConnects
<1>4. CASE Break
    <2>1. PICK c \in Sockets : conn[c] = "open" /\ conn' = [conn EXCEPT ![c] = "broken"]
        BY <1>4 DEF Break
    <2>2. UNCHANGED <<listening, stopping, latestFrame, latestSequence, server, sentSequence,
                      outgoing, clients, served, wire>>
        BY <1>4 DEF Break
    <2>3. Held'
        BY <2>1, <2>2 DEF Held, InUse
    <2>. QED
        BY <1>1, <1>2, <2>2, <2>3 DEF Counts, Thread, Listed, Wires
<1>. QED
    BY <1>3, <1>4

LEMMA LinkCorrect == SafeSpec => []LinkInv
<1>1. LinkInv /\ UNCHANGED vars => LinkInv'
    BY DEF LinkInv, vars, streamerVars, viewVars, Counts, Thread, Listed, Held, InUse, Wires, View
<1>2. LinkInv /\ [Next]_vars => LinkInv'
    BY <1>1, OwnerKeepsLink, ServerKeepsLink, TerminalKeepsLink, OthersKeepLink DEF Next, Ended
<1>. QED
    BY <1>2, InitLink, PTL DEF SafeSpec

\* The types of both ends of the video link; no client is listed twice, and a
\* wire never holds more than its room.
THEOREM TypeCorrect == SafeSpec => []TypeOK
<1>1. LinkInv => TypeOK
    <2> SUFFICES ASSUME LinkInv PROVE TypeOK
        OBVIOUS
    <2>1. DOMAIN clients = 1..Len(clients)
        BY LenProperties DEF LinkInv, Listed
    <2>. QED
        BY <2>1 DEF LinkInv, Counts, Thread, Listed, Held, Wires, View, TypeOK
<1>. QED
    BY <1>1, LinkCorrect, PTL

\* MjpegStreamer::stop: when it has returned, serve() has left and each connection
\* of the run, accepted or not, is closed.
THEOREM NothingLeftOpenCorrect == SafeSpec => []NothingLeftOpen
<1>1. LinkInv => NothingLeftOpen
    BY NobodyInUse DEF LinkInv, Thread, Held, NothingLeftOpen
<1>. QED
    BY <1>1, LinkCorrect, PTL
----------------------------------------------------------------------------
(* The pictures on their way. *)

\* After a start comes its own end, after an end a start; frames never go back.
Ordered(s) ==
    /\ \A i \in 1..(Len(s) - 1) :
          IF s[i].mark = "start" THEN s[i + 1] = [mark |-> "end", frame |-> s[i].frame]
                                 ELSE s[i + 1].mark = "start"
    /\ \A i, j \in 1..Len(s) : i <= j => s[i].frame <= s[j].frame

Complete(s) == s # <<>> => s[Len(s)].mark = "end"
UpTo(s, f) == \A i \in 1..Len(s) : s[i].frame <= f
From(s, f) == \A i \in 1..Len(s) : f <= s[i].frame

\* The front may be missing: the buffer was cut, or an image taken out.
LEMMA BackStaysOrdered ==
    ASSUME NEW s \in Seq(Mark), NEW t \in Seq(Mark), Len(t) <= Len(s),
           \A i \in 1..Len(t) : t[i] = s[i + (Len(s) - Len(t))]
    PROVE  /\ Ordered(s) => Ordered(t)
           /\ Complete(s) => Complete(t)
           /\ \A f : UpTo(s, f) => UpTo(t, f)
           /\ \A f : From(s, f) => From(t, f)
<1>. DEFINE d == Len(s) - Len(t)
<1>1. Len(s) \in Nat /\ Len(t) \in Nat /\ d \in Nat
    BY LenProperties
<1>2. \A i \in 1..Len(t) : i + d \in 1..Len(s) /\ t[i] = s[i + d]
    BY <1>1
<1>3. ASSUME Ordered(s) PROVE Ordered(t)
    <2>1. ASSUME NEW i \in 1..(Len(t) - 1)
          PROVE  IF t[i].mark = "start" THEN t[i + 1] = [mark |-> "end", frame |-> t[i].frame]
                                        ELSE t[i + 1].mark = "start"
        <3>1. i + d \in 1..(Len(s) - 1) /\ (i + 1) + d = (i + d) + 1 /\ i \in 1..Len(t)
              /\ i + 1 \in 1..Len(t)
            BY <1>1
        <3>2. t[i] = s[i + d] /\ t[i + 1] = s[(i + d) + 1]
            BY <1>2, <3>1
        <3>. HIDE DEF d
        <3>. QED
            BY <1>3, <3>1, <3>2 DEF Ordered
    <2>2. ASSUME NEW i \in 1..Len(t), NEW j \in 1..Len(t), i <= j PROVE t[i].frame <= t[j].frame
        <3>1. i + d <= j + d
            BY <1>1, <2>2
        <3>. HIDE DEF d
        <3>. QED
            BY <1>2, <1>3, <3>1 DEF Ordered
    <2>. QED
        BY <2>1, <2>2 DEF Ordered
<1>4. ASSUME Complete(s), t # <<>> PROVE t[Len(t)].mark = "end"
    <2>1. Len(t) \in 1..Len(t)
        BY <1>1, <1>4, EmptySeq
    <2>2. t[Len(t)] = s[Len(t) + d] /\ Len(t) + d = Len(s) /\ Len(s) # 0
        BY <1>1, <1>2, <2>1
    <2>3. s # <<>>
        BY <2>2
    <2>. QED
        BY <1>4, <2>2, <2>3 DEF Complete
<1>5. \A f : UpTo(s, f) => UpTo(t, f)
    <2>. HIDE DEF d
    <2>. QED
        BY <1>2 DEF UpTo
<1>6. \A f : From(s, f) => From(t, f)
    <2>. HIDE DEF d
    <2>. QED
        BY <1>2 DEF From
<1>. QED
    BY <1>3, <1>4, <1>5, <1>6 DEF Complete

\* A picture, or the start of one, behind pictures that are whole and not newer.
LEMMA PictureStaysOrdered ==
    ASSUME NEW s \in Seq(Mark), Ordered(s), Complete(s), NEW f \in 1..MaxFrames, UpTo(s, f),
           NEW n \in 0..2
    PROVE  LET t == s \o SubSeq(Picture(f), 1, n)
           IN  /\ Ordered(t) /\ UpTo(t, f)
               /\ n = 2 => Complete(t)
               /\ \A g \in 1..f : From(s, g) => From(t, g)
<1>. DEFINE p == SubSeq(Picture(f), 1, n)
            t == s \o p
<1>1. Len(s) \in Nat /\ \A i \in 1..Len(s) : s[i] \in Mark
    BY LenProperties, ElementOfSeq
<1>2. p \in Seq(Mark) /\ Len(p) = n /\ \A i \in 1..n : p[i] = Picture(f)[i]
    <2>1. /\ Picture(f) \in Seq(Mark) /\ Len(Picture(f)) = 2
        BY PictureType
    <2>2. 1 \in 1..(Len(Picture(f)) + 1) /\ n \in 0..Len(Picture(f))
        BY <2>1
    <2>3. /\ p \in Seq(Mark) /\ Len(p) = IF 1 <= n THEN n - 1 + 1 ELSE 0
          /\ \A i \in 1..(n - 1 + 1) : p[i] = Picture(f)[1 + i - 1]
        BY <2>1, <2>2, PartType
    <2>. QED
        BY <2>3
<1>3. \A i \in 1..n : p[i] = [mark |-> IF i = 1 THEN "start" ELSE "end", frame |-> f]
    <2>1. \A i \in 1..n : i = 1 \/ i = 2
        OBVIOUS
    <2>2. Picture(f)[1] = [mark |-> "start", frame |-> f] /\ Picture(f)[2] = [mark |-> "end", frame |-> f]
        BY PictureType
    <2>. HIDE DEF p
    <2>3. ASSUME NEW i \in 1..n PROVE p[i] = [mark |-> IF i = 1 THEN "start" ELSE "end", frame |-> f]
        <3>1. p[i] = Picture(f)[i]
            BY <1>2
        <3>2. i = 1 \/ (i = 2 /\ i # 1)
            BY <2>1
        <3>. QED
            BY <2>2, <3>1, <3>2
    <2>. QED
        BY <2>3
<1>. HIDE DEF p
<1>4. /\ t \in Seq(Mark) /\ Len(t) = Len(s) + n
      /\ \A i \in 1..(Len(s) + n) : t[i] = IF i <= Len(s) THEN s[i] ELSE p[i - Len(s)]
    BY <1>2, ConcatProperties
<1>5. \A i \in 1..Len(t) : \/ i \in 1..Len(s) /\ t[i] = s[i]
                           \/ i = Len(s) + 1 /\ n >= 1 /\ t[i] = [mark |-> "start", frame |-> f]
                           \/ i = Len(s) + 2 /\ n = 2 /\ t[i] = [mark |-> "end", frame |-> f]
    <2> SUFFICES ASSUME NEW i \in 1..(Len(s) + n), ~(i <= Len(s))
                 PROVE  \/ i = Len(s) + 1 /\ n >= 1 /\ t[i] = [mark |-> "start", frame |-> f]
                        \/ i = Len(s) + 2 /\ n = 2 /\ t[i] = [mark |-> "end", frame |-> f]
        BY <1>1, <1>4
    <2>1. i - Len(s) \in 1..n /\ t[i] = p[i - Len(s)]
        BY <1>1, <1>4
    <2>2. t[i] = [mark |-> IF i - Len(s) = 1 THEN "start" ELSE "end", frame |-> f]
        BY <1>3, <2>1
    <2>3. i - Len(s) = 1 \/ (i - Len(s) = 2 /\ n = 2)
        BY <2>1
    <2>. QED
        BY <1>1, <2>2, <2>3
<1>. HIDE DEF t
<1>6. UpTo(t, f)
    BY <1>1, <1>5 DEF UpTo
<1>7. \A g \in 1..f : From(s, g) => From(t, g)
    BY <1>1, <1>5 DEF From
<1>8. n = 2 => Complete(t)
    <2> SUFFICES ASSUME n = 2 PROVE t[Len(t)].mark = "end"
        BY DEF Complete
    <2>1. Len(t) \in 1..Len(t) /\ Len(t) = Len(s) + 2
        BY <1>1, <1>4
    <2>. QED
        BY <1>1, <1>5, <2>1
<1>9. \A i, j \in 1..Len(t) : i <= j => t[i].frame <= t[j].frame
    <2> SUFFICES ASSUME NEW i \in 1..Len(t), NEW j \in 1..Len(t), i <= j
                 PROVE  t[i].frame <= t[j].frame
        OBVIOUS
    <2>1. CASE i \in 1..Len(s) /\ j \in 1..Len(s)
        BY <1>1, <1>5, <2>1 DEF Ordered
    <2>2. CASE j \notin 1..Len(s)
        <3>1. t[j].frame = f
            BY <1>5, <2>2
        <3>. QED
            BY <1>6, <3>1 DEF UpTo
    <2>3. CASE i \notin 1..Len(s) /\ j \in 1..Len(s)
        BY <1>1, <1>4, <2>3
    <2>. QED
        BY <2>1, <2>2, <2>3
<1>10. ASSUME NEW i \in 1..(Len(t) - 1)
       PROVE  IF t[i].mark = "start" THEN t[i + 1] = [mark |-> "end", frame |-> t[i].frame]
                                     ELSE t[i + 1].mark = "start"
    <2>1. i \in 1..Len(t) /\ i + 1 \in 1..Len(t)
        BY <1>1, <1>4
    <2>2. CASE i + 1 \in 1..Len(s)
        <3>1. t[i] = s[i] /\ t[i + 1] = s[i + 1] /\ i \in 1..(Len(s) - 1)
            BY <1>1, <1>5, <2>1, <2>2
        <3>. QED
            BY <3>1 DEF Ordered
    <2>3. CASE i = Len(s)
        <3>1. t[i] = s[Len(s)] /\ t[i + 1].mark = "start"
            BY <1>1, <1>5, <2>1, <2>3
        <3>2. s # <<>>
            BY <2>3
        <3>. QED
            BY <3>1, <3>2 DEF Complete
    <2>4. CASE i = Len(s) + 1
        BY <1>1, <1>5, <2>1, <2>4
    <2>5. i + 1 \in 1..Len(s) \/ i = Len(s) \/ i = Len(s) + 1
        BY <1>1, <1>4
    <2>. QED
        BY <2>2, <2>3, <2>4, <2>5
<1>11. Ordered(t)
    BY <1>9, <1>10 DEF Ordered
<1>. QED
    BY <1>6, <1>7, <1>8, <1>11 DEF t, p

----------------------------------------------------------------------------
(* What the view holds and will still be given is such a sequence. *)

Live == Connection("backlog") \/ Connection("open")

\* The newest frame that can have been written.
Ceiling == IF server = "sending" THEN outgoing ELSE published

Pictures ==
    /\ Ordered(Incoming)
    /\ Live => Complete(Incoming)
    /\ UpTo(Incoming, Ceiling)
    /\ currentFrame # <<>> => \E f \in 1..Ceiling : currentFrame = Picture(f) /\ From(Incoming, f)

IsBack(t, s) ==
    Len(t) <= Len(s) /\ \A i \in 1..Len(t) : t[i] = s[i + (Len(s) - Len(t))]

LEMMA IncomingType ==
    LinkInv => /\ Incoming \in Seq(Mark) /\ Ceiling \in 0..MaxFrames /\ Ceiling <= published
               /\ published \in 0..MaxFrames
<1> SUFFICES ASSUME LinkInv
             PROVE  /\ Incoming \in Seq(Mark) /\ Ceiling \in 0..MaxFrames /\ Ceiling <= published
                    /\ published \in 0..MaxFrames
    OBVIOUS
<1>. DEFINE w == IF reply = NoReply THEN <<>> ELSE wire[reply]
<1>1. w \in Seq(Mark) /\ buffer \in Seq(Mark)
    BY EmptySeq DEF LinkInv, View, Wires
<1>2. buffer \o w \in Seq(Mark)
    <2>. HIDE DEF w
    <2>. QED
        BY <1>1, ConcatProperties
<1>3. Ceiling \in 0..MaxFrames /\ Ceiling <= published /\ published \in 0..MaxFrames
    BY MaxFramesAssumption DEF LinkInv, Counts, Ceiling
<1>. QED
    BY <1>2, <1>3 DEF Incoming

\* A part of what was on its way stays, its end, and the picture shown with it or
\* a newer one.
LEMMA BackKeepsPictures ==
    ASSUME LinkInv, LinkInv', Pictures, Ceiling <= Ceiling',
           IsBack(Incoming', Incoming), Live' => Live \/ Incoming' = <<>>,
           \/ currentFrame' = <<>> \/ currentFrame' = currentFrame
           \/ \E f \in 1..Ceiling : currentFrame' = Picture(f) /\ From(Incoming', f)
    PROVE  Pictures'
<1>. DEFINE s == Incoming
            t == Incoming'
<1>1. (LinkInv => Incoming \in Seq(Mark) /\ Ceiling \in 0..MaxFrames)'
    BY IncomingType, PTL
<1>2. s \in Seq(Mark) /\ t \in Seq(Mark) /\ Ceiling \in 0..MaxFrames /\ Ceiling' \in 0..MaxFrames
    BY <1>1, IncomingType
<1>3. /\ Len(t) <= Len(s) /\ \A i \in 1..Len(t) : t[i] = s[i + (Len(s) - Len(t))]
    BY DEF IsBack
<1>. HIDE DEF s, t
<1>4. /\ Ordered(s) => Ordered(t)
      /\ Complete(s) => Complete(t)
      /\ \A f : UpTo(s, f) => UpTo(t, f)
      /\ \A f : From(s, f) => From(t, f)
    BY <1>2, <1>3, BackStaysOrdered
<1>5. Ordered(s) /\ (Live => Complete(s)) /\ UpTo(s, Ceiling)
    BY DEF Pictures, s
<1>6. Ordered(t) /\ UpTo(t, Ceiling')
    <2>1. \A i \in 1..Len(t) : t[i] \in Mark
        BY <1>2, ElementOfSeq
    <2>2. \A i \in 1..Len(t) : t[i].frame \in 1..MaxFrames
        BY <2>1 DEF Mark
    <2>3. UpTo(t, Ceiling)
        BY <1>4, <1>5
    <2>4. \A i \in 1..Len(t) : t[i].frame <= Ceiling'
        BY <1>2, <2>2, <2>3, MaxFramesAssumption DEF UpTo
    <2>. QED
        BY <1>4, <1>5, <2>4 DEF UpTo
<1>7. Live' => Complete(t)
    BY <1>4, <1>5 DEF t, Complete
<1>8. currentFrame' # <<>> => \E f \in 1..Ceiling' : currentFrame' = Picture(f) /\ From(t, f)
    <2> SUFFICES ASSUME currentFrame' # <<>>
                 PROVE  \E f \in 1..Ceiling' : currentFrame' = Picture(f) /\ From(t, f)
        OBVIOUS
    <2>1. \E f \in 1..Ceiling : currentFrame' = Picture(f) /\ From(t, f)
        BY <1>4 DEF s, t, Pictures
    <2>. QED
        BY <1>2, <2>1
<1>. QED
    BY <1>6, <1>7, <1>8 DEF t, Pictures

\* The picture sent, or the start of one, is put behind what was on its way.
LEMMA WriteKeepsPictures ==
    ASSUME LinkInv, LinkInv', Pictures, server = "sending", Live, NEW n \in 0..2,
           Ceiling' = Ceiling, currentFrame' = currentFrame,
           Incoming' = Incoming \o SubSeq(Picture(outgoing), 1, n), Live' => n = 2
    PROVE  Pictures'
<1>. DEFINE s == Incoming
            t == Incoming'
<1>1. s \in Seq(Mark) /\ outgoing \in 1..MaxFrames /\ Ceiling = outgoing
    <2>1. Ceiling = outgoing /\ outgoing \in 1..published /\ published \in 0..MaxFrames
        BY IncomingType DEF Ceiling, LinkInv, Counts
    <2>. QED
        BY <2>1, IncomingType
<1>2. Ordered(s) /\ Complete(s) /\ UpTo(s, outgoing)
    BY <1>1 DEF Pictures, s
<1>3. t = s \o SubSeq(Picture(outgoing), 1, n)
    OBVIOUS
<1>. HIDE DEF s, t
<1>4. /\ Ordered(t) /\ UpTo(t, outgoing)
      /\ n = 2 => Complete(t)
      /\ \A g \in 1..outgoing : From(s, g) => From(t, g)
    BY <1>1, <1>2, <1>3, PictureStaysOrdered
<1>5. currentFrame' # <<>> => \E f \in 1..outgoing : currentFrame' = Picture(f) /\ From(t, f)
    BY <1>1, <1>4 DEF Pictures, s
<1>6. Ceiling' = outgoing
    BY <1>1
<1>. QED
    BY <1>4, <1>5, <1>6 DEF Pictures, t

\* What is cut off the front of the first part is cut off the front of both.
LEMMA BackOfConcat ==
    ASSUME NEW s \in Seq(Mark), NEW t \in Seq(Mark), NEW w \in Seq(Mark), IsBack(t, s)
    PROVE  IsBack(t \o w, s \o w)
<1>1. Len(s) \in Nat /\ Len(t) \in Nat /\ Len(w) \in Nat
    BY LenProperties
<1>2. /\ Len(s \o w) = Len(s) + Len(w)
      /\ \A i \in 1..(Len(s) + Len(w)) : (s \o w)[i] = IF i <= Len(s) THEN s[i] ELSE w[i - Len(s)]
    BY ConcatProperties
<1>3. /\ Len(t \o w) = Len(t) + Len(w)
      /\ \A i \in 1..(Len(t) + Len(w)) : (t \o w)[i] = IF i <= Len(t) THEN t[i] ELSE w[i - Len(t)]
    BY ConcatProperties
<1>4. Len(t) <= Len(s) /\ \A i \in 1..Len(t) : t[i] = s[i + (Len(s) - Len(t))]
    BY DEF IsBack
<1>. DEFINE d == Len(s) - Len(t)
<1>5. d \in Nat /\ Len(s) = Len(t) + d /\ Len(s \o w) - Len(t \o w) = d
    BY <1>1, <1>2, <1>3, <1>4
<1>6. ASSUME NEW i \in 1..(Len(t) + Len(w)) PROVE (t \o w)[i] = (s \o w)[i + d]
    <2>1. i + d \in 1..(Len(s) + Len(w)) /\ (i <= Len(t) <=> i + d <= Len(s))
          /\ (i + d) - Len(s) = i - Len(t)
        BY <1>1, <1>5
    <2>2. CASE i <= Len(t)
        <3>1. i \in 1..Len(t) /\ i + d <= Len(s)
            BY <2>1, <2>2
        <3>2. (t \o w)[i] = t[i] /\ (s \o w)[i + d] = s[i + d]
            BY <1>2, <1>3, <2>1, <2>2, <3>1
        <3>. QED
            BY <1>4, <3>1, <3>2
    <2>3. CASE ~(i <= Len(t))
        <3>1. (t \o w)[i] = w[i - Len(t)]
            BY <1>3, <2>3
        <3>2. (s \o w)[i + d] = w[(i + d) - Len(s)]
            BY <1>2, <2>1, <2>3
        <3>. QED
            BY <2>1, <3>1, <3>2
    <2>. QED
        BY <2>2, <2>3
<1>7. Len(t \o w) <= Len(s \o w)
    BY <1>1, <1>2, <1>3, <1>4
<1>. HIDE DEF d
<1>8. \A i \in 1..Len(t \o w) : (t \o w)[i] = (s \o w)[i + (Len(s \o w) - Len(t \o w))]
    BY <1>3, <1>5, <1>6
<1>. QED
    BY <1>7, <1>8 DEF IsBack

LEMMA SameIsBack == ASSUME NEW s \in Seq(Mark) PROVE IsBack(s, s) /\ IsBack(<<>>, s)
<1>1. Len(s) \in Nat /\ Len(<<>>) = 0
    BY LenProperties, EmptySeq
<1>2. Len(s) - Len(s) = 0 /\ Len(s) <= Len(s) /\ 0 <= Len(s) /\ \A i \in 1..Len(s) : i + 0 = i
    BY <1>1
<1>3. IsBack(s, s)
    BY <1>2 DEF IsBack
<1>4. IsBack(<<>>, s)
    BY <1>1, <1>2 DEF IsBack
<1>. QED
    BY <1>3, <1>4

\* The bound on the frames on their way only rises.
LEMMA CeilingRises ==
    ASSUME LinkInv, Next PROVE Ceiling <= Ceiling'
<1>1. Counts /\ Thread
    BY DEF LinkInv
<1>2. CASE UNCHANGED <<server, outgoing, published>>
    <2>1. Ceiling' = Ceiling
        BY <1>2 DEF Ceiling
    <2>. QED
        BY <2>1, IncomingType
<1>3. CASE BeginRun \/ Publish \/ EndStop
    <2>1. outgoing' = outgoing /\ (server' = server \/ (server # "sending" /\ server' # "sending"))
        <3>1. CASE BeginRun
            BY <1>1, <3>1 DEF BeginRun, StartStream, Thread
        <3>2. CASE Publish
            BY <3>2 DEF Publish, PublishImage
        <3>3. CASE EndStop
            BY <3>3 DEF EndStop, FinishStop
        <3>. QED
            BY <1>3, <3>1, <3>2, <3>3
    <2>2. published' = published \/ published' = published + 1
        BY <1>3 DEF BeginRun, Publish, EndStop
    <2>. QED
        BY <1>1, <2>1, <2>2 DEF Ceiling, Counts
<1>4. CASE Server
    <2>1. published' = published
        BY <1>4 DEF Server
    <2>2. CASE PickFrame
        <3>1. server = "waiting" /\ server' = "sending" /\ outgoing' = published
            BY <1>1, <2>2 DEF PickFrame, Counts
        <3>. QED
            BY <1>1, <2>1, <3>1 DEF Ceiling, Counts
    <2>3. CASE ~PickFrame
        <3>1. /\ server' = "sending" => server = "sending" /\ outgoing' = outgoing
              /\ server = "sending" => server' # "sending" \/ outgoing' = outgoing
            BY <1>4, <2>3 DEF Server, Serve, Accept, AcceptNoMore, Leave, WaitInVain, SendWhole,
                              DropClient, PassDone
        <3>. QED
            BY <1>1, <2>1, <3>1 DEF Ceiling, Counts
    <2>. QED
        BY <2>2, <2>3
<1>5. CASE BeginStop \/ Terminal \/ OtherConnects \/ Break \/ Ended
    <2>1. UNCHANGED <<server, outgoing, published>>
        BY <1>5 DEF BeginStop, RequestStop, Terminal, Open, Connected, Receive, Finished, Decode, CloseView,
                    OtherConnects, Break, Ended, vars, streamerVars
    <2>. QED
        BY <1>2, <2>1
<1>. QED
    BY <1>3, <1>4, <1>5 DEF Next

\* What is taken for an image is the whole picture whose end was found.
LEMMA ImageIsPicture ==
    ASSUME LinkInv, Pictures, NEW e \in 1..Len(buffer), buffer[e].mark = "end", Image(e) # <<>>
    PROVE  /\ Image(e) = Picture(buffer[e].frame)
           /\ e \in 1..Len(Incoming) /\ Incoming[e] = buffer[e]
<1>. DEFINE starts == Marks("start", e)
            k == LastOf(starts)
            f == buffer[e].frame
<1>1. Len(buffer) \in Nat /\ \A i \in 1..Len(buffer) : buffer[i] \in Mark /\ Incoming[i] = buffer[i]
    <2>. DEFINE w == IF reply = NoReply THEN <<>> ELSE wire[reply]
    <2>1. w \in Seq(Mark) /\ buffer \in Seq(Mark)
        BY EmptySeq DEF LinkInv, View, Wires
    <2>2. Incoming = buffer \o w
        BY DEF Incoming
    <2>. HIDE DEF w
    <2>3. Len(buffer) \in Nat /\ Len(w) \in Nat
        BY <2>1, LenProperties
    <2>4. \A i \in 1..(Len(buffer) + Len(w)) :
             (buffer \o w)[i] = IF i <= Len(buffer) THEN buffer[i] ELSE w[i - Len(buffer)]
        BY <2>1, ConcatProperties
    <2>5. \A i \in 1..Len(buffer) : (buffer \o w)[i] = buffer[i]
        BY <2>3, <2>4
    <2>. QED
        BY <2>1, <2>2, <2>3, <2>5, ElementOfSeq
<1>2. Len(Incoming) \in Nat /\ Len(buffer) <= Len(Incoming)
    <2>. DEFINE w == IF reply = NoReply THEN <<>> ELSE wire[reply]
    <2>1. w \in Seq(Mark) /\ buffer \in Seq(Mark)
        BY EmptySeq DEF LinkInv, View, Wires
    <2>2. Incoming = buffer \o w
        BY DEF Incoming
    <2>. HIDE DEF w
    <2>3. Len(buffer) \in Nat /\ Len(w) \in Nat /\ Len(buffer \o w) = Len(buffer) + Len(w)
        BY <2>1, LenProperties, ConcatProperties
    <2>. QED
        BY <2>2, <2>3
<1>3. starts # {} /\ Image(e) = SubSeq(buffer, k, e)
    BY DEF Image
<1>4. k \in 1..e /\ buffer[k].mark = "start" /\ \A j \in starts : j <= k
    <2>1. e \in Nat
        BY <1>1
    <2>. QED
        BY <1>3, <2>1, LastOfMarks
<1>. HIDE DEF k
<1>5. k < e /\ k \in 1..(Len(Incoming) - 1) /\ k \in 1..Len(buffer) /\ k + 1 \in 1..Len(buffer)
    BY <1>1, <1>2, <1>4
<1>6. buffer[k + 1] = [mark |-> "end", frame |-> buffer[k].frame]
    BY <1>1, <1>4, <1>5 DEF Pictures, Ordered
<1>7. k + 1 = e
    <2> SUFFICES ASSUME k + 1 < e PROVE FALSE
        BY <1>4, <1>5
    <2>1. k + 1 \in 1..(Len(Incoming) - 1) /\ (k + 1) + 1 \in 1..Len(buffer) /\ k + 2 \in 1..e
          /\ (k + 1) + 1 = k + 2
        BY <1>1, <1>2, <1>4
    <2>2. buffer[k + 2].mark = "start"
        <3>1. Incoming[k + 1] = buffer[k + 1] /\ Incoming[k + 2] = buffer[k + 2]
            BY <1>1, <1>5, <2>1
        <3>2. Incoming[k + 1].mark = "end"
            BY <1>6, <3>1
        <3>3. IF Incoming[k + 1].mark = "start"
                THEN Incoming[(k + 1) + 1] = [mark |-> "end", frame |-> Incoming[k + 1].frame]
                ELSE Incoming[(k + 1) + 1].mark = "start"
            BY <2>1 DEF Pictures, Ordered
        <3>. QED
            BY <2>1, <3>1, <3>2, <3>3
    <2>3. k + 2 \in starts
        BY <2>1, <2>2 DEF Marks
    <2>. QED
        BY <1>4, <2>3
<1>8. f \in 1..MaxFrames /\ buffer[k] = [mark |-> "start", frame |-> f]
      /\ buffer[e] = [mark |-> "end", frame |-> f]
    BY <1>1, <1>4, <1>5, <1>6, <1>7 DEF Mark
<1>9. Picture(f) \in Seq(Mark) /\ Len(Picture(f)) = 2 /\ Picture(f)[1] = buffer[k]
      /\ Picture(f)[2] = buffer[k + 1]
    BY <1>7, <1>8, PictureType
<1>10. SubSeq(buffer, k, e) \in Seq(Mark) /\ Len(SubSeq(buffer, k, e)) = 2
       /\ SubSeq(buffer, k, e)[1] = buffer[k] /\ SubSeq(buffer, k, e)[2] = buffer[k + 1]
    <2>1. k \in 1..(Len(buffer) + 1) /\ e \in 0..Len(buffer) /\ buffer \in Seq(Mark)
          /\ e - k + 1 = 2 /\ k <= e
        BY <1>1, <1>5, <1>7 DEF LinkInv, View
    <2>2. /\ SubSeq(buffer, k, e) \in Seq(Mark) /\ Len(SubSeq(buffer, k, e)) = e - k + 1
          /\ \A i \in 1..(e - k + 1) : SubSeq(buffer, k, e)[i] = buffer[k + i - 1]
        BY <2>1, PartType
    <2>3. 1 \in 1..(e - k + 1) /\ 2 \in 1..(e - k + 1) /\ k + 1 - 1 = k /\ k + 2 - 1 = k + 1
        BY <1>4, <2>1
    <2>. QED
        BY <2>1, <2>2, <2>3
<1>. HIDE DEF f
<1>11. SubSeq(buffer, k, e) = Picture(f)
    <2>. DEFINE a == SubSeq(buffer, k, e)
                b == Picture(f)
    <2>1. a \in Seq(Mark) /\ b \in Seq(Mark) /\ Len(a) = Len(b) /\ Len(a) = 2
          /\ a[1] = b[1] /\ a[2] = b[2]
        BY <1>9, <1>10
    <2>. HIDE DEF a, b
    <2>2. \A i \in 1..Len(a) : a[i] = b[i]
        <3>1. \A i \in 1..2 : i = 1 \/ i = 2
            OBVIOUS
        <3>. QED
            BY <2>1, <3>1
    <2>3. a = b
        BY <2>1, <2>2, SeqEqual
    <2>. QED
        BY <2>3 DEF a, b
<1>12. e \in 1..Len(Incoming) /\ Incoming[e] = buffer[e]
    BY <1>1, <1>2
<1>. QED
    BY <1>3, <1>11, <1>12 DEF f

LEMMA DecodeShows ==
    ASSUME LinkInv, Pictures, Decode, currentFrame' # currentFrame
    PROVE  \E e \in 1..Len(Incoming) : currentFrame' = Picture(Incoming[e].frame)
<1>. DEFINE e == LastOf(Marks("end", Len(buffer)))
<1>1. Len(buffer) \in Nat
    BY LenProperties DEF LinkInv, View
<1>2. /\ Marks("end", Len(buffer)) # {} /\ Image(e) # <<>>
      /\ currentFrame' \in Decoded(Image(e))
    BY DEF Decode, ConsumeFrames
<1>3. e \in 1..Len(buffer) /\ buffer[e].mark = "end"
    BY <1>1, <1>2, LastOfMarks
<1>. HIDE DEF e
<1>4. Image(e) = Picture(buffer[e].frame) /\ e \in 1..Len(Incoming) /\ Incoming[e] = buffer[e]
    BY <1>2, <1>3, ImageIsPicture
<1>5. Decoded(Picture(buffer[e].frame)) = {Picture(buffer[e].frame)}
    BY DEF Decoded, Picture
<1>. QED
    BY <1>2, <1>4, <1>5

\* consumeFrames() shows a whole picture, and keeps only what came after it.
LEMMA DecodeKeepsPictures ==
    ASSUME LinkInv, LinkInv', Pictures, Decode, Ceiling <= Ceiling' PROVE Pictures'
<1>. DEFINE w == IF reply = NoReply THEN <<>> ELSE wire[reply]
            e == LastOf(Marks("end", Len(buffer)))
<1>1. /\ w \in Seq(Mark) /\ buffer \in Seq(Mark) /\ buffer' \in Seq(Mark)
      /\ Incoming = buffer \o w /\ Incoming' = buffer' \o w
    <2>1. reply' = reply /\ wire' = wire
        BY DEF Decode, ConsumeFrames, streamerVars
    <2>2. buffer' \in Seq(Mark)
        BY TakenType DEF Decode, LinkInv
    <2>3. Incoming = buffer \o w /\ Incoming' = buffer' \o w
        BY <2>1 DEF Incoming
    <2>. QED
        BY <2>2, <2>3, EmptySeq DEF LinkInv, View, Wires
<1>2. Live' => Live
    BY DEF Decode, ConsumeFrames, streamerVars, Live, Connection
<1>. HIDE DEF w
<1>3. Len(buffer) \in Nat /\ Len(w) \in Nat
    BY <1>1, LenProperties
<1>4. CASE buffer' = <<>> /\ UNCHANGED currentFrame
    <2>1. IsBack(buffer', buffer)
        BY <1>1, <1>4, SameIsBack
    <2>2. IsBack(Incoming', Incoming)
        BY <1>1, <2>1, BackOfConcat
    <2>. QED
        BY <1>2, <1>4, <2>2, BackKeepsPictures
<1>5. CASE Marks("end", Len(buffer)) # {} /\ buffer' = SubSeq(buffer, e + 1, Len(buffer))
    <2>1. e \in 1..Len(buffer) /\ buffer[e].mark = "end"
        BY <1>3, <1>5, LastOfMarks
    <2>. HIDE DEF e
    <2>0. e \in Nat /\ e <= Len(buffer) /\ 1 <= e
        BY <1>3, <2>1
    <2>2. /\ Len(buffer') = Len(buffer) - e
          /\ \A i \in 1..(Len(buffer) - e) : buffer'[i] = buffer[i + e]
        <3>1. e + 1 \in 1..(Len(buffer) + 1) /\ Len(buffer) \in 0..Len(buffer)
              /\ Len(buffer) - (e + 1) + 1 = Len(buffer) - e
            BY <1>3, <2>0
        <3>2. /\ Len(buffer') = IF e + 1 <= Len(buffer) THEN Len(buffer) - (e + 1) + 1 ELSE 0
              /\ \A i \in 1..(Len(buffer) - (e + 1) + 1) : buffer'[i] = buffer[(e + 1) + i - 1]
            BY <1>1, <1>5, <3>1, PartType
        <3>3. Len(buffer') = Len(buffer) - e
            BY <1>3, <2>0, <3>2
        <3>4. \A i \in 1..(Len(buffer) - e) : (e + 1) + i - 1 = i + e
            BY <1>3, <2>0
        <3>. QED
            BY <3>1, <3>2, <3>3, <3>4
    <2>3. IsBack(buffer', buffer)
        BY <1>3, <2>1, <2>2 DEF IsBack
    <2>4. IsBack(Incoming', Incoming)
        BY <1>1, <2>3, BackOfConcat
    <2>5. CASE Image(e) = <<>>
        <3>1. UNCHANGED currentFrame
            BY <1>4, <1>5, <2>5 DEF Decode, ConsumeFrames, e
        <3>. QED
            BY <1>2, <2>4, <3>1, BackKeepsPictures
    <2>6. CASE Image(e) # <<>>
        <3>. DEFINE f == buffer[e].frame
        <3>1. Image(e) = Picture(f)
            BY <2>1, <2>6, ImageIsPicture
        <3>2. UNCHANGED currentFrame \/ currentFrame' \in Decoded(Image(e))
            BY DEF Decode, ConsumeFrames, e
        <3>3. Decoded(Picture(f)) = {Picture(f)}
            BY DEF Decoded, Picture
        <3>4. currentFrame' = Picture(f) \/ currentFrame' = currentFrame
            BY <3>1, <3>2, <3>3
        <3>5. Len(Incoming) \in Nat /\ Len(buffer) <= Len(Incoming) /\ Incoming[e] = buffer[e]
              /\ Len(Incoming) - Len(Incoming') = e
            <4>1. /\ Len(buffer \o w) = Len(buffer) + Len(w)
                  /\ \A i \in 1..(Len(buffer) + Len(w)) :
                        (buffer \o w)[i] = IF i <= Len(buffer) THEN buffer[i] ELSE w[i - Len(buffer)]
                BY <1>1, ConcatProperties
            <4>2. Len(buffer' \o w) = Len(buffer') + Len(w)
                BY <1>1, ConcatProperties
            <4>3. e \in 1..(Len(buffer) + Len(w)) /\ e <= Len(buffer)
                BY <1>3, <2>1
            <4>4. (buffer \o w)[e] = buffer[e]
                BY <4>1, <4>3
            <4>5. Len(Incoming) = Len(buffer) + Len(w) /\ Len(Incoming') = Len(buffer') + Len(w)
                  /\ Incoming[e] = buffer[e]
                BY <1>1, <4>1, <4>2, <4>4
            <4>. QED
                BY <1>3, <2>0, <2>2, <4>5
        <3>6. e \in 1..Len(Incoming) /\ Incoming[e].frame = f
            BY <1>3, <2>1, <3>5
        <3>7. f \in 1..Ceiling
            <4>1. Incoming[e] \in Mark
                BY <3>6, IncomingType, ElementOfSeq
            <4>2. f \in 1..MaxFrames /\ f <= Ceiling /\ Ceiling \in 0..MaxFrames
                BY <3>6, <4>1, IncomingType DEF Mark, Pictures, UpTo
            <4>. QED
                BY <4>2
        <3>8. From(Incoming', f)
            <4> SUFFICES ASSUME NEW i \in 1..Len(Incoming') PROVE f <= Incoming'[i].frame
                BY DEF From
            <4>1. Incoming'[i] = Incoming[i + e]
                BY <2>4, <3>5 DEF IsBack
            <4>2. i + e \in 1..Len(Incoming) /\ e <= i + e
                <5>1. Len(Incoming') = Len(Incoming) - e /\ e \in Nat
                    <6>1. Len(Incoming') \in Nat
                        BY <1>1, ConcatProperties, LenProperties
                    <6>. QED
                        BY <2>1, <3>5, <6>1
                <5>. QED
                    BY <3>5, <5>1
            <4>. QED
                BY <3>6, <4>1, <4>2 DEF Pictures, Ordered
        <3>. HIDE DEF f
        <3>. QED
            BY <1>2, <2>4, <3>4, <3>7, <3>8, BackKeepsPictures
    <2>. QED
        BY <2>5, <2>6
<1>. QED
    BY <1>4, <1>5 DEF Decode, ConsumeFrames

LEMMA Regrouped ==
    ASSUME NEW s \in Seq(Mark), NEW t \in Seq(Mark), NEW u \in Seq(Mark),
           NEW left, left = s \o t, NEW right, right = t \o u
    PROVE  left \o u = s \o right
<1>1. (s \o t) \o u = s \o (t \o u)
    BY ConcatAssociative, SMT
<1>. QED
    BY <1>1

\* A step that neither reads nor writes the connection of the view.
LEMMA StillKeepsPictures ==
    ASSUME LinkInv, LinkInv', Pictures, Ceiling <= Ceiling', Live' => Live,
           UNCHANGED <<reply, buffer, currentFrame>>, reply # NoReply => wire'[reply] = wire[reply]
    PROVE  Pictures'
<1>1. Incoming' = Incoming
    BY DEF Incoming
<1>2. IsBack(Incoming', Incoming)
    BY <1>1, IncomingType, SameIsBack
<1>. QED
    BY <1>2, BackKeepsPictures

\* readyRead moves the front of the wire to the end of the buffer, whose own
\* front may be cut.
LEMMA ReceiveCutsFront ==
    ASSUME LinkInv, Receive
    PROVE  /\ Incoming' \in Seq(Mark) /\ IsBack(Incoming', Incoming)
           /\ Incoming' = Incoming \/ Len(Incoming') >= BufferKeep
<1>. DEFINE w == wire[reply]
<1>1. reply \in Sockets /\ reply # NoReply /\ UNCHANGED <<reply, conn, currentFrame>>
    BY DEF Receive, Connection, AppendBytes, LinkInv, View
<1>2. w \in Seq(Mark) /\ buffer \in Seq(Mark) /\ Len(w) \in Nat
    BY <1>1, LenProperties DEF LinkInv, Wires, View
<1>3. PICK n \in 1..Len(w) : /\ AppendBytes(SubSeq(w, 1, n))
                             /\ wire' = [wire EXCEPT ![reply] = SubSeq(@, n + 1, Len(@))]
    BY DEF Receive
<1>4. wire'[reply] = SubSeq(w, n + 1, Len(w))
    BY <1>1, <1>3 DEF LinkInv, Wires
<1>. DEFINE front == SubSeq(w, 1, n)
            back == SubSeq(w, n + 1, Len(w))
            longer == buffer \o front
<1>5. Incoming = buffer \o w /\ Incoming' = buffer' \o back
    BY <1>1, <1>4 DEF Incoming
<1>. HIDE DEF w
<1>6. front \in Seq(Mark) /\ back \in Seq(Mark) /\ front \o back = w
    <2>1. n \in 0..Len(w) /\ 1 \in 1..(Len(w) + 1) /\ n \in (1 - 1)..Len(w) /\ Len(w) \in n..Len(w)
          /\ n + 1 \in 1..(Len(w) + 1) /\ Len(w) \in 0..Len(w)
        BY <1>2
    <2>2. front \in Seq(Mark) /\ back \in Seq(Mark)
        BY <1>2, <2>1, PartType
    <2>3. front \o back = SubSeq(w, 1, Len(w))
        BY <1>2, <2>1, ConcatAdjacentSubSeq
    <2>4. SubSeq(w, 1, Len(w)) = w
        BY <1>2, SubSeqFull
    <2>. HIDE DEF front, back
    <2>5. front \o back = w
        BY <2>3, <2>4, Zenon
    <2>. QED
        BY <2>2, <2>5, Zenon
<1>7. \/ buffer' = longer
      \/ buffer' = Last(longer, BufferKeep) /\ Len(longer) > BufferLimit
    BY <1>3 DEF AppendBytes
<1>. HIDE DEF front, back
<1>8. longer \in Seq(Mark) /\ longer \o back = Incoming
    <2>1. longer \in Seq(Mark)
        BY <1>2, <1>6, ConcatProperties
    <2>2. longer = buffer \o front
        OBVIOUS
    <2>. HIDE DEF longer
    <2>3. buffer \in Seq(Mark) /\ front \in Seq(Mark) /\ back \in Seq(Mark) /\ w = front \o back
        BY <1>2, <1>6, Zenon
    <2>4. longer \o back = buffer \o w
        BY <2>2, <2>3, Regrouped, SMT
    <2>. QED
        BY <1>5, <2>1, <2>4, Zenon
<1>. HIDE DEF longer
<1>9. buffer' \in Seq(Mark) /\ IsBack(buffer', longer)
    <2>1. BufferKeep \in Nat
        BY BufferAssumption
    <2>2. /\ Last(longer, BufferKeep) \in Seq(Mark)
          /\ IsBack(Last(longer, BufferKeep), longer)
        BY <1>8, <2>1, LastType DEF IsBack
    <2>. QED
        BY <1>7, <1>8, <2>2, SameIsBack
<1>10. IsBack(Incoming', Incoming)
    <2>1. IsBack(buffer' \o back, longer \o back)
        BY <1>6, <1>8, <1>9, BackOfConcat
    <2>. QED
        BY <1>5, <1>8, <2>1
<1>11. Incoming' \in Seq(Mark)
    BY <1>5, <1>6, <1>9, ConcatProperties
<1>12. CASE buffer' = longer
    BY <1>5, <1>8, <1>10, <1>12, <1>11
<1>13. CASE buffer' = Last(longer, BufferKeep) /\ Len(longer) > BufferLimit
    <2>1. BufferKeep \in Nat /\ BufferLimit \in Nat /\ BufferKeep <= BufferLimit /\ Len(longer) \in Nat
        BY <1>8, BufferAssumption, LenProperties
    <2>2. Len(buffer') = BufferKeep
        BY <1>8, <1>13, <2>1, LastType
    <2>3. Len(buffer' \o back) = Len(buffer') + Len(back) /\ Len(back) \in Nat
        BY <1>6, <1>9, ConcatProperties, LenProperties
    <2>. QED
        BY <1>5, <1>10, <1>11, <2>1, <2>2, <2>3
<1>. QED
    BY <1>7, <1>12, <1>13

LEMMA ReceiveKeepsPictures ==
    ASSUME LinkInv, LinkInv', Pictures, Receive, Ceiling <= Ceiling' PROVE Pictures'
<1>1. UNCHANGED <<reply, conn, currentFrame>>
    BY DEF Receive, AppendBytes
<1>2. Live' => Live
    BY <1>1 DEF Live, Connection
<1>. QED
    BY <1>1, <1>2, ReceiveCutsFront, BackKeepsPictures

\* The whole picture is sent, to the view or to another client.
LEMMA SendExtends ==
    ASSUME LinkInv, SendWhole, UNCHANGED viewVars
    PROVE  \/ clients[served + 1] # reply /\ (reply # NoReply => wire'[reply] = wire[reply])
           \/ /\ Live /\ outgoing \in 1..MaxFrames
              /\ Incoming' = Incoming \o Picture(outgoing)
<1>. DEFINE c == clients[served + 1]
            p == Picture(outgoing)
<1>1. /\ server = "sending" /\ conn[c] = "open" /\ UNCHANGED <<reply, buffer>>
      /\ wire' = [wire EXCEPT ![c] = @ \o p]
    BY DEF SendWhole, Written, viewVars
<1>2. c \in Sockets /\ c # NoReply
    <2>1. served + 1 \in 1..Len(clients) /\ clients \in Seq(Sockets)
        <3>1. served \in Nat /\ clients \in Seq(Sockets) /\ served < Len(clients)
            BY <1>1 DEF SendWhole, LinkInv, Counts, Thread, Listed
        <3>2. Len(clients) \in Nat
            BY <3>1, LenProperties
        <3>. QED
            BY <3>1, <3>2
    <2>2. c \in Sockets
        BY <2>1, ElementOfSeq
    <2>. QED
        BY <2>2, SocketsAssumption
<1>. HIDE DEF c
<1>3. wire \in [Sockets -> Seq(Mark)] /\ buffer \in Seq(Mark) /\ (reply # NoReply => reply \in Sockets)
    BY DEF LinkInv, Wires, View
<1>4. CASE c = reply
    <2>1. outgoing \in 1..MaxFrames
        BY <1>1, MaxFramesAssumption DEF LinkInv, Counts
    <2>2. p \in Seq(Mark)
        BY <2>1, PictureType
    <2>3. Incoming = buffer \o wire[reply] /\ wire[reply] \in Seq(Mark)
          /\ Incoming' = buffer \o (wire[reply] \o p)
        BY <1>1, <1>2, <1>3, <1>4 DEF Incoming
    <2>. HIDE DEF p
    <2>4. PICK a \in Seq(Mark) : Incoming = buffer \o a /\ Incoming' = buffer \o (a \o p)
        BY <2>3, Zenon
    <2>5. Incoming \o p = buffer \o (a \o p)
        BY <1>3, <2>2, <2>4, Regrouped, SMT
    <2>6. Incoming' = Incoming \o p
        BY <2>4, <2>5, Zenon
    <2>7. Live
        BY <1>1, <1>2, <1>4 DEF Live, Connection
    <2>. QED
        BY <2>1, <2>6, <2>7, Zenon DEF p
<1>5. CASE c # reply
    <2>1. reply # NoReply => wire'[reply] = wire[reply]
        BY <1>1, <1>3, <1>5
    <2>. QED
        BY <1>5, <2>1 DEF c
<1>. QED
    BY <1>4, <1>5

LEMMA SendKeepsPictures ==
    ASSUME LinkInv, LinkInv', Pictures, SendWhole, UNCHANGED viewVars, Ceiling' = Ceiling
    PROVE  Pictures'
<1>1. server = "sending" /\ UNCHANGED <<conn, reply, buffer, currentFrame>>
    BY DEF SendWhole, viewVars
<1>2. Live' => Live
    BY <1>1 DEF Live, Connection
<1>3. CASE reply # NoReply => wire'[reply] = wire[reply]
    <2>1. Ceiling <= Ceiling'
        BY IncomingType
    <2>. QED
        BY <1>1, <1>2, <1>3, <2>1, StillKeepsPictures
<1>4. CASE Live /\ outgoing \in 1..MaxFrames /\ Incoming' = Incoming \o Picture(outgoing)
    <2>1. SubSeq(Picture(outgoing), 1, 2) = Picture(outgoing)
        <3>1. Picture(outgoing) \in Seq(Mark) /\ Len(Picture(outgoing)) = 2
            BY <1>4, PictureType
        <3>. QED
            BY <3>1, SubSeqFull
    <2>2. Incoming' = Incoming \o SubSeq(Picture(outgoing), 1, 2)
        BY <1>4, <2>1
    <2>. QED
        BY <1>1, <1>4, <2>2, WriteKeepsPictures
<1>. QED
    BY <1>3, <1>4, SendExtends

\* A client is dropped, the view possibly, with the start of a picture.
LEMMA DropExtends ==
    ASSUME LinkInv, DropClient, UNCHANGED viewVars
    PROVE  \/ reply # NoReply => wire'[reply] = wire[reply]
           \/ /\ Live /\ ~Live'
              /\ \E n \in 0..2 : /\ SubSeq(Picture(outgoing), 1, n) \in Seq(Mark)
                                /\ Incoming' = Incoming \o SubSeq(Picture(outgoing), 1, n)
<1>. DEFINE c == clients[served + 1]
<1>1. /\ server = "sending" /\ conn' = [conn EXCEPT ![c] = "closed"] /\ UNCHANGED <<reply, buffer>>
    BY DEF DropClient, viewVars
<1>2. PICK n \in 0..(Len(Picture(outgoing)) - 1) :
         wire' = [wire EXCEPT ![c] = IF conn[c] = "open" /\ Len(@) + n <= SocketRoom
                                       THEN @ \o SubSeq(Picture(outgoing), 1, n) ELSE @]
    BY DEF DropClient
<1>. HIDE DEF c
<1>3. wire \in [Sockets -> Seq(Mark)] /\ buffer \in Seq(Mark) /\ (reply # NoReply => reply \in Sockets)
      /\ conn \in [Sockets -> {"none", "backlog", "open", "closed", "broken"}]
    BY DEF LinkInv, Wires, View, Held
<1>4. CASE c = reply /\ reply # NoReply /\ conn[c] = "open" /\ Len(wire[c]) + n <= SocketRoom
    <2>1. Picture(outgoing) \in Seq(Mark) /\ n \in 0..2 /\ Len(Picture(outgoing)) = 2
        <3>1. outgoing \in 1..MaxFrames
            BY <1>1, MaxFramesAssumption DEF LinkInv, Counts
        <3>2. Picture(outgoing) \in Seq(Mark) /\ Len(Picture(outgoing)) = 2
            BY <3>1, PictureType
        <3>. QED
            BY <3>2
    <2>. DEFINE part == SubSeq(Picture(outgoing), 1, n)
    <2>2. part \in Seq(Mark)
        BY <2>1, StartOfType
    <2>3. Incoming = buffer \o wire[reply] /\ wire[reply] \in Seq(Mark)
          /\ Incoming' = buffer \o (wire[reply] \o part)
        BY <1>1, <1>2, <1>3, <1>4 DEF Incoming
    <2>4. Incoming' = Incoming \o part
        <3>. HIDE DEF part
        <3>1. PICK a \in Seq(Mark) : Incoming = buffer \o a /\ Incoming' = buffer \o (a \o part)
            BY <2>3, Zenon
        <3>2. Incoming \o part = buffer \o (a \o part)
            BY <1>3, <2>2, <3>1, Regrouped, SMT
        <3>. QED
            BY <3>1, <3>2, Zenon
    <2>5. Live /\ ~Live'
        BY <1>1, <1>3, <1>4 DEF Live, Connection
    <2>. QED
        BY <2>1, <2>2, <2>4, <2>5
<1>5. CASE ~(c = reply /\ reply # NoReply /\ conn[c] = "open" /\ Len(wire[c]) + n <= SocketRoom)
    BY <1>2, <1>3, <1>5
<1>. QED
    BY <1>4, <1>5

LEMMA DropKeepsPictures ==
    ASSUME LinkInv, LinkInv', Pictures, DropClient, UNCHANGED viewVars, Ceiling' = Ceiling
    PROVE  Pictures'
<1>1. server = "sending" /\ UNCHANGED <<reply, buffer, currentFrame>>
    BY DEF DropClient, viewVars
<1>2. Live' => Live
    BY <1>1 DEF DropClient, Live, Connection, LinkInv, Held, View
<1>3. CASE reply # NoReply => wire'[reply] = wire[reply]
    <2>1. Ceiling <= Ceiling'
        BY IncomingType
    <2>. QED
        BY <1>1, <1>2, <1>3, <2>1, StillKeepsPictures
<1>4. CASE /\ Live /\ ~Live'
           /\ \E n \in 0..2 : /\ SubSeq(Picture(outgoing), 1, n) \in Seq(Mark)
                             /\ Incoming' = Incoming \o SubSeq(Picture(outgoing), 1, n)
    BY <1>1, <1>4, WriteKeepsPictures
<1>. QED
    BY <1>3, <1>4, DropExtends

LEMMA ServerKeepsPictures ==
    ASSUME LinkInv, LinkInv', Pictures, Server, Ceiling <= Ceiling' PROVE Pictures'
<1>1. UNCHANGED <<viewVars, published>>
    BY DEF Server
<1>2. CASE SendWhole \/ DropClient
    <2>1. Ceiling' = Ceiling
        BY <1>1, <1>2 DEF SendWhole, DropClient, Ceiling
    <2>. QED
        BY <1>1, <1>2, <2>1, SendKeepsPictures, DropKeepsPictures
<1>3. CASE ~(SendWhole \/ DropClient)
    <2>1. UNCHANGED <<reply, buffer, currentFrame, wire>>
        BY <1>1, <1>3 DEF viewVars, Server, Serve, Accept, AcceptNoMore, Leave, WaitInVain, PickFrame, PassDone,
                          sockets
    <2>2. reply # NoReply => reply \in Sockets
        BY DEF LinkInv, View
    <2>3. \A c \in Sockets : conn'[c] \in {"backlog", "open"} => conn[c] \in {"backlog", "open"}
        <3>1. CASE \E c \in Sockets : Accept(c)
            BY <3>1 DEF Accept, LinkInv, Held
        <3>2. CASE Leave
            BY <3>2 DEF Leave
        <3>3. CASE AcceptNoMore \/ WaitInVain \/ PickFrame \/ PassDone
            BY <3>3 DEF AcceptNoMore, WaitInVain, PickFrame, PassDone, sockets
        <3>. QED
            BY <1>3, <3>1, <3>2, <3>3 DEF Server, Serve
    <2>4. Live' => Live
        BY <2>1, <2>2, <2>3 DEF Live, Connection
    <2>. QED
        BY <2>1, <2>4, StillKeepsPictures
<1>. QED
    BY <1>2, <1>3

LEMMA OwnerKeepsPictures ==
    ASSUME LinkInv, LinkInv', Pictures, BeginRun \/ Publish \/ BeginStop \/ EndStop, Ceiling <= Ceiling'
    PROVE  Pictures'
<1>1. UNCHANGED <<reply, buffer, currentFrame, wire>>
    BY DEF BeginRun, Publish, BeginStop, EndStop, StartStream, PublishImage, RequestStop, FinishStop,
           sockets, viewVars
<1>2. conn' = conn \/ conn' = [c \in Sockets |-> IF conn[c] = "backlog" THEN "closed" ELSE conn[c]]
    BY DEF BeginRun, Publish, BeginStop, EndStop, StartStream, PublishImage, RequestStop, FinishStop, sockets
<1>3. reply # NoReply => reply \in Sockets
    BY DEF LinkInv, View
<1>4. Live' => Live
    BY <1>1, <1>2, <1>3 DEF Live, Connection
<1>. QED
    BY <1>1, <1>4, StillKeepsPictures

\* What the view had is dropped when its reply begins or ends.
LEMMA EmptyKeepsPictures ==
    ASSUME LinkInv, LinkInv', Pictures, Ceiling <= Ceiling', Incoming' = <<>>,
           currentFrame' = <<>> \/ currentFrame' = currentFrame
    PROVE  Pictures'
<1>1. IsBack(<<>>, Incoming)
    BY IncomingType, SameIsBack
<1>2. IsBack(Incoming', Incoming)
    BY <1>1
<1>. QED
    BY <1>2, BackKeepsPictures

LEMMA TerminalKeepsPictures ==
    ASSUME LinkInv, LinkInv', Pictures, Terminal, Ceiling <= Ceiling' PROVE Pictures'
<1>1. <<>> \o <<>> = <<>>
    <2>1. <<>> \in Seq(Mark)
        BY EmptySeq
    <2>. QED
        BY <2>1, ConcatEmptySeq
<1>2. CASE Open
    <2>1. currentFrame' = currentFrame /\ buffer' = <<>>
        BY <1>2 DEF Open, OpenStream, OpenInVain
    <2>2. CASE OpenInVain
        <3>1. reply' = NoReply
            BY <2>2 DEF OpenInVain, MayOpen
        <3>2. Incoming' = <<>>
            BY <1>1, <2>1, <3>1 DEF Incoming
        <3>. QED
            BY <2>1, <3>2, EmptyKeepsPictures
    <2>3. CASE \E c \in Sockets : OpenStream(c) /\ Connected(c)
        <3>1. PICK c \in Sockets : reply' = c /\ wire' = [wire EXCEPT ![c] = <<>>]
            BY <2>3 DEF OpenStream, Connected
        <3>2. wire'[reply'] = <<>>
            BY <3>1 DEF LinkInv, Wires
        <3>3. Incoming' = <<>>
            BY <1>1, <2>1, <3>2 DEF Incoming
        <3>. QED
            BY <2>1, <3>3, EmptyKeepsPictures
    <2>. QED
        BY <1>2, <2>2, <2>3 DEF Open
<1>3. CASE Finished \/ CloseView
    <2>1. reply' = NoReply /\ buffer' = <<>> /\ (currentFrame' = <<>> \/ currentFrame' = currentFrame)
        BY <1>3 DEF Finished, ReplyFinished, CloseView, StopView
    <2>2. Incoming' = <<>>
        BY <1>1, <2>1 DEF Incoming
    <2>. QED
        BY <2>1, <2>2, EmptyKeepsPictures
<1>. QED
    BY <1>2, <1>3, ReceiveKeepsPictures, DecodeKeepsPictures DEF Terminal

LEMMA OthersKeepPictures ==
    ASSUME LinkInv, LinkInv', Pictures, OtherConnects \/ Break, Ceiling <= Ceiling' PROVE Pictures'
<1>1. UNCHANGED <<reply, buffer, currentFrame>>
    BY DEF OtherConnects, Break, viewVars
<1>2. /\ reply # NoReply => reply \in Sockets
      /\ conn \in [Sockets -> {"none", "backlog", "open", "closed", "broken"}]
      /\ wire \in [Sockets -> Seq(Mark)]
    BY DEF LinkInv, View, Held, Wires
<1>3. CASE OtherConnects
    <2>1. PICK c \in Sockets : /\ reply # c /\ conn' = [conn EXCEPT ![c] = "backlog"]
                               /\ wire' = [wire EXCEPT ![c] = <<>>]
        BY <1>3 DEF OtherConnects, Free, Connected
    <2>2. (Live' => Live) /\ (reply # NoReply => wire'[reply] = wire[reply])
        BY <1>1, <1>2, <2>1 DEF Live, Connection
    <2>. QED
        BY <1>1, <2>2, StillKeepsPictures
<1>4. CASE Break
    <2>1. PICK c \in Sockets : conn[c] = "open" /\ conn' = [conn EXCEPT ![c] = "broken"]
        BY <1>4 DEF Break
    <2>2. wire' = wire
        BY <1>4 DEF Break
    <2>3. Live' => Live
        BY <1>1, <1>2, <2>1 DEF Live, Connection
    <2>. QED
        BY <1>1, <2>2, <2>3, StillKeepsPictures
<1>. QED
    BY <1>3, <1>4

LEMMA PicturesStep == LinkInv /\ LinkInv' /\ Pictures /\ [Next]_vars => Pictures'
<1> SUFFICES ASSUME LinkInv, LinkInv', Pictures, [Next]_vars PROVE Pictures'
    OBVIOUS
<1>1. CASE UNCHANGED vars
    BY <1>1 DEF vars, streamerVars, viewVars, Pictures, Incoming, Live, Connection, Ceiling
<1>2. CASE Next
    <2>1. Ceiling <= Ceiling'
        BY <1>2, CeilingRises
    <2>2. CASE Ended
        BY <1>1, <2>2 DEF Ended
    <2>. QED
        BY <1>2, <2>1, <2>2, ServerKeepsPictures, OwnerKeepsPictures, TerminalKeepsPictures,
           OthersKeepPictures DEF Next
<1>. QED
    BY <1>1, <1>2

LEMMA PicturesCorrect == SafeSpec => []Pictures
<1>1. Init => Pictures
    <2> SUFFICES ASSUME Init PROVE Pictures
        OBVIOUS
    <2>1. Incoming = <<>> /\ currentFrame = <<>>
        <3>1. <<>> \in Seq(Mark)
            BY EmptySeq
        <3>. QED
            BY <3>1, ConcatEmptySeq DEF Init, ViewInit, Incoming
    <2>2. \A i : i \notin 1..Len(<<>>) /\ i \notin 1..(Len(<<>>) - 1)
        BY EmptySeq
    <2>3. Ordered(<<>>) /\ Complete(<<>>) /\ UpTo(<<>>, Ceiling)
        BY <2>2 DEF Ordered, Complete, UpTo
    <2>. QED
        BY <2>1, <2>3 DEF Pictures
<1>. QED
    BY <1>1, LinkCorrect, PicturesStep, PTL DEF SafeSpec

\* MjpegView::consumeFrames: whatever is cut off a stream (a client dropped in the
\* middle of a frame, a connection that breaks, the buffer trimmed), what the view
\* decodes from the last start to the last end is one whole published picture.
THEOREM ShowsWholeFramesCorrect == SafeSpec => []ShowsWholeFrames
<1>1. LinkInv /\ Pictures => ShowsWholeFrames
    <2> SUFFICES ASSUME LinkInv, Pictures, currentFrame # <<>>
                 PROVE  \E f \in 1..published : currentFrame = Picture(f)
        BY DEF ShowsWholeFrames
    <2>1. PICK f \in 1..Ceiling : currentFrame = Picture(f)
        BY DEF Pictures
    <2>2. f \in 1..published
        BY IncomingType
    <2>. QED
        BY <2>1, <2>2
<1>. QED
    BY <1>1, LinkCorrect, PicturesCorrect, PTL

\* What is shown instead of a picture is never older.
LEMMA NewerShown ==
    ASSUME LinkInv, Pictures, Next, ~CloseView, currentFrame # <<>>
    PROVE  /\ currentFrame' # <<>>
           /\ currentFrame[1].frame \in Nat /\ currentFrame'[1].frame \in Nat
           /\ currentFrame'[1].frame >= currentFrame[1].frame
<1>1. PICK f \in 1..Ceiling : currentFrame = Picture(f) /\ From(Incoming, f)
    BY DEF Pictures
<1>2. f \in Nat /\ currentFrame[1].frame = f
    BY <1>1, IncomingType DEF Picture
<1>3. CASE currentFrame' = currentFrame
    BY <1>2, <1>3
<1>4. CASE Decode /\ currentFrame' # currentFrame
    <2>1. PICK e \in 1..Len(Incoming) : currentFrame' = Picture(Incoming[e].frame)
        BY <1>4, DecodeShows
    <2>2. Incoming[e].frame \in 1..MaxFrames /\ f <= Incoming[e].frame
        <3>1. Incoming[e] \in Mark
            BY <2>1, IncomingType, ElementOfSeq
        <3>. QED
            BY <1>1, <3>1 DEF Mark, From
    <2>3. currentFrame' # <<>> /\ currentFrame'[1].frame = Incoming[e].frame
        BY <2>1 DEF Picture
    <2>. QED
        BY <1>2, <2>2, <2>3, MaxFramesAssumption
<1>5. CASE ~Decode
    <2>1. currentFrame' = currentFrame
        BY <1>5 DEF Next, BeginRun, Publish, BeginStop, EndStop, Server, Terminal, Open, OpenStream,
            OpenInVain, Receive, AppendBytes, Finished, ReplyFinished, OtherConnects, Break, Ended, vars, viewVars
    <2>. QED
        BY <1>3, <2>1
<1>. QED
    BY <1>3, <1>4, <1>5

\* The picture on the terminal never goes back to an older frame, over frames that
\* the streamer skipped, reconnections and new runs of the program.
THEOREM NeverGoesBackCorrect == SafeSpec => NeverGoesBack
<1>. DEFINE Shown == currentFrame # <<>> /\ ~viewGone'
                        => currentFrame'[1].frame >= currentFrame[1].frame
<1>1. LinkInv /\ Pictures /\ [Next]_vars => [Shown]_vars
    <2> SUFFICES ASSUME LinkInv, Pictures, Next, currentFrame # <<>>, ~viewGone'
                 PROVE  currentFrame'[1].frame >= currentFrame[1].frame
        OBVIOUS
    <2>1. ~CloseView
        BY DEF CloseView
    <2>. QED
        BY <2>1, NewerShown
<1>. QED
    BY <1>1, LinkCorrect, PicturesCorrect, PTL DEF SafeSpec, NeverGoesBack
----------------------------------------------------------------------------
(* No frame that was sent is lost before the reply ends. *)

LEMMA CarriesMore ==
    ASSUME NEW s \in Seq(Mark), NEW t \in Seq(Mark), NEW f, Carries(s, f) PROVE Carries(s \o t, f)
<1>1. PICK g \in f..MaxFrames, i \in 1..(Len(s) - 1) : s[i] = Picture(g)[1] /\ s[i + 1] = Picture(g)[2]
    BY DEF Carries
<1>2. Len(s) \in Nat /\ Len(t) \in Nat
    BY LenProperties
<1>3. /\ Len(s \o t) = Len(s) + Len(t)
      /\ \A j \in 1..(Len(s) + Len(t)) : (s \o t)[j] = IF j <= Len(s) THEN s[j] ELSE t[j - Len(s)]
    BY ConcatProperties
<1>4. /\ i \in 1..(Len(s) + Len(t)) /\ i <= Len(s) /\ i \in 1..(Len(s \o t) - 1)
      /\ i + 1 \in 1..(Len(s) + Len(t)) /\ i + 1 <= Len(s)
    BY <1>2, <1>3
<1>5. (s \o t)[i] = s[i] /\ (s \o t)[i + 1] = s[i + 1]
    BY <1>3, <1>4
<1>. QED
    BY <1>1, <1>4, <1>5 DEF Carries

LEMMA CarriesLast ==
    ASSUME NEW s \in Seq(Mark), NEW f \in 1..MaxFrames PROVE Carries(s \o Picture(f), f)
<1>1. Picture(f) \in Seq(Mark) /\ Len(Picture(f)) = 2
    BY PictureType
<1>. DEFINE p == Picture(f)
            i == Len(s) + 1
<1>2. p \in Seq(Mark) /\ Len(p) = 2 /\ Len(s) \in Nat
    BY <1>1, LenProperties
<1>. HIDE DEF p
<1>3. /\ Len(s \o p) = Len(s) + Len(p)
      /\ \A j \in 1..(Len(s) + Len(p)) : (s \o p)[j] = IF j <= Len(s) THEN s[j] ELSE p[j - Len(s)]
    BY <1>2, ConcatProperties
<1>4. i \in 1..(Len(s \o p) - 1) /\ (s \o p)[i] = p[1] /\ (s \o p)[i + 1] = p[2]
    BY <1>2, <1>3
<1>5. f \in f..MaxFrames
    BY MaxFramesAssumption
<1>. QED
    BY <1>4, <1>5 DEF Carries, p

\* Of three marks in a row two are a whole picture.
LEMMA WholeOfThree ==
    ASSUME NEW s \in Seq(Mark), Ordered(s), NEW j \in 1..(Len(s) - 2)
    PROVE  \E k \in j..(j + 1) : /\ s[k].frame \in 1..MaxFrames
                                 /\ s[k] = Picture(s[k].frame)[1] /\ s[k + 1] = Picture(s[k].frame)[2]
<1>1. Len(s) \in Nat /\ \A i \in 1..Len(s) : s[i] \in Mark
    BY LenProperties, ElementOfSeq
<1>2. \A k \in {j, j + 1} : k \in 1..(Len(s) - 1) /\ k \in 1..Len(s) /\ k \in j..(j + 1)
    BY <1>1
<1>3. ASSUME NEW k \in {j, j + 1}, s[k].mark = "start"
      PROVE  /\ s[k].frame \in 1..MaxFrames
             /\ s[k] = Picture(s[k].frame)[1] /\ s[k + 1] = Picture(s[k].frame)[2]
    <2>1. s[k] \in Mark /\ s[k + 1] = [mark |-> "end", frame |-> s[k].frame]
        BY <1>1, <1>2, <1>3 DEF Ordered
    <2>. QED
        BY <1>3, <2>1 DEF Mark, Picture
<1>4. s[j].mark # "start" => s[j + 1].mark = "start"
    BY <1>2 DEF Ordered
<1>. QED
    BY <1>2, <1>3, <1>4

\* What is cut at its front still carries a picture that is as new, if it is long enough.
LEMMA CarriesBack ==
    ASSUME NEW s \in Seq(Mark), NEW t \in Seq(Mark), IsBack(t, s), Ordered(s), Len(t) > 2,
           NEW f \in 1..MaxFrames, Carries(s, f)
    PROVE  Carries(t, f)
<1>1. PICK g \in f..MaxFrames, i \in 1..(Len(s) - 1) : s[i] = Picture(g)[1] /\ s[i + 1] = Picture(g)[2]
    BY DEF Carries
<1>. DEFINE d == Len(s) - Len(t)
<1>2. /\ Len(s) \in Nat /\ Len(t) \in Nat /\ d \in Nat /\ Len(s) = Len(t) + d
      /\ \A j \in 1..Len(t) : t[j] = s[j + d]
    BY LenProperties DEF IsBack
<1>. HIDE DEF d
<1>3. ASSUME NEW h \in f..MaxFrames, NEW k \in (d + 1)..(Len(s) - 1),
             s[k] = Picture(h)[1], s[k + 1] = Picture(h)[2]
      PROVE  Carries(t, f)
    <2>. DEFINE j == k - d
    <2>1. /\ j \in 1..(Len(t) - 1) /\ j \in 1..Len(t) /\ j + 1 \in 1..Len(t)
          /\ j + d = k /\ (j + 1) + d = k + 1
        BY <1>2
    <2>. HIDE DEF j
    <2>2. t[j] = s[k] /\ t[j + 1] = s[k + 1]
        BY <1>2, <2>1
    <2>. QED
        BY <1>3, <2>1, <2>2 DEF Carries
<1>4. CASE i > d
    <2>1. i \in (d + 1)..(Len(s) - 1)
        BY <1>2, <1>4
    <2>. QED
        BY <1>1, <1>3, <2>1
<1>5. CASE ~(i > d)
    <2>1. d + 1 \in 1..(Len(s) - 2)
        BY <1>2
    <2>2. PICK k \in (d + 1)..((d + 1) + 1) :
             /\ s[k].frame \in 1..MaxFrames
             /\ s[k] = Picture(s[k].frame)[1] /\ s[k + 1] = Picture(s[k].frame)[2]
        BY <2>1, WholeOfThree
    <2>3. k \in (d + 1)..(Len(s) - 1) /\ i <= k /\ i \in 1..Len(s) /\ k \in 1..Len(s)
        BY <1>2, <1>5, <2>2
    <2>4. s[i].frame <= s[k].frame /\ s[i].frame = g
        BY <1>1, <2>3 DEF Ordered, Picture
    <2>5. s[k].frame \in f..MaxFrames
        <3>. DEFINE h == s[k].frame
        <3>1. g <= h /\ h \in 1..MaxFrames
            BY <2>2, <2>4
        <3>. HIDE DEF h
        <3>2. h \in f..MaxFrames
            BY <3>1, MaxFramesAssumption
        <3>. QED
            BY <3>2 DEF h
    <2>. QED
        BY <1>3, <2>2, <2>3, <2>5
<1>. QED
    BY <1>4, <1>5

\* consumeFrames() shows the newest of the pictures it takes out.
LEMMA DecodeCarries ==
    ASSUME LinkInv, Pictures, Decode, BufferKeep > 2, NEW f \in 1..MaxFrames, Carries(Incoming, f)
    PROVE  Carries(Incoming, f)' \/ Shows(f)'
<1>. DEFINE w == IF reply = NoReply THEN <<>> ELSE wire[reply]
            ends == Marks("end", Len(buffer))
            e == LastOf(ends)
<1>1. /\ w \in Seq(Mark) /\ buffer \in Seq(Mark) /\ Len(buffer) \in Nat /\ Len(w) \in Nat
      /\ Incoming = buffer \o w
    BY EmptySeq, LenProperties DEF LinkInv, View, Wires, Incoming
<1>2. reply' = reply /\ wire' = wire
    BY DEF Decode, ConsumeFrames, streamerVars
<1>3. Incoming' = buffer' \o w
    BY <1>2 DEF Incoming
<1>. HIDE DEF w
<1>4. /\ Len(Incoming) = Len(buffer) + Len(w)
      /\ \A j \in 1..(Len(buffer) + Len(w)) : Incoming[j] = IF j <= Len(buffer) THEN buffer[j] ELSE w[j - Len(buffer)]
    BY <1>1, ConcatProperties
<1>5. PICK g \in f..MaxFrames, i \in 1..(Len(Incoming) - 1) :
         Incoming[i] = Picture(g)[1] /\ Incoming[i + 1] = Picture(g)[2]
    BY DEF Carries
<1>6. Incoming \in Seq(Mark) /\ \A j \in 1..Len(Incoming) : Incoming[j] \in Mark
    BY IncomingType, ElementOfSeq
<1>7. Incoming[i].mark = "start" /\ Incoming[i + 1].mark = "end" /\ Incoming[i].frame = g
    BY <1>5 DEF Picture
<1>8. CASE ends = {}
    <2>1. Len(buffer) > 2 /\ \A j \in 1..Len(buffer) : buffer[j].mark # "end"
        <3>1. Len(buffer) > BufferKeep
            BY <1>8 DEF Decode, ConsumeFrames
        <3>2. \A j \in 1..Len(buffer) : buffer[j].mark # "end"
            BY <1>8 DEF Marks
        <3>3. BufferKeep \in Int
            BY BufferAssumption
        <3>. QED
            BY <1>1, <3>1, <3>2, <3>3
    <2>2. /\ 1 \in 1..(Len(Incoming) - 1) /\ Incoming[1] = buffer[1] /\ Incoming[2] = buffer[2]
          /\ 1 \in 1..Len(buffer) /\ 2 \in 1..Len(buffer)
        BY <1>1, <1>4, <2>1
    <2>3. buffer[1] \in Mark
        BY <1>1, <2>2, ElementOfSeq
    <2>4. buffer[1].mark = "start"
        BY <2>1, <2>2, <2>3 DEF Mark
    <2>5. buffer[1 + 1].mark = "end"
        <3>1. IF Incoming[1].mark = "start" THEN Incoming[1 + 1] = [mark |-> "end", frame |-> Incoming[1].frame]
                                            ELSE Incoming[1 + 1].mark = "start"
            BY <2>2 DEF Pictures, Ordered
        <3>. QED
            BY <2>2, <2>4, <3>1
    <2>. QED
        BY <2>1, <2>2, <2>5
<1>9. CASE ends # {}
    <2>1. e \in 1..Len(buffer) /\ buffer[e].mark = "end" /\ \A j \in ends : j <= e
        BY <1>1, <1>9, LastOfMarks
    <2>2. buffer' = SubSeq(buffer, e + 1, Len(buffer))
        BY <1>9 DEF Decode, ConsumeFrames
    <2>3. IF Image(e) = <<>> THEN UNCHANGED currentFrame ELSE currentFrame' \in Decoded(Image(e))
        BY <1>9 DEF Decode, ConsumeFrames
    <2>. HIDE DEF e
    <2>4. Incoming[e] = buffer[e] /\ i # e /\ e \in 1..Len(Incoming)
        BY <1>1, <1>4, <1>7, <2>1
    <2>5. CASE i > e
        <3>1. buffer' \in Seq(Mark) /\ Len(buffer') = Len(buffer) - e
              /\ \A j \in 1..(Len(buffer) - e) : buffer'[j] = buffer[j + e]
            <4>1. e + 1 \in 1..(Len(buffer) + 1) /\ Len(buffer) \in 0..Len(buffer)
                BY <1>1, <2>1
            <4>2. /\ buffer' \in Seq(Mark)
                  /\ Len(buffer') = IF e + 1 <= Len(buffer) THEN Len(buffer) - (e + 1) + 1 ELSE 0
                  /\ \A j \in 1..(Len(buffer) - (e + 1) + 1) : buffer'[j] = buffer[(e + 1) + j - 1]
                BY <1>1, <2>2, <4>1, PartType
            <4>3. e \in Nat /\ 1 <= e /\ e <= Len(buffer)
                BY <1>1, <2>1
            <4>4. Len(buffer') = Len(buffer) - e
                BY <1>1, <4>2, <4>3
            <4>5. Len(buffer) - (e + 1) + 1 = Len(buffer) - e
                  /\ \A j \in 1..(Len(buffer) - e) : (e + 1) + j - 1 = j + e
                BY <1>1, <4>3
            <4>. QED
                BY <4>2, <4>4, <4>5
        <3>2. IsBack(Incoming', Incoming)
            <4>1. IsBack(buffer', buffer)
                BY <1>1, <2>1, <3>1 DEF IsBack
            <4>. QED
                BY <1>1, <1>3, <3>1, <4>1, BackOfConcat
        <3>3. Len(Incoming') = Len(Incoming) - e
            <4>1. Len(buffer' \o w) = Len(buffer') + Len(w)
                BY <1>1, <3>1, ConcatProperties
            <4>. QED
                BY <1>1, <1>3, <1>4, <2>1, <3>1, <4>1
        <3>. DEFINE k == i - e
        <3>4. /\ k \in 1..(Len(Incoming') - 1) /\ k \in 1..Len(Incoming') /\ k + 1 \in 1..Len(Incoming')
              /\ k + e = i /\ (k + 1) + e = i + 1 /\ Len(Incoming) - Len(Incoming') = e
            BY <1>1, <1>4, <2>1, <2>5, <3>3
        <3>. HIDE DEF k
        <3>5. Incoming'[k] = Incoming[i] /\ Incoming'[k + 1] = Incoming[i + 1]
            BY <3>2, <3>4 DEF IsBack
        <3>6. Incoming'[k] = Picture(g)[1] /\ Incoming'[k + 1] = Picture(g)[2]
            BY <1>5, <3>5
        <3>7. \E h \in f..MaxFrames : \E j \in 1..(Len(Incoming') - 1) :
                 Incoming'[j] = Picture(h)[1] /\ Incoming'[j + 1] = Picture(h)[2]
            BY <3>4, <3>6
        <3>. QED
            BY <3>7 DEF Carries, Picture
    <2>6. CASE i < e
        <3>1. i \in 1..e /\ i \in 1..Len(buffer) /\ Incoming[i] = buffer[i] /\ i \in 1..Len(Incoming)
            BY <1>1, <1>4, <2>1, <2>6
        <3>2. Marks("start", e) # {}
            BY <1>7, <3>1 DEF Marks
        <3>3. Image(e) # <<>>
            <4>. DEFINE k == LastOf(Marks("start", e))
            <4>1. e \in Nat
                BY <1>1, <2>1
            <4>2. k \in 1..e
                BY <3>2, <4>1, LastOfMarks
            <4>3. Image(e) = SubSeq(buffer, k, e)
                BY <3>2 DEF Image
            <4>. HIDE DEF k
            <4>4. k \in 1..(Len(buffer) + 1) /\ e \in 0..Len(buffer) /\ k <= e /\ e - k + 1 > 0
                BY <1>1, <2>1, <4>1, <4>2
            <4>5. Len(SubSeq(buffer, k, e)) = IF k <= e THEN e - k + 1 ELSE 0
                BY <1>1, <4>4, PartType
            <4>6. Len(Image(e)) > 0
                BY <4>3, <4>4, <4>5
            <4>7. Len(<<>>) = 0
                BY EmptySeq
            <4>. QED
                BY <4>6, <4>7
        <3>4. Image(e) = Picture(buffer[e].frame)
            BY <2>1, <3>3, ImageIsPicture
        <3>5. currentFrame' = Picture(buffer[e].frame)
            BY <2>3, <3>3, <3>4 DEF Decoded, Picture
        <3>6. buffer[e].frame \in 1..MaxFrames /\ g <= buffer[e].frame
            <4>1. buffer[e] \in Mark
                BY <1>6, <2>4
            <4>2. i <= e
                BY <1>1, <2>1, <2>6
            <4>3. Incoming[i].frame <= Incoming[e].frame
                BY <2>4, <3>1, <4>2 DEF Pictures, Ordered
            <4>. QED
                BY <1>7, <2>4, <4>1, <4>3 DEF Mark
        <3>7. currentFrame' # <<>> /\ currentFrame'[1].frame = buffer[e].frame
            BY <3>5 DEF Picture
        <3>8. buffer[e].frame >= f
            BY <1>5, <3>6, MaxFramesAssumption
        <3>. QED
            BY <3>7, <3>8 DEF Shows
    <2>. QED
        BY <1>1, <1>4, <2>1, <2>4, <2>5, <2>6
<1>. QED
    BY <1>8, <1>9

\* What a step does to what is on its way while the reply goes on: it is read,
\* shown, added to, or left alone.
LEMMA OnItsWay ==
    ASSUME LinkInv, Next, reply # NoReply, reply' = reply
    PROVE  \/ (Receive \/ Decode) /\ ~SendWhole
           \/ (SendWhole \/ DropClient) /\ UNCHANGED viewVars
           \/ ~SendWhole /\ Incoming' = Incoming
<1>1. reply \in Sockets /\ wire \in [Sockets -> Seq(Mark)]
    BY DEF LinkInv, View, Wires
<1>2. ~Open /\ ~Finished /\ ~CloseView
    BY DEF Open, OpenStream, OpenInVain, MayOpen, Finished, ReplyFinished, CloseView, StopView
<1>3. ASSUME served' = served PROVE ~SendWhole
    <2>1. server = "sending" => served \in Int
        BY DEF LinkInv, Listed
    <2>. QED
        BY <1>3, <2>1 DEF SendWhole
<1>4. CASE Server
    <2>1. CASE SendWhole \/ DropClient
        BY <1>4, <2>1 DEF Server
    <2>2. CASE ~(SendWhole \/ DropClient)
        <3>1. UNCHANGED <<reply, buffer, wire>>
            BY <1>4, <2>2 DEF Server, Serve, Accept, AcceptNoMore, Leave, WaitInVain, PickFrame, PassDone,
                              sockets, viewVars
        <3>. QED
            BY <2>2, <3>1 DEF Incoming
    <2>. QED
        BY <2>1, <2>2
<1>5. CASE Receive \/ Decode
    <2>1. served' = served
        BY <1>5 DEF Receive, Decode, streamerVars
    <2>. QED
        BY <1>3, <1>5, <2>1
<1>6. CASE ~Server /\ ~Receive /\ ~Decode
    <2>1. served' = served
        BY <1>2, <1>6 DEF Next, Terminal, BeginRun, StartStream, Publish, PublishImage, BeginStop, RequestStop,
            EndStop, FinishStop, OtherConnects, Connected, Break, Ended, vars, streamerVars
    <2>2. ~SendWhole
        BY <1>3, <2>1
    <2>3. buffer' = buffer
        BY <1>2, <1>6 DEF Next, Terminal, BeginRun, Publish, BeginStop, EndStop, OtherConnects, Break, Ended,
            vars, viewVars
    <2>4. wire'[reply] = wire[reply]
        <3>1. CASE OtherConnects
            <4>1. PICK c \in Sockets : Free(c) /\ Connected(c)
                BY <3>1 DEF OtherConnects
            <4>. QED
                BY <1>1, <4>1 DEF Free, Connected
        <3>2. CASE ~OtherConnects
            <4>1. wire' = wire
                BY <1>2, <1>6, <3>2 DEF Next, Terminal, BeginRun, StartStream, Publish, PublishImage, BeginStop,
                    RequestStop, EndStop, FinishStop, Break, Ended, vars, streamerVars, sockets
            <4>. QED
                BY <4>1
        <3>. QED
            BY <3>1, <3>2
    <2>. QED
        BY <2>2, <2>3, <2>4 DEF Incoming
<1>. QED
    BY <1>4, <1>6, <1>5

LEMMA StepCarries ==
    ASSUME LinkInv, Pictures, Next, BufferKeep > 2, NEW f \in 1..MaxFrames,
           reply # NoReply, reply' = reply, Carries(Incoming, f) \/ Sends(f)
    PROVE  Carries(Incoming, f)' \/ Shows(f)'
<1>1. Incoming \in Seq(Mark)
    BY IncomingType
<1>2. CASE Incoming' = Incoming /\ ~SendWhole
    BY <1>2 DEF Carries, Sends
<1>3. CASE Decode /\ ~SendWhole
    BY <1>3, DecodeCarries DEF Sends
<1>4. CASE Receive /\ ~SendWhole
    <2>1. Carries(Incoming, f)
        BY <1>4 DEF Sends
    <2>2. Incoming' \in Seq(Mark)
        BY <1>4, ReceiveCutsFront
    <2>3. CASE Incoming' = Incoming
        BY <2>1, <2>3 DEF Carries
    <2>4. CASE IsBack(Incoming', Incoming) /\ Len(Incoming') >= BufferKeep
        <3>1. Len(Incoming') > 2
            <4>1. BufferKeep \in Int /\ Len(Incoming') \in Int
                BY <2>2, BufferAssumption, LenProperties
            <4>. QED
                BY <2>4, <4>1
        <3>2. Carries(Incoming', f)
            BY <1>1, <2>1, <2>2, <2>4, <3>1, CarriesBack DEF Pictures
        <3>. QED
            BY <3>2 DEF Carries
    <2>. QED
        BY <1>4, <2>3, <2>4, ReceiveCutsFront
<1>5. CASE SendWhole /\ UNCHANGED viewVars
    <2>1. CASE clients[served + 1] # reply /\ (reply # NoReply => wire'[reply] = wire[reply])
        <3>1. Incoming' = Incoming
            BY <1>5, <2>1 DEF Incoming, viewVars
        <3>. QED
            BY <2>1, <3>1 DEF Carries, Sends
    <2>2. CASE outgoing \in 1..MaxFrames /\ Incoming' = Incoming \o Picture(outgoing)
        <3>1. Picture(outgoing) \in Seq(Mark)
            BY <2>2, PictureType
        <3>2. Carries(Incoming, f) => Carries(Incoming \o Picture(outgoing), f)
            BY <1>1, <3>1, CarriesMore
        <3>3. Sends(f) => Carries(Incoming \o Picture(outgoing), f)
            BY <1>1, CarriesLast DEF Sends
        <3>4. Carries(Incoming \o Picture(outgoing), f)
            BY <3>2, <3>3
        <3>. QED
            BY <2>2, <3>4 DEF Carries
    <2>. QED
        BY <1>5, <2>1, <2>2, SendExtends
<1>6. CASE DropClient /\ ~SendWhole /\ UNCHANGED viewVars
    <2>1. Carries(Incoming, f)
        BY <1>6 DEF Sends
    <2>2. CASE wire'[reply] = wire[reply]
        <3>1. Incoming' = Incoming
            BY <1>6, <2>2 DEF Incoming, viewVars
        <3>. QED
            BY <2>1, <3>1 DEF Carries
    <2>3. ASSUME NEW n \in 0..2, SubSeq(Picture(outgoing), 1, n) \in Seq(Mark),
                 Incoming' = Incoming \o SubSeq(Picture(outgoing), 1, n)
          PROVE  Carries(Incoming, f)'
        <3>1. Carries(Incoming \o SubSeq(Picture(outgoing), 1, n), f)
            BY <1>1, <2>1, <2>3, CarriesMore
        <3>. QED
            BY <2>3, <3>1 DEF Carries
    <2>. QED
        BY <1>6, <2>2, <2>3, DropExtends
<1>. QED
    BY <1>2, <1>3, <1>4, <1>5, <1>6, OnItsWay

\* serve() and MjpegView together: no frame that was written to the terminal is lost
\* by skipping, by taking out images or by cutting a long buffer; until the reply
\* ends it, or a newer one, is on its way or in view.
THEOREM SentFramesArriveCorrect == SafeSpec => SentFramesArrive
<1>. DEFINE Arrives == \A f \in 1..MaxFrames :
          /\ BufferKeep > 2
          /\ reply # NoReply /\ reply' = reply
          /\ Carries(Incoming, f) \/ Shows(f) \/ Sends(f)
          => Carries(Incoming, f)' \/ Shows(f)'
<1>1. LinkInv /\ Pictures /\ [Next]_vars => [Arrives]_vars
    <2> SUFFICES ASSUME LinkInv, Pictures, Next, NEW f \in 1..MaxFrames, BufferKeep > 2,
                        reply # NoReply, reply' = reply,
                        Carries(Incoming, f) \/ Shows(f) \/ Sends(f)
                 PROVE  Carries(Incoming, f)' \/ Shows(f)'
        OBVIOUS
    <2>1. CASE Shows(f)
        <3>1. ~CloseView
            BY DEF CloseView, StopView
        <3>2. /\ currentFrame' # <<>> /\ currentFrame[1].frame \in Nat /\ currentFrame'[1].frame \in Nat
              /\ currentFrame'[1].frame >= currentFrame[1].frame /\ currentFrame[1].frame >= f
            BY <2>1, <3>1, NewerShown DEF Shows
        <3>. DEFINE m == currentFrame[1].frame
                    n == currentFrame'[1].frame
        <3>3. m \in Nat /\ n \in Nat /\ n >= m /\ m >= f
            BY <3>2
        <3>. HIDE DEF m, n
        <3>4. n >= f
            BY <3>3
        <3>. QED
            BY <3>2, <3>4 DEF Shows, n
    <2>2. CASE Carries(Incoming, f) \/ Sends(f)
        BY <2>2, StepCarries
    <2>. QED
        BY <2>1, <2>2
<1>. QED
    BY <1>1, LinkCorrect, PicturesCorrect, PTL DEF SafeSpec, SentFramesArrive
=============================================================================
