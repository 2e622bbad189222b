---------------------------- MODULE TelemetryProofs ----------------------------
(***************************************************************************)
(* Theorems about TelemetrySystem, for any numbers of frames, events and   *)
(* failures and any capacity: stop() drains the queue before it            *)
(* disconnects, abandoned clients are no more than failed publishes, the   *)
(* library is initialised for each client that is alive, the broker first  *)
(* sees the messages in the order of the calls, and the publisher with its *)
(* queue and its worker is an outbox.                                      *)
(***************************************************************************)
EXTENDS TelemetrySystem, SequenceTheorems, FiniteSetTheorems, WellFoundedInduction, TLAPS

(* Induction over a set: the least number that was missing from it would    *)
(* come after one that is in it.                                           *)
LEMMA NatSetInduction ==
    ASSUME NEW S, 0 \in S, \A n \in Nat : n \in S => n + 1 \in S
    PROVE  \A n \in Nat : n \in S
<1> SUFFICES ASSUME Nat \ S # {} PROVE FALSE
    OBVIOUS
<1>. DEFINE less == OpToRel(<, Nat)
<1>1. PICK n \in Nat \ S : \A m \in Nat \ S : <<m, n>> \notin less
    <2>. HIDE DEF less
    <2>1. IsWellFoundedOn(less, Nat)
        BY NatLessThanWellFounded DEF less
    <2>. QED
        BY <2>1, WFMin
<1>2. n # 0 /\ n - 1 \in Nat /\ (n - 1) + 1 = n /\ n - 1 < n
    OBVIOUS
<1>3. <<n - 1, n>> \in less
    BY <1>2 DEF OpToRel
<1>. QED
    BY <1>1, <1>2, <1>3

\* The values from start on, each from the one before it.
Steps(g, start, n, step) == g[0] = start /\ \A k \in 1..n : g[k] = step[k][g[k - 1]]

LEMMA Recursion ==
    ASSUME NEW T, NEW start \in T, NEW n \in Nat, NEW step \in [1..n -> [T -> T]]
    PROVE  \E g \in [0..n -> T] : Steps(g, start, n, step)
<1>. DEFINE Good(m, g) == /\ g \in [0..m -> T]
                          /\ \A k \in 0..m : g[k] = IF k = 0 THEN start ELSE step[k][g[k - 1]]
            S == {m \in Nat : m <= n => \E g \in [0..m -> T] : Good(m, g)}
<1>1. 0 \in S
    <2>1. \A k \in 0..0 : k = 0
        OBVIOUS
    <2>2. Good(0, [k \in 0..0 |-> start])
        BY <2>1
    <2>. QED
        BY <2>2
<1>2. \A m \in Nat : m \in S => m + 1 \in S
    <2> SUFFICES ASSUME NEW m \in Nat, m \in S PROVE m + 1 \in S
        OBVIOUS
    <2> SUFFICES ASSUME m + 1 <= n PROVE \E g \in [0..(m + 1) -> T] : Good(m + 1, g)
        OBVIOUS
    <2>1. PICK g \in [0..m -> T] : Good(m, g)
        OBVIOUS
    <2>. DEFINE h == [k \in 0..(m + 1) |-> IF k = m + 1 THEN step[m + 1][g[m]] ELSE g[k]]
    <2>2. m + 1 \in 1..n /\ m \in 0..m /\ \A k \in 0..(m + 1) : k = m + 1 \/ k \in 0..m
        OBVIOUS
    <2>3. h \in [0..(m + 1) -> T]
        BY <2>2
    <2>4. ASSUME NEW k \in 0..(m + 1)
          PROVE  h[k] = IF k = 0 THEN start ELSE step[k][h[k - 1]]
        <3>1. CASE k = m + 1
            BY <2>2, <3>1
        <3>2. CASE k \in 0..m
            BY <2>1, <3>2
        <3>. QED
            BY <2>2, <3>1, <3>2
    <2>. QED
        BY <2>3, <2>4
<1>. HIDE DEF S
<1>3. n \in S
    BY <1>1, <1>2, NatSetInduction
<1>4. PICK g \in [0..n -> T] : Good(n, g)
    BY <1>3 DEF S
<1>5. Steps(g, start, n, step)
    BY <1>4 DEF Steps
<1>. QED
    BY <1>5

(* The places of s, up to the n-th, from which the elements of p are. *)
Selects(at, p, s, n, places) ==
    /\ \A i \in 1..Len(p) : at[i] \in places /\ p[i] = s[at[i]]
    /\ \A i, j \in 1..Len(p) : i < j => at[i] < at[j]
    /\ \A k \in 1..n : k \in places => \E i \in 1..Len(p) : at[i] = k

LEMMA SelectsNext ==
    ASSUME NEW T, NEW s \in Seq(T), NEW places, NEW n \in Nat, n + 1 \in places, n + 1 <= Len(s),
           NEW p \in Seq(T), NEW at \in [1..Len(p) -> 1..n], Selects(at, p, s, n, places)
    PROVE  /\ Append(p, s[n + 1]) \in Seq(T)
           /\ \E to \in [1..Len(Append(p, s[n + 1])) -> 1..(n + 1)] :
                 Selects(to, Append(p, s[n + 1]), s, n + 1, places)
<1>1. s[n + 1] \in T
    BY LenProperties
<1>. DEFINE q == Append(p, s[n + 1])
            to == [i \in 1..(Len(p) + 1) |-> IF i = Len(p) + 1 THEN n + 1 ELSE at[i]]
<1>2. /\ q \in Seq(T) /\ Len(q) = Len(p) + 1 /\ Len(p) \in Nat
      /\ \A i \in 1..Len(p) : q[i] = p[i]
      /\ q[Len(p) + 1] = s[n + 1]
    BY <1>1, AppendProperties, LenProperties
<1>. HIDE DEF q
<1>3. \A i \in 1..Len(q) : i \in 1..Len(p) \/ i = Len(p) + 1
    BY <1>2
<1>4. /\ to \in [1..Len(q) -> 1..(n + 1)]
      /\ to[Len(p) + 1] = n + 1 /\ \A i \in 1..Len(p) : to[i] = at[i] /\ to[i] < n + 1
    <2>1. /\ \A i \in 1..Len(p) : at[i] \in 1..n /\ i # Len(p) + 1 /\ i \in 1..(Len(p) + 1)
          /\ n + 1 \in 1..(n + 1) /\ Len(p) + 1 \in 1..(Len(p) + 1)
        BY <1>2
    <2>2. \A i \in 1..(Len(p) + 1) : i \in 1..Len(p) \/ i = Len(p) + 1
        BY <1>2
    <2>3. \A i \in 1..n : i \in 1..(n + 1) /\ i < n + 1
        OBVIOUS
    <2>4. to[Len(p) + 1] = n + 1 /\ \A i \in 1..Len(p) : to[i] = at[i]
        BY <2>1
    <2>5. \A i \in 1..(Len(p) + 1) : to[i] \in 1..(n + 1)
        <3>. HIDE DEF to
        <3>. QED
            BY <2>1, <2>2, <2>3, <2>4
    <2>6. to \in [1..(Len(p) + 1) -> 1..(n + 1)]
        BY <2>5
    <2>. HIDE DEF to
    <2>. QED
        BY <1>2, <2>1, <2>3, <2>4, <2>6
<1>. HIDE DEF to
<1>5. \A i \in 1..Len(q) : to[i] \in places /\ q[i] = s[to[i]]
    BY <1>2, <1>3, <1>4 DEF Selects
<1>6. ASSUME NEW i \in 1..Len(q), NEW j \in 1..Len(q), i < j PROVE to[i] < to[j]
    <2>1. i \in 1..Len(p)
        BY <1>2, <1>6
    <2>. QED
        BY <1>3, <1>4, <1>6, <2>1 DEF Selects
<1>7. ASSUME NEW k \in 1..(n + 1), k \in places PROVE \E i \in 1..Len(q) : to[i] = k
    <2>1. CASE k = n + 1
        BY <1>2, <1>4, <2>1
    <2>2. CASE k \in 1..n
        <3>1. PICK i \in 1..Len(p) : at[i] = k
            BY <1>7, <2>2 DEF Selects
        <3>2. i \in 1..Len(q)
            BY <1>2
        <3>3. to[i] = k
            BY <1>4, <3>1
        <3>. QED
            BY <3>2, <3>3
    <2>. QED
        BY <2>1, <2>2
<1>. QED
    BY <1>2, <1>4, <1>5, <1>6, <1>7 DEF Selects, q

LEMMA PickedProperties ==
    ASSUME NEW T, NEW s \in Seq(T), NEW places
    PROVE  /\ Picked(s, places) \in Seq(T)
           /\ \E at \in [1..Len(Picked(s, places)) -> 1..Len(s)] :
                 Selects(at, Picked(s, places), s, Len(s), places)
<1>. DEFINE upTo[k \in 0..Len(s)] ==
                IF k = 0 THEN <<>>
                ELSE IF k \in places THEN Append(upTo[k - 1], s[k])
                ELSE upTo[k - 1]
            n == Len(s)
<1>1. Picked(s, places) = upTo[n]
    BY DEF Picked
<1>2. n \in Nat /\ \A k \in 1..n : s[k] \in T
    BY LenProperties
<1>3. \E g : g = [k \in 0..Len(s) |->
                     IF k = 0 THEN <<>>
                     ELSE IF k \in places THEN Append(g[k - 1], s[k])
                     ELSE g[k - 1]]
    <2>. DEFINE step == [k \in 1..n |->
                            [p \in Seq(T) |-> IF k \in places THEN Append(p, s[k]) ELSE p]]
    <2>1. step \in [1..n -> [Seq(T) -> Seq(T)]]
        BY <1>2, AppendProperties
    <2>2. <<>> \in Seq(T)
        BY EmptySeq
    <2>. HIDE DEF step, n
    <2>3. PICK g \in [0..n -> Seq(T)] : Steps(g, <<>>, n, step)
        BY <1>2, <2>1, <2>2, Recursion
    <2>4. ASSUME NEW k \in 0..n
          PROVE  g[k] = IF k = 0 THEN <<>>
                        ELSE IF k \in places THEN Append(g[k - 1], s[k])
                        ELSE g[k - 1]
        <3>1. CASE k = 0
            BY <2>3, <3>1 DEF Steps
        <3>2. CASE k # 0
            <4>1. k \in 1..n /\ k - 1 \in 0..n
                BY <1>2, <3>2
            <4>2. g[k - 1] \in Seq(T)
                BY <4>1
            <4>3. step[k][g[k - 1]] = IF k \in places THEN Append(g[k - 1], s[k]) ELSE g[k - 1]
                BY <4>1, <4>2 DEF step
            <4>. QED
                BY <2>3, <3>2, <4>1, <4>3 DEF Steps
        <3>. QED
            BY <3>1, <3>2
    <2>5. g = [k \in 0..n |-> IF k = 0 THEN <<>>
                              ELSE IF k \in places THEN Append(g[k - 1], s[k])
                              ELSE g[k - 1]]
        BY <2>4
    <2>. QED
        BY <2>5 DEF n
<1>4. upTo = [k \in 0..Len(s) |-> IF k = 0 THEN <<>>
                                  ELSE IF k \in places THEN Append(upTo[k - 1], s[k])
                                  ELSE upTo[k - 1]]
    BY <1>3
<1>. HIDE DEF upTo
<1>5. \A k \in 0..n : upTo[k] = IF k = 0 THEN <<>>
                                ELSE IF k \in places THEN Append(upTo[k - 1], s[k])
                                ELSE upTo[k - 1]
    BY <1>4
<1>. HIDE DEF n
<1>. DEFINE Good(k) == /\ upTo[k] \in Seq(T)
                       /\ \E at \in [1..Len(upTo[k]) -> 1..k] : Selects(at, upTo[k], s, k, places)
            S == {k \in Nat : k <= n => Good(k)}
<1>6. 0 \in S
    <2>1. 0 \in 0..n
        BY <1>2
    <2>2. upTo[0] = <<>> /\ <<>> \in Seq(T) /\ Len(<<>>) = 0
        BY <1>5, <2>1, EmptySeq, Zenon
    <2>3. <<>> \in [1..0 -> 1..0] /\ 1..0 = {}
        OBVIOUS
    <2>4. Selects(<<>>, <<>>, s, 0, places)
        BY <2>2, <2>3 DEF Selects
    <2>5. Good(0)
        BY <2>2, <2>3, <2>4
    <2>. QED
        BY <2>5
<1>7. ASSUME NEW k \in Nat, k \in S PROVE k + 1 \in S
    <2> SUFFICES ASSUME k + 1 <= n PROVE Good(k + 1)
        OBVIOUS
    <2>1. Good(k) /\ k + 1 \in 0..n /\ k + 1 # 0 /\ (k + 1) - 1 = k
        BY <1>2, <1>7
    <2>2. PICK at \in [1..Len(upTo[k]) -> 1..k] : Selects(at, upTo[k], s, k, places)
        BY <2>1
    <2>3. CASE k + 1 \in places
        <3>1. upTo[k + 1] = Append(upTo[k], s[k + 1])
            BY <1>5, <2>1, <2>3
        <3>2. /\ Append(upTo[k], s[k + 1]) \in Seq(T)
              /\ \E to \in [1..Len(Append(upTo[k], s[k + 1])) -> 1..(k + 1)] :
                    Selects(to, Append(upTo[k], s[k + 1]), s, k + 1, places)
            BY <2>1, <2>2, <2>3, SelectsNext DEF n
        <3>. QED
            BY <3>1, <3>2
    <2>4. CASE k + 1 \notin places
        <3>1. upTo[k + 1] = upTo[k]
            BY <1>5, <2>1, <2>4
        <3>2. at \in [1..Len(upTo[k]) -> 1..(k + 1)]
            BY <2>2
        <3>3. Selects(at, upTo[k], s, k + 1, places)
            <4>1. \A j \in 1..(k + 1) : j \in places => j \in 1..k
                BY <2>4
            <4>. QED
                BY <2>2, <4>1 DEF Selects
        <3>. QED
            BY <2>1, <3>1, <3>2, <3>3
    <2>. QED
        BY <2>3, <2>4
<1>. HIDE DEF S
<1>8. n \in S
    BY <1>2, <1>6, <1>7, NatSetInduction
<1>. QED
    BY <1>1, <1>2, <1>8 DEF S, n

----------------------------------------------------------------------------
(***************************************************************************)
(* The publisher.                                                          *)
(***************************************************************************)
PublisherTypes ==
    /\ items \in Seq(Message) /\ todo \in Seq(Message) /\ held \in Seq(Message)
    /\ accepted \in Seq(Message) /\ handed \in Seq(Message)
    /\ closed \in BOOLEAN /\ framesDone \in 0..Frames

\* What the queue took is what was handed over, what the worker holds, and what
\* is still queued; the worker leaves when the queue is closed and empty.
InOrder == accepted = (handed \o held) \o items
WorkerPhase ==
    /\ phase = "created" => worker = "none"
    /\ worker # "publishing" => held = <<>>
    /\ worker = "done" => closed /\ items = <<>>
    /\ phase = "stopped" => worker = "done"

PublisherInv == PublisherTypes /\ InOrder /\ WorkerPhase

\* The messages of a frame are messages.
LEMMA FrameMessagesType ==
    ASSUME NEW f \in 1..(Frames + 1), NEW events \in 0..MaxEvents, NEW can \in CanVersions
    PROVE  FrameMessages(f, events, can) \in Seq(Message)
<1>. DEFINE Summary == <<Msg("frames", f, 0, can)>>
            Events == [e \in 1..events |-> Msg("events", f, e, can)]
            State == IF can = 0 THEN <<>> ELSE <<Msg("can/state", f, events + 1, can)>>
<1>1. Summary \in Seq(Message)
    BY SystemAssumption DEF Msg, Message
<1>2. Events \in Seq(Message)
    <2>1. events \in Nat /\ Events \in [1..events -> Message]
        BY SystemAssumption DEF Msg, Message
    <2>. QED
        BY <2>1, SeqDef
<1>3. State \in Seq(Message)
    <2>1. Msg("can/state", f, events + 1, can) \in Message
        BY SystemAssumption DEF Msg, Message
    <2>. QED
        BY <2>1, EmptySeq
<1>. HIDE DEF Summary, Events, State
<1>4. (Summary \o Events) \o State \in Seq(Message)
    BY <1>1, <1>2, <1>3, ConcatProperties
<1>. QED
    BY <1>4 DEF FrameMessages, Summary, Events, State

\* A message goes to the back of the queue, or from its front to the worker.
LEMMA PushKeepsOrder == PublisherInv /\ Push => PublisherInv'
<1> SUFFICES ASSUME PublisherInv, Push PROVE PublisherInv'
    OBVIOUS
<1>. USE DEF PublisherInv
<1>1. /\ todo # <<>> /\ todo' = Tail(todo)
      /\ UNCHANGED <<phase, worker, held, handed, closed, framesDone>>
    BY DEF Push, PublishAsync, Store, Refuse, Discard, queue
<1>2. Head(todo) \in Message /\ todo' \in Seq(Message)
    BY <1>1, HeadTailProperties DEF PublisherTypes
<1>3. CASE Store(Head(todo)) /\ accepted' = Append(accepted, Head(todo))
    <2>. DEFINE m == <<Head(todo)>>
    <2>1. ~closed /\ items' = Append(items, Head(todo))
        BY <1>3 DEF Store
    <2>2. m \in Seq(Message)
        BY <1>2
    <2>3. accepted' = accepted \o m /\ items' = items \o m
        BY <1>2, <1>3, <2>1, AppendIsConcat DEF PublisherTypes
    <2>. HIDE DEF m
    <2>4. accepted' \in Seq(Message) /\ items' \in Seq(Message) /\ handed \o held \in Seq(Message)
        BY <2>2, <2>3, ConcatProperties DEF PublisherTypes
    <2>5. items \in Seq(Message)
        BY DEF PublisherTypes
    <2>6. ((handed \o held) \o items) \o m = (handed \o held) \o (items \o m)
        <3> SUFFICES ASSUME NEW s \in Seq(Message)
                     PROVE  (s \o items) \o m = s \o (items \o m)
            BY <2>4
        <3>. QED
            BY <2>2, <2>5, ConcatAssociative
    <2>. QED
        BY <1>1, <1>2, <2>1, <2>3, <2>4, <2>6 DEF PublisherTypes, InOrder, WorkerPhase
<1>4. CASE UNCHANGED <<items, accepted>>
    BY <1>1, <1>2, <1>4 DEF PublisherTypes, InOrder, WorkerPhase
<1>. QED
    BY <1>3, <1>4 DEF Push, PublishAsync, Refuse, Discard, queue

LEMMA WorkerKeepsOrder == PublisherInv /\ Worker => PublisherInv'
<1> SUFFICES ASSUME PublisherInv, Worker PROVE PublisherInv'
    OBVIOUS
<1>. USE DEF PublisherInv
<1>1. CASE Pop
    <2>1. /\ items # <<>> /\ items' = Tail(items) /\ held' = <<Head(items)>>
          /\ worker = "popping" /\ worker' = "publishing"
          /\ UNCHANGED <<phase, todo, accepted, handed, closed, framesDone>>
        BY <1>1 DEF Pop, WorkerPops, Take
    <2>2. Head(items) \in Message /\ items' \in Seq(Message)
        BY <2>1, HeadTailProperties DEF PublisherTypes
    <2>3. held' \in Seq(Message)
        BY <2>1, <2>2
    <2>4. items = held' \o items'
        BY <2>1, <2>2 DEF PublisherTypes
    <2>5. (handed \o held) \o items = (handed \o held') \o items'
        <3>1. handed \in Seq(Message) /\ held = <<>>
            BY <2>1 DEF PublisherTypes, WorkerPhase
        <3>2. handed \o held = handed
            BY <3>1, ConcatEmptySeq
        <3>3. handed \o (held' \o items') = (handed \o held') \o items'
            BY <2>2, <2>3, <3>1, ConcatAssociative
        <3>. QED
            BY <2>4, <3>2, <3>3
    <2>. QED
        BY <2>1, <2>2, <2>3, <2>5 DEF PublisherTypes, InOrder, WorkerPhase
<1>2. CASE Hand
    <2>1. /\ handed' = handed \o held /\ held' = <<>> /\ worker = "publishing" /\ worker' = "popping"
          /\ UNCHANGED <<items, closed, phase, todo, accepted, framesDone>>
        BY <1>2 DEF Hand, WorkerPublishes
    <2>2. handed' \in Seq(Message) /\ held' \in Seq(Message) /\ handed' \o held' = handed'
        BY <2>1, ConcatProperties, ConcatEmptySeq, EmptySeq DEF PublisherTypes
    <2>. QED
        BY <2>1, <2>2 DEF PublisherTypes, InOrder, WorkerPhase
<1>3. CASE Exit
    BY <1>3 DEF Exit, WorkerExits, Drained, PopMayProceed, queue, PublisherTypes, InOrder, WorkerPhase
<1>. QED
    BY <1>1, <1>2, <1>3 DEF Worker

\* The owner's other calls do not touch the queue, but for closing it.
LEMMA OwnerKeepsOrder ==
    PublisherInv /\ (Start \/ Summarise \/ ReportStatus \/ BeginStop \/ EndStop) => PublisherInv'
<1> SUFFICES ASSUME PublisherInv, Start \/ Summarise \/ ReportStatus \/ BeginStop \/ EndStop
             PROVE  PublisherInv'
    OBVIOUS
<1>. USE SystemAssumption DEF PublisherInv
<1>1. UNCHANGED <<items, held, accepted, handed>>
    BY DEF Start, Summarise, ReportStatus, BeginStop, EndStop, StartThread, PublishFrameSummary,
           PublishStatus, StopCloses, StopJoins, Shut
<1>2. CASE Start
    BY <1>1, <1>2 DEF Start, StartThread, PublisherTypes, InOrder, WorkerPhase
<1>3. CASE Summarise
    <2>1. todo' \in Seq(Message)
        BY <1>3, FrameMessagesType DEF Summarise, PublishFrameSummary, PublisherTypes
    <2>. QED
        BY <1>1, <1>3, <2>1
        DEF Summarise, PublishFrameSummary, PublisherTypes, InOrder, WorkerPhase
<1>4. CASE ReportStatus
    <2>1. Msg("status", Frames + 1, 0, 0) \in Message
        BY DEF Msg, Message
    <2>2. todo' \in Seq(Message)
        BY <1>4, <2>1 DEF ReportStatus, PublishStatus
    <2>. QED
        BY <1>1, <1>4, <2>2 DEF ReportStatus, PublishStatus, PublisherTypes, InOrder, WorkerPhase
<1>5. CASE BeginStop \/ EndStop
    BY <1>1, <1>5 DEF BeginStop, EndStop, StopCloses, StopJoins, Shut, PublisherTypes, InOrder,
                      WorkerPhase
<1>. QED
    BY <1>2, <1>3, <1>4, <1>5

LEMMA PublisherCorrect == Spec => []PublisherInv
<1>1. Init => PublisherInv
    <2>1. <<>> \in Seq(Message)
        BY EmptySeq
    <2>2. (<<>> \o <<>>) \o <<>> = <<>>
        BY <2>1, ConcatEmptySeq
    <2> SUFFICES ASSUME Init PROVE PublisherInv
        OBVIOUS
    <2>. USE DEF Init, PublisherInit, QueueInit
    <2>3. PublisherTypes
        <3>1. /\ items \in Seq(Message) /\ todo \in Seq(Message) /\ held \in Seq(Message)
              /\ accepted \in Seq(Message) /\ handed \in Seq(Message)
            BY <2>1
        <3>2. closed \in BOOLEAN
            OBVIOUS
        <3>3. framesDone \in 0..Frames
            BY SystemAssumption
        <3>. QED
            BY <3>1, <3>2, <3>3 DEF PublisherTypes
    <2>4. InOrder
        BY <2>2 DEF InOrder
    <2>5. WorkerPhase
        BY DEF WorkerPhase
    <2>. QED
        BY <2>3, <2>4, <2>5 DEF PublisherInv
<1>2. PublisherInv /\ [Next]_vars => PublisherInv'
    <2> SUFFICES ASSUME PublisherInv, [Next]_vars PROVE PublisherInv'
        OBVIOUS
    <2>1. CASE Owner \/ Worker
        BY <2>1, OwnerKeepsOrder, PushKeepsOrder, WorkerKeepsOrder DEF Owner
    <2>2. CASE UNCHANGED <<publisherVars, framesDone>>
        BY <2>2 DEF publisherVars, PublisherInv, PublisherTypes, InOrder, WorkerPhase
    <2>. QED
        BY <2>1, <2>2 DEF Next, Stopped, vars
<1>. QED
    BY <1>1, <1>2, PTL DEF Spec

\* TelemetryPublisher::stop disconnects when every message that the queue took
\* has been given to the client, in order.
THEOREM DrainedBeforeDisconnectCorrect == Spec => []DrainedBeforeDisconnect
<1>1. PublisherInv => DrainedBeforeDisconnect
    <2> SUFFICES ASSUME PublisherInv, phase = "stopped"
                 PROVE  worker = "done" /\ held = <<>> /\ handed = accepted
        BY DEF DrainedBeforeDisconnect
    <2>1. worker = "done" /\ held = <<>> /\ items = <<>>
        BY DEF PublisherInv, WorkerPhase
    <2>. QED
        BY <2>1, ConcatEmptySeq DEF PublisherInv, PublisherTypes, InOrder
<1>. QED
    BY <1>1, PublisherCorrect, PTL

----------------------------------------------------------------------------
(***************************************************************************)
(* The client.  A client that is abandoned was in use when a publish       *)
(* failed: from then on, until it is replaced, it counts as one of them.   *)
(***************************************************************************)
ClientTypes ==
    /\ live \subseteq Handles /\ client \in live \cup {NoClient}
    /\ connected \in BOOLEAN /\ (connected => client # NoClient)

FailuresCounted ==
    /\ publishErrors \in Nat /\ refusals \in Nat /\ linkLosses \in Nat
    /\ failures <= MaxFailures

AbandonedCounted ==
    /\ Cardinality(live \ {client}) <= publishErrors
    /\ ~connected => Cardinality(live) <= publishErrors

LibraryCounted == libRefs \in Nat /\ Cardinality(live) <= libRefs

ClientInv == ClientTypes /\ FailuresCounted /\ AbandonedCounted /\ LibraryCounted

LEMMA LiveIsFinite ==
    ASSUME NEW S, S \subseteq Handles PROVE IsFiniteSet(S) /\ Cardinality(S) \in Nat
<1>1. IsFiniteSet(Handles)
    <2>1. 1 \in Int /\ MaxFailures + 1 \in Int
        BY MaxFailuresAssumption
    <2>. QED
        BY <2>1, FS_Interval DEF Handles
<1>2. IsFiniteSet(S)
    BY <1>1, FS_Subset
<1>. QED
    BY <1>2, FS_CardinalityType

\* There is a handle for a new client: those in use are failed ones.
LEMMA FreshIsFree == ASSUME ClientInv, ~connected PROVE Fresh \in Handles \ live
<1>1. Cardinality(live) <= publishErrors /\ publishErrors <= MaxFailures
    <2>1. Cardinality(live) \in Nat
        BY LiveIsFinite DEF ClientInv, ClientTypes
    <2>. QED
        BY <2>1, MaxFailuresAssumption
        DEF ClientInv, AbandonedCounted, FailuresCounted, failures
<1>2. Cardinality(Handles) = MaxFailures + 1
    BY MaxFailuresAssumption, FS_Interval DEF Handles
<1>3. Cardinality(live) \in Nat /\ publishErrors \in Nat
    BY LiveIsFinite DEF ClientInv, ClientTypes, FailuresCounted
<1>4. live # Handles
    BY <1>1, <1>2, <1>3, MaxFailuresAssumption
<1>5. \E h \in Handles : h \notin live
    BY <1>4 DEF ClientInv, ClientTypes
<1>. QED
    BY <1>5 DEF Fresh

\* connect() abandons the client that was there.
LEMMA OpenClientCounts ==
    ASSUME ClientInv, OpenClient
    PROVE  /\ live' \subseteq Handles /\ client' \in live' /\ client' # NoClient
           /\ Cardinality(live' \ {client'}) <= publishErrors
           /\ Cardinality(live') <= publishErrors + 1
           /\ LibraryCounted'
<1>1. ~connected /\ client' = Fresh /\ live' = live \cup {Fresh} /\ libRefs' = libRefs + 1
    BY DEF OpenClient
<1>2. Fresh \in Handles \ live /\ live \subseteq Handles
    BY <1>1, FreshIsFree DEF ClientInv, ClientTypes
<1>3. IsFiniteSet(live) /\ Cardinality(live) \in Nat
    BY <1>2, LiveIsFinite
<1>4. live' \ {client'} = live
    BY <1>1, <1>2
<1>5. Cardinality(live') = Cardinality(live) + 1
    BY <1>1, <1>2, <1>3, FS_AddElement
<1>6. Cardinality(live) <= publishErrors /\ publishErrors \in Nat
    BY <1>1 DEF ClientInv, AbandonedCounted, FailuresCounted
<1>7. LibraryCounted'
    BY <1>1, <1>3, <1>5 DEF ClientInv, LibraryCounted
<1>8. client' # NoClient
    BY <1>1, <1>2 DEF Handles, NoClient
<1>. QED
    BY <1>1, <1>2, <1>3, <1>4, <1>5, <1>6, <1>7, <1>8

\* connect() that fails abandons it as well, and leaves none.
LEMMA RefusalKeepsClients == ClientInv /\ ConnectFails => ClientInv'
<1> SUFFICES ASSUME ClientInv, ConnectFails PROVE ClientInv'
    OBVIOUS
<1>1. /\ ~connected /\ client' = NoClient /\ libRefs' = libRefs + 1
      /\ UNCHANGED <<connected, live, publishErrors, linkLosses>>
      /\ refusals' = refusals + 1 /\ failures < MaxFailures
    BY DEF ConnectFails
<1>2. ClientTypes'
    BY <1>1 DEF ClientInv, ClientTypes
<1>3. FailuresCounted'
    BY <1>1, MaxFailuresAssumption DEF ClientInv, FailuresCounted, failures
<1>4. live' \ {client'} = live
    BY <1>1 DEF ClientInv, ClientTypes, Handles, NoClient
<1>5. AbandonedCounted'
    BY <1>1, <1>4 DEF ClientInv, AbandonedCounted
<1>6. Cardinality(live) \in Nat
    BY LiveIsFinite DEF ClientInv, ClientTypes
<1>7. LibraryCounted'
    BY <1>1, <1>6 DEF ClientInv, LibraryCounted
<1>. QED
    BY <1>2, <1>3, <1>5, <1>7 DEF ClientInv

LEMMA ConnectKeepsClients == ClientInv /\ Connect => ClientInv'
<1> SUFFICES ASSUME ClientInv, Connect PROVE ClientInv'
    OBVIOUS
<1>1. OpenClient /\ connected' = TRUE /\ UNCHANGED <<publishErrors, refusals, linkLosses>>
    BY DEF Connect
<1>2. ClientTypes'
    BY <1>1, OpenClientCounts DEF ClientTypes
<1>3. FailuresCounted'
    BY <1>1 DEF ClientInv, FailuresCounted, failures
<1>4. AbandonedCounted' /\ LibraryCounted'
    BY <1>1, OpenClientCounts DEF AbandonedCounted
<1>. QED
    BY <1>2, <1>3, <1>4 DEF ClientInv

\* The end of publish(), with the client that was there or a new one: an error
\* is counted as the client is given up.
LEMMA OutcomeIsCounted ==
    ASSUME NEW m, ClientInv, Queued(m) \/ Rejected(m), UNCHANGED <<refusals, linkLosses>>,
           Cardinality(live' \ {client'}) <= publishErrors,
           Cardinality(live') <= publishErrors + 1, live' \subseteq Handles
    PROVE  FailuresCounted' /\ AbandonedCounted' /\ connected' \in BOOLEAN
<1>1. \/ publishErrors' = publishErrors /\ connected' = TRUE
      \/ publishErrors' = publishErrors + 1 /\ connected' = FALSE /\ failures < MaxFailures
    BY DEF Queued, Rejected
<1>2. FailuresCounted'
    BY <1>1, MaxFailuresAssumption DEF ClientInv, FailuresCounted, failures
<1>3. Cardinality(live' \ {client'}) \in Nat /\ publishErrors \in Nat
    <2>1. live' \ {client'} \subseteq Handles
        OBVIOUS
    <2>. QED
        BY <2>1, LiveIsFinite DEF ClientInv, FailuresCounted
<1>4. AbandonedCounted'
    BY <1>1, <1>3 DEF AbandonedCounted
<1>. QED
    BY <1>1, <1>2, <1>4

LEMMA PublishKeepsClients == ASSUME NEW m, ClientInv, Publish(m) PROVE ClientInv'
<1>1. CASE ConnectFails
    BY <1>1, RefusalKeepsClients
<1>2. ASSUME connected, UNCHANGED <<client, libRefs, live, refusals, linkLosses>>,
             Queued(m) \/ Rejected(m)
      PROVE  ClientInv'
    <2>1. client \in live /\ live \subseteq Handles /\ client # NoClient
        BY <1>2 DEF ClientInv, ClientTypes
    <2>2. Cardinality(live) = Cardinality(live \ {client}) + 1
        <3>1. Cardinality(live \ {client}) = Cardinality(live) - 1
            BY <2>1, LiveIsFinite, FS_RemoveElement
        <3>. QED
            BY <2>1, <3>1, LiveIsFinite
    <2>3. Cardinality(live' \ {client'}) <= publishErrors
        BY <1>2 DEF ClientInv, AbandonedCounted
    <2>4. Cardinality(live \ {client}) \in Nat /\ publishErrors \in Nat
        <3>1. live \ {client} \subseteq Handles
            BY <2>1
        <3>. QED
            BY <3>1, LiveIsFinite DEF ClientInv, FailuresCounted
    <2>5. Cardinality(live') <= publishErrors + 1
        BY <1>2, <2>2, <2>3, <2>4
    <2>6. FailuresCounted' /\ AbandonedCounted' /\ connected' \in BOOLEAN
        BY <1>2, <2>1, <2>3, <2>5, OutcomeIsCounted
    <2>7. ClientTypes' /\ LibraryCounted'
        BY <1>2, <2>1, <2>6 DEF ClientTypes, ClientInv, LibraryCounted
    <2>. QED
        BY <2>6, <2>7 DEF ClientInv
<1>3. ASSUME OpenClient, UNCHANGED <<refusals, linkLosses>>, Queued(m) \/ Rejected(m)
      PROVE  ClientInv'
    <2>1. /\ live' \subseteq Handles /\ client' \in live' /\ client' # NoClient /\ LibraryCounted'
          /\ Cardinality(live' \ {client'}) <= publishErrors
          /\ Cardinality(live') <= publishErrors + 1
        BY <1>3, OpenClientCounts
    <2>2. FailuresCounted' /\ AbandonedCounted' /\ connected' \in BOOLEAN
        BY <1>3, <2>1, OutcomeIsCounted
    <2>3. ClientTypes'
        BY <2>1, <2>2 DEF ClientTypes
    <2>. QED
        BY <2>1, <2>2, <2>3 DEF ClientInv
<1>. QED
    BY <1>1, <1>2, <1>3 DEF Publish

LEMMA DisconnectKeepsClients == ClientInv /\ Disconnect => ClientInv'
<1> SUFFICES ASSUME ClientInv, Disconnect PROVE ClientInv'
    OBVIOUS
<1>1. /\ client' = NoClient /\ connected' = FALSE
      /\ UNCHANGED <<publishErrors, refusals, linkLosses>>
    BY DEF Disconnect
<1>2. NoClient \notin live /\ live \subseteq Handles
    BY DEF ClientInv, ClientTypes, Handles, NoClient
<1>3. \/ client = NoClient /\ live' = live /\ libRefs' = libRefs
      \/ client \in live /\ live' = live \ {client} /\ libRefs' = libRefs - 1
    BY DEF Disconnect, ClientInv, ClientTypes
<1>4. live' = live \ {client} /\ live' \ {client'} = live'
    BY <1>1, <1>2, <1>3
<1>5. ClientTypes'
    BY <1>1, <1>2, <1>4 DEF ClientTypes
<1>6. FailuresCounted'
    BY <1>1 DEF ClientInv, FailuresCounted, failures
<1>7. AbandonedCounted'
    BY <1>1, <1>4 DEF ClientInv, AbandonedCounted
<1>8. client \in live => Cardinality(live \ {client}) = Cardinality(live) - 1
    BY <1>2, LiveIsFinite, FS_RemoveElement
<1>9. Cardinality(live) \in Nat /\ Cardinality(live') \in Nat
    <2>1. live' \subseteq Handles
        BY <1>2, <1>4
    <2>. QED
        BY <1>2, <2>1, LiveIsFinite
<1>10. LibraryCounted'
    <2>1. CASE client = NoClient /\ live' = live /\ libRefs' = libRefs
        BY <2>1 DEF ClientInv, LibraryCounted
    <2>2. CASE client \in live /\ live' = live \ {client} /\ libRefs' = libRefs - 1
        BY <1>8, <1>9, <2>2 DEF ClientInv, LibraryCounted
    <2>. QED
        BY <1>3, <2>1, <2>2
<1>. QED
    BY <1>5, <1>6, <1>7, <1>10 DEF ClientInv

LEMMA ClientStep == ClientInv /\ [Next]_vars => ClientInv'
<1> SUFFICES ASSUME ClientInv, [Next]_vars PROVE ClientInv'
    OBVIOUS
<1>1. CASE Start
    BY <1>1, ConnectKeepsClients, RefusalKeepsClients DEF Start
<1>2. CASE Hand
    BY <1>2, PublishKeepsClients DEF Hand
<1>3. CASE EndStop
    BY <1>3, DisconnectKeepsClients DEF EndStop
<1>4. CASE Network
    <2>1. /\ UNCHANGED <<client, connected, libRefs, live, publishErrors, refusals>>
          /\ linkLosses' = linkLosses \/ (linkLosses' = linkLosses + 1 /\ failures < MaxFailures)
        BY <1>4 DEF Network, Transmit, Acknowledge, LinkLost, Reconnect
    <2>2. FailuresCounted'
        BY <2>1, MaxFailuresAssumption DEF ClientInv, FailuresCounted, failures
    <2>. QED
        BY <2>1, <2>2 DEF ClientInv, ClientTypes, AbandonedCounted, LibraryCounted
<1>5. CASE UNCHANGED mqttVars
    BY <1>5 DEF mqttVars, ClientInv, ClientTypes, FailuresCounted, AbandonedCounted,
                LibraryCounted, failures
<1>. QED
    BY <1>1, <1>2, <1>3, <1>4, <1>5
    DEF Next, Owner, Worker, Stopped, Summarise, ReportStatus, Push, BeginStop, Pop, Exit, vars

LEMMA ClientCorrect == Spec => []ClientInv
<1>1. Init => ClientInv
    <2> SUFFICES ASSUME Init PROVE ClientInv
        OBVIOUS
    <2>1. live = {} /\ live \ {client} = {} /\ client = NoClient /\ connected = FALSE
        BY DEF Init, MqttInit
    <2>2. ClientTypes
        BY <2>1 DEF ClientTypes
    <2>3. FailuresCounted
        BY MaxFailuresAssumption DEF Init, MqttInit, FailuresCounted, failures
    <2>4. publishErrors = 0 /\ libRefs = 0
        BY DEF Init, MqttInit
    <2>5. AbandonedCounted /\ LibraryCounted
        BY <2>1, <2>4, FS_EmptySet DEF AbandonedCounted, LibraryCounted
    <2>. QED
        BY <2>2, <2>3, <2>5 DEF ClientInv
<1>. QED
    BY <1>1, ClientStep, PTL DEF Spec

\* MqttClient::connect abandons a client at most once for each publish that failed.
THEOREM LeaksBoundedCorrect == Spec => []LeaksBounded
<1>1. ClientInv => LeaksBounded
    BY DEF ClientInv, AbandonedCounted, LeaksBounded
<1>. QED
    BY <1>1, ClientCorrect, PTL

\* mosquitto_lib_cleanup never comes while a client is alive.
THEOREM LibraryOutlivesClientsCorrect == Spec => []LibraryOutlivesClients
<1>1. ClientInv => LibraryOutlivesClients
    BY DEF ClientInv, LibraryCounted, LibraryOutlivesClients
<1>. QED
    BY <1>1, ClientCorrect, PTL

----------------------------------------------------------------------------
(***************************************************************************)
(* The order of the calls.                                                 *)
(***************************************************************************)
Elements(s) == {s[i] : i \in 1..Len(s)}
Sorted(s) == \A i, j \in 1..Len(s) : i < j => Before(s[i], s[j])
Follows(m, A) == \A x \in A : Before(x, m)

LEMMA BeforeIsOrder ==
    ASSUME NEW k \in Message, NEW m \in Message, NEW n \in Message, Before(k, m), Before(m, n)
    PROVE  Before(k, n)
BY SystemAssumption DEF Before, Message

LEMMA AppendSorted ==
    ASSUME NEW s \in Seq(Message), NEW m \in Message, Sorted(s), Follows(m, Elements(s))
    PROVE  /\ Append(s, m) \in Seq(Message) /\ Len(Append(s, m)) = Len(s) + 1
           /\ Sorted(Append(s, m)) /\ Elements(Append(s, m)) = Elements(s) \cup {m}
<1>. DEFINE t == Append(s, m)
            n == Len(s)
<1>1. /\ t \in Seq(Message) /\ Len(t) = n + 1 /\ n \in Nat /\ t[n + 1] = m
      /\ \A i \in 1..n : t[i] = s[i]
    BY AppendProperties, LenProperties
<1>. HIDE DEF t, n
<1>2. \A i \in 1..Len(t) : i \in 1..n \/ i = n + 1
    BY <1>1
<1>3. ASSUME NEW i \in 1..Len(t), NEW j \in 1..Len(t), i < j PROVE Before(t[i], t[j])
    <2>1. i \in 1..n
        BY <1>1, <1>2, <1>3
    <2>2. CASE j = n + 1
        BY <1>1, <2>1, <2>2 DEF Follows, Elements, n
    <2>3. CASE j \in 1..n
        BY <1>1, <1>3, <2>1, <2>3 DEF Sorted, n
    <2>. QED
        BY <1>2, <2>2, <2>3
<1>4. Elements(t) = Elements(s) \cup {m}
    <2>1. \A i \in 1..n : t[i] \in Elements(s) /\ s[i] = t[i] /\ i \in 1..Len(t)
        BY <1>1 DEF Elements, n
    <2>2. n + 1 \in 1..Len(t)
        BY <1>1
    <2>. QED
        BY <1>1, <1>2, <2>1, <2>2 DEF Elements, n
<1>. QED
    BY <1>1, <1>3, <1>4 DEF t, n, Sorted

\* The messages of a frame are in order.
LEMMA FrameMessagesInOrder ==
    ASSUME NEW f \in 1..(Frames + 1), NEW events \in 0..MaxEvents, NEW can \in CanVersions
    PROVE  /\ Sorted(FrameMessages(f, events, can))
           /\ \A m \in Elements(FrameMessages(f, events, can)) : m.frame = f
<1>. DEFINE Summary == <<Msg("frames", f, 0, can)>>
            Events == [e \in 1..events |-> Msg("events", f, e, can)]
            State == IF can = 0 THEN <<>> ELSE <<Msg("can/state", f, events + 1, can)>>
            Both == Summary \o Events
            All == Both \o State
<1>1. events \in Nat /\ 0 \in 0..(MaxEvents + 1) /\ events + 1 \in 0..(MaxEvents + 1)
      /\ \A e \in 1..events : e \in 0..(MaxEvents + 1)
    BY SystemAssumption
<1>2. /\ Msg("frames", f, 0, can) \in Message /\ Msg("can/state", f, events + 1, can) \in Message
      /\ \A e \in 1..events : Msg("events", f, e, can) \in Message
    BY <1>1 DEF Msg, Message
<1>3. /\ Summary \in Seq(Message) /\ Len(Summary) = 1 /\ Summary[1].frame = f /\ Summary[1].part = 0
    BY <1>2 DEF Msg
<1>4. /\ Events \in Seq(Message) /\ Len(Events) = events
      /\ \A e \in 1..events : Events[e].frame = f /\ Events[e].part = e
    <2>1. Events \in [1..events -> Message]
        BY <1>2
    <2>2. Events \in Seq(Message) /\ Len(Events) = events
        BY <1>1, <2>1, SeqDef, LenProperties
    <2>. QED
        BY <2>2 DEF Msg
<1>5. /\ State \in Seq(Message) /\ Len(State) \in 0..1
      /\ \A e \in 1..Len(State) : e = 1 /\ State[e].frame = f /\ State[e].part = events + 1
    <2>1. CASE can = 0
        BY <2>1, EmptySeq
    <2>2. CASE can # 0
        <3>1. State = <<Msg("can/state", f, events + 1, can)>>
            BY <2>2
        <3>2. State \in Seq(Message) /\ Len(State) = 1 /\ State[1].frame = f /\ State[1].part = events + 1
            BY <1>2, <3>1 DEF Msg
        <3>. QED
            BY <3>2
    <2>. QED
        BY <2>1, <2>2
<1>. HIDE DEF Summary, Events, State
<1>6. /\ Both \in Seq(Message) /\ Len(Both) = 1 + events
      /\ \A i \in 1..(1 + events) : Both[i] = IF i <= 1 THEN Summary[i] ELSE Events[i - 1]
    <2>1. /\ Both \in Seq(Message) /\ Len(Both) = Len(Summary) + Len(Events)
          /\ \A i \in 1..(Len(Summary) + Len(Events)) :
                Both[i] = IF i <= Len(Summary) THEN Summary[i] ELSE Events[i - Len(Summary)]
        BY <1>3, <1>4, ConcatProperties
    <2>. HIDE DEF Both
    <2>. QED
        BY <1>3, <1>4, <2>1
<1>7. \A i \in 1..(1 + events) : Both[i].frame = f /\ Both[i].part = i - 1
    <2> SUFFICES ASSUME NEW i \in 1..(1 + events) PROVE Both[i].frame = f /\ Both[i].part = i - 1
        OBVIOUS
    <2>1. CASE i = 1
        BY <1>3, <1>6, <2>1
    <2>2. CASE i # 1
        <3>1. i - 1 \in 1..events /\ ~(i <= 1)
            BY <1>1, <2>2
        <3>. QED
            BY <1>4, <1>6, <3>1
    <2>. QED
        BY <2>1, <2>2
<1>. HIDE DEF Both
<1>8. /\ All \in Seq(Message) /\ Len(All) = Len(Both) + Len(State)
      /\ \A i \in 1..(Len(Both) + Len(State)) :
            All[i] = IF i <= Len(Both) THEN Both[i] ELSE State[i - Len(Both)]
    BY <1>5, <1>6, ConcatProperties
<1>9. ASSUME NEW i \in 1..Len(All) PROVE All[i].frame = f /\ All[i].part = i - 1
    <2>1. CASE i <= Len(Both)
        <3>1. i \in 1..(1 + events)
            BY <1>1, <1>6, <2>1
        <3>. QED
            BY <1>7, <1>8, <2>1, <3>1
    <2>2. CASE ~(i <= Len(Both))
        <3>1. i - Len(Both) \in 1..Len(State)
            BY <1>1, <1>5, <1>6, <1>8, <2>2
        <3>2. i - Len(Both) = 1
            BY <1>5, <3>1
        <3>3. events + 1 = i - 1
            BY <1>1, <1>6, <3>2
        <3>. QED
            BY <1>5, <1>8, <2>2, <3>1, <3>3
    <2>. QED
        BY <2>1, <2>2
<1>10. All = FrameMessages(f, events, can)
    BY DEF All, Both, Summary, Events, State, FrameMessages
<1>. HIDE DEF All
<1>11. Len(All) \in Nat
    BY <1>8, LenProperties
<1>12. Sorted(All)
    BY <1>9, <1>11 DEF Sorted, Before
<1>13. \A m \in Elements(All) : m.frame = f
    BY <1>9 DEF Elements
<1>. QED
    BY <1>10, <1>12, <1>13

\* The last frame spoken of; the status comes after all of them.
Newest == IF statusDone THEN Frames + 1 ELSE framesDone

CallOrder ==
    /\ Sorted(accepted) /\ Sorted(todo)
    /\ \A m \in Elements(todo) : Follows(m, Elements(accepted)) /\ m.frame <= Newest
    /\ \A m \in Elements(accepted) : m.frame <= Newest
    /\ worker = "publishing" => Len(held) = 1
    /\ statusDone \in BOOLEAN

LEMMA ElementsType == ASSUME NEW s \in Seq(Message) PROVE Elements(s) \subseteq Message
BY LenProperties DEF Elements

LEMMA EmptyIsSorted == Sorted(<<>>) /\ Elements(<<>>) = {}
BY DEF Sorted, Elements

LEMMA TailSorted ==
    ASSUME NEW s \in Seq(Message), s # <<>>, Sorted(s)
    PROVE  /\ Tail(s) \in Seq(Message) /\ Head(s) \in Message /\ Sorted(Tail(s))
           /\ Head(s) \in Elements(s) /\ Elements(Tail(s)) \subseteq Elements(s)
           /\ \A m \in Elements(Tail(s)) : Before(Head(s), m)
<1>1. /\ Tail(s) \in Seq(Message) /\ Head(s) = s[1] /\ Head(s) \in Message /\ Len(s) \in Nat
      /\ Len(s) # 0 /\ Len(Tail(s)) = Len(s) - 1 /\ \A i \in 1..Len(Tail(s)) : Tail(s)[i] = s[i + 1]
    BY HeadTailProperties, LenProperties, EmptySeq
<1>2. 1 \in 1..Len(s) /\ \A i \in 1..Len(Tail(s)) : i + 1 \in 1..Len(s) /\ 1 < i + 1
    BY <1>1
<1>3. \A i, j \in 1..Len(Tail(s)) : i < j => i + 1 < j + 1
    BY <1>1
<1>4. Sorted(Tail(s))
    BY <1>1, <1>2, <1>3 DEF Sorted
<1>5. Elements(Tail(s)) \subseteq Elements(s) /\ Head(s) \in Elements(s)
    BY <1>1, <1>2 DEF Elements
<1>6. \A m \in Elements(Tail(s)) : Before(Head(s), m)
    BY <1>1, <1>2 DEF Elements, Sorted
<1>. QED
    BY <1>1, <1>4, <1>5, <1>6

LEMMA PushKeepsCalls == PublisherInv /\ CallOrder /\ Push => CallOrder'
<1> SUFFICES ASSUME PublisherInv, CallOrder, Push PROVE CallOrder'
    OBVIOUS
<1>1. /\ todo # <<>> /\ todo' = Tail(todo)
      /\ UNCHANGED <<worker, held, statusDone, framesDone>>
    BY DEF Push, PublishAsync
<1>2. /\ Sorted(Tail(todo)) /\ Head(todo) \in Message /\ Head(todo) \in Elements(todo)
      /\ Elements(Tail(todo)) \subseteq Elements(todo)
      /\ \A m \in Elements(Tail(todo)) : Before(Head(todo), m)
    BY <1>1, TailSorted DEF PublisherInv, PublisherTypes, CallOrder
<1>3. Newest' = Newest
    BY <1>1 DEF Newest
<1>4. CASE accepted' = Append(accepted, Head(todo))
    <2>1. /\ Sorted(Append(accepted, Head(todo)))
          /\ Elements(Append(accepted, Head(todo))) = Elements(accepted) \cup {Head(todo)}
        BY <1>2, AppendSorted DEF PublisherInv, PublisherTypes, CallOrder
    <2>2. Sorted(accepted') /\ Elements(accepted') = Elements(accepted) \cup {Head(todo)}
        BY <1>4, <2>1
    <2>3. Sorted(todo') /\ Elements(todo') = Elements(Tail(todo))
        BY <1>1, <1>2
    <2>4. \A m \in Elements(Tail(todo)) : Follows(m, Elements(accepted) \cup {Head(todo)})
        BY <1>2 DEF CallOrder, Follows
    <2>. QED
        BY <1>1, <1>2, <1>3, <2>2, <2>3, <2>4 DEF CallOrder
<1>5. CASE UNCHANGED accepted
    <2>1. Sorted(todo') /\ Elements(todo') \subseteq Elements(todo)
        BY <1>1, <1>2
    <2>. QED
        BY <1>1, <1>3, <1>5, <2>1 DEF CallOrder
<1>. QED
    BY <1>4, <1>5 DEF Push, PublishAsync

LEMMA SummariseKeepsCalls == PublisherInv /\ CallOrder /\ Summarise => CallOrder'
<1> SUFFICES ASSUME PublisherInv, CallOrder, Summarise PROVE CallOrder'
    OBVIOUS
<1>1. /\ ~statusDone /\ framesDone < Frames /\ framesDone' = framesDone + 1
      /\ UNCHANGED <<accepted, worker, held, statusDone>>
    BY DEF Summarise, PublishFrameSummary
<1>2. framesDone \in 0..Frames /\ framesDone + 1 \in 1..(Frames + 1) /\ accepted \in Seq(Message)
    BY <1>1, SystemAssumption DEF PublisherInv, PublisherTypes
<1>3. PICK events \in 0..MaxEvents, can \in CanVersions :
         todo' = FrameMessages(framesDone + 1, events, can)
    BY DEF Summarise, PublishFrameSummary
<1>4. Sorted(todo') /\ \A m \in Elements(todo') : m.frame = framesDone + 1
    BY <1>2, <1>3, FrameMessagesInOrder
<1>5. Newest = framesDone /\ Newest' = framesDone + 1
    BY <1>1 DEF Newest
<1>6. \A m \in Elements(accepted) : m.frame \in Nat /\ m.frame <= framesDone /\ m.frame <= framesDone + 1
    <2> SUFFICES ASSUME NEW m \in Elements(accepted)
                 PROVE  m.frame \in Nat /\ m.frame <= framesDone /\ m.frame <= framesDone + 1
        OBVIOUS
    <2>1. m.frame \in 1..(Frames + 1) /\ m.frame <= framesDone
        BY <1>2, <1>5, ElementsType DEF CallOrder, Message
    <2>. QED
        BY <1>2, <2>1, SystemAssumption
<1>7. \A m \in Elements(todo') : Follows(m, Elements(accepted))
    BY <1>2, <1>4, <1>6 DEF Follows, Before
<1>8. framesDone + 1 <= framesDone + 1
    BY <1>2
<1>9. Elements(accepted') = Elements(accepted) /\ Sorted(accepted') /\ statusDone' \in BOOLEAN
      /\ (worker' = "publishing" => Len(held') = 1)
    BY <1>1 DEF CallOrder
<1>10. \A m \in Elements(todo') : m.frame <= Newest'
    BY <1>4, <1>5, <1>8
<1>11. \A m \in Elements(accepted) : m.frame <= Newest'
    BY <1>5, <1>6
<1>. QED
    BY <1>4, <1>7, <1>9, <1>10, <1>11 DEF CallOrder

LEMMA StatusKeepsCalls == PublisherInv /\ CallOrder /\ ReportStatus => CallOrder'
<1> SUFFICES ASSUME PublisherInv, CallOrder, ReportStatus PROVE CallOrder'
    OBVIOUS
<1>. DEFINE m0 == Msg("status", Frames + 1, 0, 0)
<1>1. /\ ~statusDone /\ statusDone' = TRUE /\ todo' = <<m0>>
      /\ UNCHANGED <<accepted, worker, held, framesDone>>
    BY DEF ReportStatus, PublishStatus
<1>2. framesDone \in 0..Frames /\ accepted \in Seq(Message) /\ m0.frame = Frames + 1
    BY DEF PublisherInv, PublisherTypes, Msg
<1>. HIDE DEF m0
<1>3. Sorted(todo') /\ Elements(todo') = {m0}
    <2>1. Len(<<m0>>) = 1 /\ <<m0>>[1] = m0 /\ 1..1 = {1}
        OBVIOUS
    <2>. QED
        BY <1>1, <2>1 DEF Sorted, Elements
<1>4. Newest = framesDone /\ Newest' = Frames + 1
    BY <1>1 DEF Newest
<1>5. \A m \in Elements(accepted) : m.frame \in Nat /\ m.frame < Frames + 1 /\ m.frame <= Frames + 1
    <2> SUFFICES ASSUME NEW m \in Elements(accepted)
                 PROVE  m.frame \in Nat /\ m.frame < Frames + 1 /\ m.frame <= Frames + 1
        OBVIOUS
    <2>1. m.frame \in 1..(Frames + 1) /\ m.frame <= framesDone
        BY <1>2, <1>4, ElementsType DEF CallOrder, Message
    <2>. QED
        BY <1>2, <2>1, SystemAssumption
<1>6. Follows(m0, Elements(accepted))
    BY <1>2, <1>5 DEF Follows, Before
<1>7. Frames + 1 <= Frames + 1
    BY SystemAssumption
<1>8. Elements(accepted') = Elements(accepted) /\ Sorted(accepted') /\ statusDone' \in BOOLEAN
      /\ (worker' = "publishing" => Len(held') = 1)
    BY <1>1 DEF CallOrder
<1>. QED
    BY <1>2, <1>3, <1>4, <1>5, <1>6, <1>7, <1>8 DEF CallOrder

LEMMA CallOrderStep == PublisherInv /\ CallOrder /\ [Next]_vars => CallOrder'
<1> SUFFICES ASSUME PublisherInv, CallOrder, [Next]_vars PROVE CallOrder'
    OBVIOUS
<1>1. CASE UNCHANGED <<accepted, todo, framesDone, statusDone>>
           /\ (worker' = "publishing" => Len(held') = 1)
    <2>1. Newest' = Newest
        BY <1>1 DEF Newest
    <2>. QED
        BY <1>1, <2>1 DEF CallOrder
<1>2. ASSUME UNCHANGED <<worker, held>> PROVE worker' = "publishing" => Len(held') = 1
    BY <1>2 DEF CallOrder
<1>3. CASE Start
    BY <1>1, <1>3 DEF Start, StartThread
<1>4. CASE BeginStop \/ EndStop
    BY <1>1, <1>2, <1>4 DEF BeginStop, EndStop, StopCloses, StopJoins
<1>5. CASE Pop
    <2>1. held' = <<Head(items)>> /\ UNCHANGED <<accepted, todo, framesDone, statusDone>>
        BY <1>5 DEF Pop, WorkerPops
    <2>2. Len(held') = 1
        BY <2>1
    <2>. QED
        BY <1>1, <2>1, <2>2
<1>6. CASE Hand \/ Exit
    BY <1>1, <1>6 DEF Hand, Exit, WorkerPublishes, WorkerExits
<1>7. CASE UNCHANGED <<publisherVars, framesDone, statusDone>>
    BY <1>1, <1>2, <1>7 DEF publisherVars
<1>. QED
    BY <1>3, <1>4, <1>5, <1>6, <1>7, PushKeepsCalls, SummariseKeepsCalls, StatusKeepsCalls
    DEF Next, Owner, Worker, Stopped, vars

----------------------------------------------------------------------------
(***************************************************************************)
(* What the clients hold, and what the broker has seen.                    *)
(***************************************************************************)
LinkTypes ==
    /\ outbox \in [Handles -> Seq(Message)] /\ arrived \in Seq(Message)
    /\ session \in live \cup {NoClient} /\ sent \in 0..Inflight
    /\ sent <= IF session = NoClient THEN 0 ELSE Len(outbox[session])
    /\ \A h \in Handles \ live : outbox[h] = <<>>

\* Of the messages in o, sent up to the n-th, the broker has seen A and the
\* others come after all of these; all are from H.
Held(o, n, A, H) ==
    /\ Sorted(o) /\ Elements(o) \subseteq H
    /\ \A j \in 1..Len(o) : o[j] \in A \/ Follows(o[j], A)
    /\ \A j \in 1..n : o[j] \in A

LEMMA HeldAppend ==
    ASSUME NEW o \in Seq(Message), NEW n \in Nat, n <= Len(o), NEW H \in SUBSET Message,
           NEW A \in SUBSET H, NEW m \in Message, Held(o, n, A, H), Follows(m, H)
    PROVE  Held(Append(o, m), n, A, H \cup {m})
<1>. DEFINE q == Append(o, m)
<1>1. /\ Len(q) = Len(o) + 1 /\ Len(o) \in Nat /\ q[Len(o) + 1] = m
      /\ \A j \in 1..Len(o) : q[j] = o[j]
    BY AppendProperties, LenProperties
<1>2. Follows(m, Elements(o)) /\ Follows(m, A)
    BY DEF Follows, Held
<1>3. Sorted(q) /\ Elements(q) = Elements(o) \cup {m}
    BY <1>2, AppendSorted DEF Held
<1>. HIDE DEF q
<1>4. \A j \in 1..Len(q) : j \in 1..Len(o) \/ j = Len(o) + 1
    BY <1>1
<1>5. \A j \in 1..Len(q) : q[j] \in A \/ Follows(q[j], A)
    BY <1>1, <1>2, <1>4 DEF Held
<1>6. \A j \in 1..n : q[j] \in A
    BY <1>1 DEF Held
<1>. QED
    BY <1>3, <1>5, <1>6 DEF Held, q

LEMMA HeldTail ==
    ASSUME NEW o \in Seq(Message), NEW n \in Nat, n > 0, n <= Len(o), NEW A, NEW H,
           Held(o, n, A, H)
    PROVE  Tail(o) \in Seq(Message) /\ Len(Tail(o)) = Len(o) - 1 /\ Held(Tail(o), n - 1, A, H)
<1>1. Len(o) \in Nat /\ o # <<>>
    BY LenProperties, EmptySeq
<1>2. /\ Tail(o) \in Seq(Message) /\ Len(Tail(o)) = Len(o) - 1
      /\ \A i \in 1..Len(Tail(o)) : Tail(o)[i] = o[i + 1]
    BY <1>1, HeadTailProperties
<1>3. Sorted(Tail(o)) /\ Elements(Tail(o)) \subseteq Elements(o)
    BY <1>1, TailSorted DEF Held
<1>4. \A j \in 1..Len(Tail(o)) : j + 1 \in 1..Len(o)
    BY <1>1, <1>2
<1>5. \A j \in 1..(n - 1) : j + 1 \in 1..n /\ j \in 1..Len(Tail(o))
    BY <1>1, <1>2
<1>6. \A j \in 1..Len(Tail(o)) : Tail(o)[j] \in A \/ Follows(Tail(o)[j], A)
    BY <1>2, <1>4 DEF Held
<1>7. \A j \in 1..(n - 1) : Tail(o)[j] \in A
    BY <1>2, <1>5 DEF Held
<1>. QED
    BY <1>2, <1>3, <1>6, <1>7 DEF Held

LEMMA HeldUnsent ==
    ASSUME NEW o, NEW n, NEW A, NEW H, Held(o, n, A, H)
    PROVE  Held(o, 0, A, H)
<1>1. \A j \in 1..0 : FALSE
    OBVIOUS
<1>. QED
    BY <1>1 DEF Held

\* What the broker has not seen is added in its order.
LEMMA FirstSeenProperties ==
    ASSUME NEW a \in Seq(Message), NEW t \in Seq(Message)
    PROVE  /\ FirstSeen(a, t) \in Seq(Message)
           /\ Elements(FirstSeen(a, t)) = Elements(a) \cup Elements(t)
           /\ Sorted(a) /\ Sorted(t) /\ (\A j \in 1..Len(t) : t[j] \in Elements(a) \/ Follows(t[j], Elements(a)))
                 => Sorted(FirstSeen(a, t))
<1>. DEFINE seen == {a[i] : i \in DOMAIN a}
            places == {i \in DOMAIN t : t[i] \notin seen}
            p == Picked(t, places)
            u == a \o p
<1>1. Len(a) \in Nat /\ Len(t) \in Nat /\ DOMAIN a = 1..Len(a) /\ DOMAIN t = 1..Len(t)
    BY LenProperties
<1>2. seen = Elements(a) /\ \A i \in 1..Len(t) : i \in places <=> t[i] \notin Elements(a)
    BY <1>1 DEF Elements
<1>3. FirstSeen(a, t) = u
    BY DEF FirstSeen
<1>. HIDE DEF seen, places
<1>4. p \in Seq(Message)
      /\ \E at \in [1..Len(p) -> 1..Len(t)] : Selects(at, p, t, Len(t), places)
    BY PickedProperties
<1>. HIDE DEF p
<1>5. PICK at \in [1..Len(p) -> 1..Len(t)] : Selects(at, p, t, Len(t), places)
    BY <1>4
<1>6. \A i \in 1..Len(p) : at[i] \in 1..Len(t) /\ p[i] = t[at[i]] /\ p[i] \notin Elements(a)
    BY <1>2, <1>5 DEF Selects
<1>7. /\ u \in Seq(Message) /\ Len(u) = Len(a) + Len(p) /\ Len(p) \in Nat
      /\ \A i \in 1..(Len(a) + Len(p)) : u[i] = IF i <= Len(a) THEN a[i] ELSE p[i - Len(a)]
    BY <1>4, ConcatProperties, LenProperties
<1>. HIDE DEF u
<1>8. \A i \in 1..Len(u) : \/ i \in 1..Len(a) /\ u[i] = a[i]
                           \/ i > Len(a) /\ i - Len(a) \in 1..Len(p) /\ u[i] = p[i - Len(a)]
    BY <1>1, <1>7
<1>9. Elements(u) \subseteq Elements(a) \cup Elements(t)
    <2> SUFFICES ASSUME NEW i \in 1..Len(u) PROVE u[i] \in Elements(a) \cup Elements(t)
        BY DEF Elements
    <2>1. CASE i \in 1..Len(a) /\ u[i] = a[i]
        BY <2>1 DEF Elements
    <2>2. CASE i - Len(a) \in 1..Len(p) /\ u[i] = p[i - Len(a)]
        BY <1>6, <2>2 DEF Elements
    <2>. QED
        BY <1>8, <2>1, <2>2
<1>10. Elements(a) \cup Elements(t) \subseteq Elements(u)
    <2>1. ASSUME NEW i \in 1..Len(a) PROVE a[i] \in Elements(u)
        <3>1. i \in 1..Len(u) /\ u[i] = a[i]
            BY <1>1, <1>7
        <3>. QED
            BY <3>1 DEF Elements
    <2>2. ASSUME NEW i \in 1..Len(t), t[i] \notin Elements(a) PROVE t[i] \in Elements(u)
        <3>1. PICK k \in 1..Len(p) : at[k] = i
            BY <1>2, <1>5, <2>2 DEF Selects
        <3>2. k + Len(a) \in 1..(Len(a) + Len(p)) /\ ~(k + Len(a) <= Len(a)) /\ (k + Len(a)) - Len(a) = k
            BY <1>1, <1>7
        <3>3. u[k + Len(a)] = t[i] /\ k + Len(a) \in 1..Len(u)
            BY <1>6, <1>7, <3>1, <3>2
        <3>. QED
            BY <3>3 DEF Elements
    <2>3. Elements(a) \subseteq Elements(u)
        BY <2>1 DEF Elements
    <2>. QED
        BY <2>2, <2>3 DEF Elements
<1>11. ASSUME Sorted(a), Sorted(t),
              \A j \in 1..Len(t) : t[j] \in Elements(a) \/ Follows(t[j], Elements(a)),
              NEW i \in 1..Len(u), NEW j \in 1..Len(u), i < j
       PROVE  Before(u[i], u[j])
    <2>1. CASE j \in 1..Len(a) /\ u[j] = a[j]
        <3>1. i \in 1..Len(a) /\ u[i] = a[i]
            BY <1>1, <1>8, <1>11, <2>1
        <3>. QED
            BY <1>11, <2>1, <3>1 DEF Sorted
    <2>2. CASE j > Len(a) /\ j - Len(a) \in 1..Len(p) /\ u[j] = p[j - Len(a)]
        <3>1. u[j] = t[at[j - Len(a)]] /\ at[j - Len(a)] \in 1..Len(t) /\ Follows(u[j], Elements(a))
            BY <1>6, <1>11, <2>2
        <3>2. CASE i \in 1..Len(a) /\ u[i] = a[i]
            BY <3>1, <3>2 DEF Follows, Elements
        <3>3. CASE i > Len(a) /\ i - Len(a) \in 1..Len(p) /\ u[i] = p[i - Len(a)]
            <4>1. i - Len(a) < j - Len(a)
                BY <1>1, <1>7, <1>11
            <4>2. at[i - Len(a)] < at[j - Len(a)] /\ at[i - Len(a)] \in 1..Len(t)
                BY <1>5, <1>6, <2>2, <3>3, <4>1 DEF Selects
            <4>3. u[i] = t[at[i - Len(a)]]
                BY <1>6, <3>3
            <4>. QED
                BY <1>11, <3>1, <4>2, <4>3 DEF Sorted
        <3>. QED
            BY <1>8, <3>2, <3>3
    <2>. QED
        BY <1>8, <2>1, <2>2
<1>. QED
    BY <1>3, <1>7, <1>9, <1>10, <1>11 DEF Sorted

\* A message is sent: it is new to the broker, or it was sent before.
LEMMA HeldSend ==
    ASSUME NEW o \in Seq(Message), NEW a \in Seq(Message), NEW n \in Nat, n < Len(o), NEW H,
           Held(o, n, Elements(a), H), Sorted(a)
    PROVE  /\ FirstSeen(a, <<o[n + 1]>>) \in Seq(Message) /\ Sorted(FirstSeen(a, <<o[n + 1]>>))
           /\ Elements(FirstSeen(a, <<o[n + 1]>>)) = Elements(a) \cup {o[n + 1]}
           /\ o[n + 1] \in H
           /\ Held(o, n + 1, Elements(a) \cup {o[n + 1]}, H)
<1>. DEFINE x == o[n + 1]
            t == <<x>>
<1>1. Len(o) \in Nat /\ n + 1 \in 1..Len(o) /\ x \in Message
    BY LenProperties, ElementOfSeq
<1>2. x \in H /\ (x \in Elements(a) \/ Follows(x, Elements(a)))
    BY <1>1 DEF Held, Elements
<1>3. t \in Seq(Message) /\ Len(t) = 1 /\ t[1] = x /\ 1..1 = {1}
    BY <1>1
<1>. HIDE DEF x
<1>4. Sorted(t) /\ Elements(t) = {x}
    BY <1>3 DEF Sorted, Elements
<1>. HIDE DEF t
<1>5. /\ FirstSeen(a, t) \in Seq(Message) /\ Sorted(FirstSeen(a, t))
      /\ Elements(FirstSeen(a, t)) = Elements(a) \cup {x}
    BY <1>2, <1>3, <1>4, FirstSeenProperties
<1>6. ASSUME NEW j \in 1..Len(o)
      PROVE  o[j] \in Elements(a) \cup {x} \/ Follows(o[j], Elements(a) \cup {x})
    <2>1. CASE j <= n + 1
        <3>1. j \in 1..n \/ j = n + 1
            BY <1>1, <2>1
        <3>. QED
            BY <3>1 DEF Held, x
    <2>2. CASE j > n + 1
        <3>1. Before(x, o[j])
            BY <1>1, <2>2 DEF Held, Sorted, x
        <3>. QED
            BY <3>1 DEF Held, Follows
    <2>. QED
        BY <1>1, <2>1, <2>2
<1>7. ASSUME NEW j \in 1..(n + 1) PROVE o[j] \in Elements(a) \cup {x}
    <2>1. j \in 1..n \/ j = n + 1
        OBVIOUS
    <2>. QED
        BY <2>1 DEF Held, x
<1>8. Held(o, n + 1, Elements(a) \cup {x}, H)
    BY <1>6, <1>7 DEF Held
<1>. QED
    BY <1>2, <1>5, <1>8 DEF t, x

LEMMA PartOfOutbox ==
    ASSUME NEW o \in Seq(Message), NEW n \in 0..Len(o), NEW k \in n..Len(o)
    PROVE  /\ SubSeq(o, n + 1, k) \in Seq(Message)
           /\ Len(SubSeq(o, n + 1, k)) = k - n
           /\ \A i \in 1..(k - n) : SubSeq(o, n + 1, k)[i] = o[n + i] /\ n + i \in 1..Len(o)
<1>1. Len(o) \in Nat
    BY LenProperties
<1>2. n + 1 \in Int /\ k \in Int /\ \A i \in (n + 1)..k : o[i] \in Message
    BY <1>1, ElementOfSeq
<1>3. /\ SubSeq(o, n + 1, k) \in Seq(Message)
      /\ Len(SubSeq(o, n + 1, k)) = IF n + 1 <= k THEN k - (n + 1) + 1 ELSE 0
      /\ \A i \in 1..(k - (n + 1) + 1) : SubSeq(o, n + 1, k)[i] = o[(n + 1) + i - 1]
    BY <1>2, SubSeqProperties
<1>4. (IF n + 1 <= k THEN k - (n + 1) + 1 ELSE 0) = k - n /\ k - (n + 1) + 1 = k - n
    BY <1>1
<1>5. \A i \in 1..(k - n) : (n + 1) + i - 1 = n + i /\ n + i \in 1..Len(o)
    BY <1>1
<1>. QED
    BY <1>3, <1>4, <1>5

\* What is flushed at the end keeps the order as well.
LEMMA FlushSorted ==
    ASSUME NEW o \in Seq(Message), NEW a \in Seq(Message), NEW n \in 0..Len(o),
           NEW k \in n..Len(o), NEW H, Held(o, n, Elements(a), H), Sorted(a)
    PROVE  /\ Sorted(FirstSeen(a, SubSeq(o, n + 1, k)))
           /\ Elements(FirstSeen(a, SubSeq(o, n + 1, k))) \subseteq Elements(a) \cup H
<1>. DEFINE t == SubSeq(o, n + 1, k)
            d == k - n
<1>1. /\ t \in Seq(Message) /\ Len(t) = d
      /\ \A i \in 1..d : t[i] = o[n + i] /\ n + i \in 1..Len(o)
    BY PartOfOutbox
<1>2. d \in Nat /\ n \in Nat
    BY LenProperties
<1>. HIDE DEF t, d
<1>3. \A i, j \in 1..d : i < j => n + i < n + j
    BY <1>2
<1>4. Sorted(t)
    BY <1>1, <1>3 DEF Held, Sorted
<1>5. \A i \in 1..d : t[i] \in Elements(o)
    BY <1>1 DEF Elements
<1>6. Elements(t) \subseteq H
    BY <1>1, <1>5 DEF Elements, Held
<1>7. \A j \in 1..Len(t) : t[j] \in Elements(a) \/ Follows(t[j], Elements(a))
    BY <1>1 DEF Held
<1>. QED
    BY <1>1, <1>4, <1>6, <1>7, FirstSeenProperties DEF t

Sent(h) == IF session = h THEN sent ELSE 0

\* While no publish has failed the broker has seen messages in order, and the
\* client has the next ones.
Arrivals ==
    publishErrors = 0 =>
        /\ Sorted(arrived) /\ Elements(arrived) \subseteq Elements(handed)
        /\ \A h \in live : Held(outbox[h], Sent(h), Elements(arrived), Elements(handed))

LEMMA OneClient ==
    ASSUME ClientInv, publishErrors = 0
    PROVE  (\A h \in live : h = client) /\ (~connected => live = {})
<1>1. live \subseteq Handles /\ live \ {client} \subseteq Handles
    BY DEF ClientInv, ClientTypes
<1>2. /\ IsFiniteSet(live) /\ Cardinality(live) \in Nat
      /\ IsFiniteSet(live \ {client}) /\ Cardinality(live \ {client}) \in Nat
    BY <1>1, LiveIsFinite
<1>3. Cardinality(live \ {client}) <= 0 /\ (~connected => Cardinality(live) <= 0)
    BY DEF ClientInv, AbandonedCounted
<1>4. live \ {client} = {}
    BY <1>2, <1>3, FS_EmptySet
<1>5. ~connected => live = {}
    BY <1>2, <1>3, FS_EmptySet
<1>. QED
    BY <1>4, <1>5

LEMMA OpenClientLinks ==
    ASSUME ClientInv, LinkTypes, OpenClient
    PROVE  /\ client' \in Handles \ live /\ live' = live \cup {client'} /\ client' # NoClient
           /\ outbox[client'] = <<>> /\ session' = client' /\ sent' = 0 /\ ~connected
<1>1. ~connected /\ client' = Fresh /\ live' = live \cup {Fresh} /\ session' = Fresh /\ sent' = 0
    BY DEF OpenClient
<1>2. Fresh \in Handles \ live
    BY <1>1, FreshIsFree
<1>3. Fresh # NoClient
    BY <1>2 DEF Handles, NoClient
<1>. QED
    BY <1>1, <1>2, <1>3 DEF LinkTypes

LEMMA ConnectKeepsLinks ==
    ASSUME ClientInv, LinkTypes, Arrivals, Connect, UNCHANGED handed
    PROVE  LinkTypes' /\ Arrivals'
<1>1. OpenClient /\ UNCHANGED <<outbox, arrived, publishErrors>>
    BY DEF Connect
<1>2. /\ client' \in Handles \ live /\ live' = live \cup {client'} /\ client' # NoClient
      /\ outbox[client'] = <<>> /\ session' = client' /\ sent' = 0 /\ ~connected
    BY <1>1, OpenClientLinks
<1>3. 0 \in 0..Inflight /\ Len(<<>>) = 0 /\ 0 <= 0
    BY InflightAssumption
<1>4. LinkTypes'
    BY <1>1, <1>2, <1>3 DEF LinkTypes
<1>5. Arrivals'
    <2> SUFFICES ASSUME publishErrors = 0
                 PROVE  /\ Sorted(arrived') /\ Elements(arrived') \subseteq Elements(handed')
                        /\ \A h \in live' : Held(outbox'[h], Sent(h)', Elements(arrived'), Elements(handed'))
        BY <1>1 DEF Arrivals
    <2>1. live' = {client'}
        BY <1>1, <1>2, OneClient
    <2>2. \A A, H : Held(<<>>, 0, A, H)
        BY <1>3, EmptyIsSorted DEF Held
    <2>3. ASSUME NEW h \in live'
          PROVE  Held(outbox'[h], Sent(h)', Elements(arrived'), Elements(handed'))
        <3>1. h = client'
            BY <2>1
        <3>2. Sent(h)' = 0
            BY <1>2, <3>1 DEF Sent
        <3>. QED
            BY <1>1, <1>2, <2>2, <3>1, <3>2
    <2>. QED
        BY <1>1, <2>3 DEF Arrivals
<1>. QED
    BY <1>4, <1>5

LEMMA RefusalKeepsLinks ==
    ASSUME ClientInv, LinkTypes, Arrivals, ConnectFails, Elements(handed) \subseteq Elements(handed')
    PROVE  LinkTypes' /\ Arrivals'
<1>1. /\ ~connected /\ UNCHANGED <<live, outbox, arrived, publishErrors>>
      /\ session' \in {session, NoClient} /\ sent' = IF session' = session THEN sent ELSE 0
    BY DEF ConnectFails
<1>2. 0 \in 0..Inflight /\ 0 <= 0
    BY InflightAssumption
<1>3. LinkTypes'
    <2>1. CASE session' = session
        BY <1>1, <2>1 DEF LinkTypes
    <2>2. CASE session' # session
        BY <1>1, <1>2, <2>2 DEF LinkTypes
    <2>. QED
        BY <2>1, <2>2
<1>4. Arrivals'
    BY <1>1, OneClient DEF Arrivals
<1>. QED
    BY <1>3, <1>4

LEMMA OutboxType ==
    ASSUME LinkTypes, NEW h \in Handles, NEW m \in Message,
           outbox' \in {outbox, [outbox EXCEPT ![h] = Append(@, m)]}
    PROVE  /\ outbox' \in [Handles -> Seq(Message)]
           /\ \A g \in Handles : g # h => outbox'[g] = outbox[g]
           /\ Len(outbox[h]) <= Len(outbox'[h]) /\ Len(outbox[h]) \in Nat
<1>1. outbox \in [Handles -> Seq(Message)] /\ outbox[h] \in Seq(Message)
    BY DEF LinkTypes
<1>2. /\ Append(outbox[h], m) \in Seq(Message) /\ Len(Append(outbox[h], m)) = Len(outbox[h]) + 1
      /\ Len(outbox[h]) \in Nat
    BY <1>1, AppendProperties, LenProperties
<1>3. CASE outbox' = outbox
    BY <1>1, <1>2, <1>3
<1>4. CASE outbox' = [outbox EXCEPT ![h] = Append(@, m)]
    <2>1. outbox' = [outbox EXCEPT ![h] = Append(outbox[h], m)]
        BY <1>4
    <2>2. outbox'[h] = Append(outbox[h], m)
        BY <1>1, <2>1
    <2>3. outbox' \in [Handles -> Seq(Message)]
        BY <1>1, <1>2, <2>1
    <2>4. \A g \in Handles : g # h => outbox'[g] = outbox[g]
        BY <1>1, <2>1
    <2>. QED
        BY <1>2, <2>2, <2>3, <2>4
<1>. QED
    BY <1>3, <1>4

\* A message that is queued follows those before it.
LEMMA QueuedKeepsOrder ==
    ASSUME LinkTypes, NEW h \in Handles, NEW n \in Nat, n <= Len(outbox[h]), NEW m \in Message,
           outbox' = [outbox EXCEPT ![h] = Append(@, m)],
           Elements(arrived) \subseteq Elements(handed), handed \in Seq(Message),
           Held(outbox[h], n, Elements(arrived), Elements(handed)), Follows(m, Elements(handed)),
           Elements(handed') = Elements(handed) \cup {m}
    PROVE  Held(outbox'[h], n, Elements(arrived), Elements(handed'))
<1>1. outbox[h] \in Seq(Message) /\ outbox'[h] = Append(outbox[h], m)
    BY DEF LinkTypes
<1>2. Elements(handed) \in SUBSET Message /\ Elements(arrived) \in SUBSET Elements(handed)
    BY ElementsType
<1>3. Held(Append(outbox[h], m), n, Elements(arrived), Elements(handed) \cup {m})
    BY <1>1, <1>2, HeldAppend
<1>. QED
    BY <1>1, <1>3

LEMMA PublishKeepsLinks ==
    ASSUME ClientInv, LinkTypes, Arrivals, NEW m \in Message, Publish(m), handed \in Seq(Message),
           Follows(m, Elements(handed)), Elements(handed') = Elements(handed) \cup {m}
    PROVE  LinkTypes' /\ Arrivals'
<1>1. CASE ConnectFails
    BY <1>1, RefusalKeepsLinks
<1>2. ASSUME connected, UNCHANGED <<client, live, session, sent, arrived>>,
             Queued(m) \/ Rejected(m)
      PROVE  LinkTypes' /\ Arrivals'
    <2>1. client \in live /\ client \in Handles
        BY <1>2 DEF ClientInv, ClientTypes
    <2>2. outbox' \in {outbox, [outbox EXCEPT ![client] = Append(@, m)]}
        BY <1>2 DEF Queued, Rejected
    <2>3. /\ outbox' \in [Handles -> Seq(Message)]
          /\ \A g \in Handles : g # client => outbox'[g] = outbox[g]
          /\ Len(outbox[client]) <= Len(outbox'[client]) /\ Len(outbox[client]) \in Nat
        BY <2>1, <2>2, OutboxType
    <2>4. LinkTypes'
        <3>1. sent' <= IF session' = NoClient THEN 0 ELSE Len(outbox'[session'])
            <4>1. CASE session = NoClient
                BY <1>2, <4>1 DEF LinkTypes
            <4>2. CASE session # NoClient /\ session # client
                <5>1. session \in Handles
                    BY <4>2 DEF LinkTypes, ClientInv, ClientTypes
                <5>. QED
                    BY <1>2, <2>3, <4>2, <5>1 DEF LinkTypes
            <4>3. CASE session # NoClient /\ session = client
                <5>1. Len(outbox'[client]) \in Nat
                    BY <2>1, <2>3, LenProperties
                <5>2. sent \in Nat /\ sent <= Len(outbox[client])
                    BY <4>3, InflightAssumption DEF LinkTypes
                <5>3. sent <= Len(outbox'[client])
                    BY <2>3, <5>1, <5>2
                <5>. QED
                    BY <1>2, <4>3, <5>3
            <4>. QED
                BY <4>1, <4>2, <4>3
        <3>2. \A h \in Handles \ live : h # client
            BY <2>1
        <3>. QED
            BY <1>2, <2>3, <3>1, <3>2 DEF LinkTypes
    <2>5. CASE Rejected(m)
        <3>1. publishErrors' # 0
            BY <2>5 DEF Rejected, ClientInv, FailuresCounted
        <3>. QED
            BY <2>4, <3>1 DEF Arrivals
    <2>6. CASE Queued(m)
        <3> SUFFICES ASSUME publishErrors' = 0 PROVE Arrivals'
            BY <2>4 DEF Arrivals
        <3>1. outbox' = [outbox EXCEPT ![client] = Append(@, m)] /\ publishErrors = 0
            BY <1>2, <2>6 DEF Queued
        <3>2. \A h \in live : h = client
            BY <3>1, OneClient
        <3>3. /\ Held(outbox[client], Sent(client), Elements(arrived), Elements(handed))
              /\ Sorted(arrived) /\ Elements(arrived) \subseteq Elements(handed)
            BY <2>1, <3>1 DEF Arrivals
        <3>4. Sent(client) \in Nat /\ Sent(client) <= Len(outbox[client])
            <4>1. client # NoClient
                BY <2>1 DEF Handles, NoClient
            <4>2. CASE session = client
                BY <4>1, <4>2, InflightAssumption DEF LinkTypes, Sent
            <4>3. CASE session # client
                BY <2>3, <4>3 DEF Sent
            <4>. QED
                BY <4>2, <4>3
        <3>5. Held(outbox'[client], Sent(client), Elements(arrived), Elements(handed'))
            BY <2>1, <3>1, <3>3, <3>4, QueuedKeepsOrder
        <3>6. Sent(client)' = Sent(client)
            BY <1>2 DEF Sent
        <3>7. \A h \in live' : Held(outbox'[h], Sent(h)', Elements(arrived'), Elements(handed'))
            BY <1>2, <3>2, <3>5, <3>6 DEF Sent
        <3>. QED
            BY <1>2, <3>3, <3>7 DEF Arrivals
    <2>. QED
        BY <1>2, <2>4, <2>5, <2>6
<1>3. ASSUME OpenClient, arrived' = arrived, Queued(m) \/ Rejected(m)
      PROVE  LinkTypes' /\ Arrivals'
    <2>1. /\ client' \in Handles \ live /\ live' = live \cup {client'} /\ client' # NoClient
          /\ outbox[client'] = <<>> /\ session' = client' /\ sent' = 0 /\ ~connected
        BY <1>3, OpenClientLinks
    <2>2. outbox' \in {outbox, [outbox EXCEPT ![client'] = Append(@, m)]}
        BY <1>3 DEF Queued, Rejected
    <2>3. /\ outbox' \in [Handles -> Seq(Message)]
          /\ \A g \in Handles : g # client' => outbox'[g] = outbox[g]
          /\ Len(outbox'[client']) \in Nat
        <3>. DEFINE c == client'
        <3>1. c \in Handles /\ outbox' \in {outbox, [outbox EXCEPT ![c] = Append(@, m)]}
            BY <2>1, <2>2
        <3>. HIDE DEF c
        <3>2. /\ outbox' \in [Handles -> Seq(Message)]
              /\ \A g \in Handles : g # c => outbox'[g] = outbox[g]
            BY <3>1, OutboxType
        <3>3. Len(outbox'[c]) \in Nat
            BY <3>1, <3>2, LenProperties
        <3>. QED
            BY <3>2, <3>3 DEF c
    <2>4. LinkTypes'
        <3>1. 0 \in 0..Inflight
            BY InflightAssumption
        <3>2. \A h \in Handles \ live' : h # client' /\ h \in Handles \ live
            BY <2>1
        <3>. QED
            BY <1>3, <2>1, <2>3, <3>1, <3>2 DEF LinkTypes
    <2>5. CASE Rejected(m)
        <3>1. publishErrors' # 0
            BY <2>5 DEF Rejected, ClientInv, FailuresCounted
        <3>. QED
            BY <2>4, <3>1 DEF Arrivals
    <2>6. CASE Queued(m)
        <3> SUFFICES ASSUME publishErrors' = 0 PROVE Arrivals'
            BY <2>4 DEF Arrivals
        <3>1. outbox' = [outbox EXCEPT ![client'] = Append(@, m)] /\ publishErrors = 0
            BY <2>6 DEF Queued
        <3>2. live' = {client'}
            BY <2>1, <3>1, OneClient
        <3>3. Sorted(arrived) /\ Elements(arrived) \subseteq Elements(handed)
            BY <3>1 DEF Arrivals
        <3>. DEFINE c == client'
        <3>4. c \in Handles /\ outbox[c] = <<>> /\ outbox' = [outbox EXCEPT ![c] = Append(@, m)]
            BY <2>1, <3>1
        <3>. HIDE DEF c
        <3>5. Held(outbox[c], 0, Elements(arrived), Elements(handed)) /\ 0 <= Len(outbox[c])
            <4>1. Len(<<>>) = 0 /\ 0 <= 0
                OBVIOUS
            <4>. QED
                BY <3>4, <4>1, EmptyIsSorted DEF Held
        <3>6. Held(outbox'[c], 0, Elements(arrived), Elements(handed'))
            BY <3>3, <3>4, <3>5, QueuedKeepsOrder
        <3>7. session' = c /\ sent' = 0
            BY <2>1 DEF c
        <3>8. ASSUME NEW h \in live'
              PROVE  Held(outbox'[h], Sent(h)', Elements(arrived'), Elements(handed'))
            <4>1. h = c
                BY <3>2 DEF c
            <4>2. Sent(h)' = 0
                BY <3>7, <4>1 DEF Sent
            <4>. QED
                BY <1>3, <3>6, <4>1, <4>2
        <3>. QED
            BY <1>3, <3>3, <3>8 DEF Arrivals
    <2>. QED
        BY <1>3, <2>4, <2>5, <2>6
<1>. QED
    BY <1>1, <1>2, <1>3 DEF Publish

\* Of n messages, as many as are on the wire.
LEMMA SentWithin ==
    ASSUME NEW n \in Nat, NEW k \in 0..Inflight, k <= n PROVE k \in 0..n
BY InflightAssumption

\* What mosquitto_disconnect flushes comes in order; the rest is lost with the client.
LEMMA FlushedInOrder ==
    ASSUME ClientInv, LinkTypes, client # NoClient, NEW t \in Flushed
    PROVE  /\ FirstSeen(arrived, t) \in Seq(Message)
           /\ Arrivals /\ publishErrors = 0
                 => Sorted(FirstSeen(arrived, t)) /\ Elements(FirstSeen(arrived, t)) \subseteq Elements(handed)
<1>1. client \in live /\ client \in Handles
    BY DEF ClientInv, ClientTypes
<1>2. outbox[client] \in Seq(Message) /\ arrived \in Seq(Message)
    BY <1>1 DEF LinkTypes
<1>3. Len(outbox[client]) \in Nat
    BY <1>2, LenProperties
<1>4. CASE session # client
    <2>1. t = <<>>
        BY <1>4 DEF Flushed
    <2>2. t \in Seq(Message) /\ Sorted(t) /\ Elements(t) = {} /\ \A j \in 1..Len(t) : FALSE
        BY <2>1, EmptySeq, EmptyIsSorted
    <2>3. FirstSeen(arrived, t) \in Seq(Message)
        BY <1>2, <2>2, FirstSeenProperties
    <2>4. Elements(FirstSeen(arrived, t)) = Elements(arrived)
        <3>1. Elements(FirstSeen(arrived, t)) = Elements(arrived) \cup Elements(t)
            BY <1>2, <2>2, FirstSeenProperties
        <3>. QED
            BY <2>2, <3>1
    <2>5. Sorted(arrived) => Sorted(FirstSeen(arrived, t))
        <3>1. \A j \in 1..Len(t) : t[j] \in Elements(arrived) \/ Follows(t[j], Elements(arrived))
            BY <2>2
        <3>. QED
            BY <1>2, <2>2, <3>1, FirstSeenProperties
    <2>. QED
        BY <2>3, <2>4, <2>5 DEF Arrivals
<1>5. CASE session = client
    <2>1. sent \in 0..Len(outbox[client])
        <3>1. sent \in 0..Inflight /\ sent <= Len(outbox[client])
            BY <1>5 DEF LinkTypes
        <3>. QED
            BY <1>3, <3>1, SentWithin
    <2>2. PICK k \in sent..Len(outbox[client]) : t = SubSeq(outbox[client], sent + 1, k)
        <3>1. PICK k \in sent..(IF Len(outbox[client]) < Inflight THEN Len(outbox[client]) ELSE Inflight) :
                t = SubSeq(outbox[client], sent + 1, k)
            BY <1>5 DEF Flushed
        <3>2. k \in sent..Len(outbox[client])
            BY <1>3, <2>1, <3>1, InflightAssumption
        <3>. QED
            BY <3>1, <3>2
    <2>3. t \in Seq(Message)
        BY <1>2, <2>1, <2>2, PartOfOutbox
    <2>4. FirstSeen(arrived, t) \in Seq(Message)
        BY <1>2, <2>3, FirstSeenProperties
    <2>5. ASSUME Arrivals, publishErrors = 0
          PROVE  Sorted(FirstSeen(arrived, t)) /\ Elements(FirstSeen(arrived, t)) \subseteq Elements(handed)
        <3>1. /\ Sorted(arrived) /\ Elements(arrived) \subseteq Elements(handed)
              /\ Held(outbox[client], sent, Elements(arrived), Elements(handed))
            BY <1>1, <1>5, <2>5 DEF Arrivals, Sent
        <3>2. /\ Sorted(FirstSeen(arrived, t))
              /\ Elements(FirstSeen(arrived, t)) \subseteq Elements(arrived) \cup Elements(handed)
            BY <1>2, <2>1, <2>2, <3>1, FlushSorted
        <3>. QED
            BY <3>1, <3>2
    <2>. QED
        BY <2>4, <2>5
<1>. QED
    BY <1>4, <1>5

LEMMA DisconnectKeepsLinks ==
    ASSUME ClientInv, LinkTypes, Arrivals, Disconnect, UNCHANGED handed
    PROVE  LinkTypes' /\ Arrivals'
<1>1. 0 \in 0..Inflight /\ 0 <= 0
    BY InflightAssumption
<1>2. CASE client = NoClient
    <2>1. UNCHANGED <<live, outbox, session, sent, arrived, publishErrors>>
        BY <1>2 DEF Disconnect
    <2>2. LinkTypes'
        BY <2>1 DEF LinkTypes
    <2>3. Arrivals'
        BY <2>1 DEF Arrivals, Sent
    <2>. QED
        BY <2>2, <2>3
<1>3. CASE client # NoClient
    <2>1. /\ live' = live \ {client} /\ outbox' = [outbox EXCEPT ![client] = <<>>]
          /\ session' = IF session = client THEN NoClient ELSE session
          /\ sent' = IF session = client THEN 0 ELSE sent
          /\ UNCHANGED publishErrors
        BY <1>3 DEF Disconnect
    <2>2. PICK t \in Flushed : arrived' = FirstSeen(arrived, t)
        BY <1>3 DEF Disconnect
    <2>3. client \in live /\ client \in Handles /\ live \subseteq Handles
        BY <1>3 DEF ClientInv, ClientTypes
    <2>4. /\ outbox' \in [Handles -> Seq(Message)] /\ outbox'[client] = <<>>
          /\ \A h \in Handles : h # client => outbox'[h] = outbox[h]
        <3>1. <<>> \in Seq(Message)
            BY EmptySeq
        <3>. QED
            BY <2>1, <2>3, <3>1 DEF LinkTypes
    <2>5. /\ session' \in live' \cup {NoClient} /\ sent' \in 0..Inflight
          /\ sent' <= IF session' = NoClient THEN 0 ELSE Len(outbox'[session'])
        <3>1. CASE session = client
            BY <1>1, <2>1, <3>1
        <3>2. CASE session # client
            <4>1. session' = session /\ sent' = sent
                BY <2>1, <3>2
            <4>2. session # NoClient => outbox'[session] = outbox[session]
                BY <2>3, <2>4, <3>2 DEF LinkTypes
            <4>. QED
                BY <2>1, <3>2, <4>1, <4>2 DEF LinkTypes
        <3>. QED
            BY <3>1, <3>2
    <2>6. \A h \in Handles \ live' : outbox'[h] = <<>>
        BY <2>1, <2>4 DEF LinkTypes
    <2>7. arrived' \in Seq(Message)
        BY <1>3, <2>2, FlushedInOrder
    <2>8. LinkTypes'
        BY <2>4, <2>5, <2>6, <2>7 DEF LinkTypes
    <2>9. Arrivals'
        <3> SUFFICES ASSUME publishErrors = 0 PROVE Arrivals'
            BY <2>1 DEF Arrivals
        <3>1. live' = {}
            BY <2>1, OneClient
        <3>2. Sorted(arrived') /\ Elements(arrived') \subseteq Elements(handed)
            BY <1>3, <2>2, FlushedInOrder
        <3>. QED
            BY <3>1, <3>2 DEF Arrivals
    <2>. QED
        BY <2>8, <2>9
<1>. QED
    BY <1>2, <1>3

\* The library's threads: a message is sent or acknowledged, a link breaks, a
\* client without one reconnects and starts again with the first it holds.
LEMMA TransmitKeepsLinks ==
    ASSUME ClientInv, LinkTypes, Arrivals, Transmit, UNCHANGED handed
    PROVE  LinkTypes' /\ Arrivals'
<1>1. /\ session # NoClient /\ sent < Inflight /\ sent < Len(outbox[session]) /\ sent' = sent + 1
      /\ arrived' = FirstSeen(arrived, <<outbox[session][sent + 1]>>)
      /\ UNCHANGED <<client, live, outbox, session, publishErrors>>
    BY DEF Transmit
<1>2. session \in live /\ session \in Handles
    BY <1>1 DEF LinkTypes, ClientInv, ClientTypes
<1>3. outbox[session] \in Seq(Message) /\ arrived \in Seq(Message) /\ sent \in 0..Inflight
    BY <1>2 DEF LinkTypes
<1>4. sent \in Nat /\ Len(outbox[session]) \in Nat /\ sent + 1 \in 1..Len(outbox[session])
    BY <1>1, <1>3, LenProperties, InflightAssumption
<1>5. <<outbox[session][sent + 1]>> \in Seq(Message)
    <2>1. outbox[session][sent + 1] \in Message
        BY <1>3, <1>4, ElementOfSeq
    <2>. QED
        BY <2>1
<1>6. arrived' \in Seq(Message)
    BY <1>1, <1>3, <1>5, FirstSeenProperties
<1>7. sent' \in 0..Inflight /\ sent' <= Len(outbox[session])
    BY <1>1, <1>4, InflightAssumption
<1>8. LinkTypes'
    BY <1>1, <1>2, <1>6, <1>7 DEF LinkTypes
<1>9. Arrivals'
    <2> SUFFICES ASSUME publishErrors = 0 PROVE Arrivals'
        BY <1>1 DEF Arrivals
    <2>1. \A h \in live : h = session
        BY <1>2, OneClient
    <2>2. /\ Sorted(arrived) /\ Elements(arrived) \subseteq Elements(handed)
          /\ Held(outbox[session], sent, Elements(arrived), Elements(handed))
        BY <1>2 DEF Arrivals, Sent
    <2>. DEFINE o == outbox[session]
                n == sent
    <2>3. o \in Seq(Message) /\ n \in Nat /\ n < Len(o) /\ Held(o, n, Elements(arrived), Elements(handed))
        BY <1>1, <1>3, <1>4, <2>2
    <2>4. arrived' = FirstSeen(arrived, <<o[n + 1]>>)
        BY <1>1
    <2>. HIDE DEF o, n
    <2>5. /\ Sorted(arrived') /\ Elements(arrived') = Elements(arrived) \cup {o[n + 1]}
          /\ o[n + 1] \in Elements(handed)
          /\ Held(o, n + 1, Elements(arrived) \cup {o[n + 1]}, Elements(handed))
        BY <1>3, <2>2, <2>3, <2>4, HeldSend
    <2>6. Held(o, n + 1, Elements(arrived'), Elements(handed))
        BY <2>5
    <2>7. ASSUME NEW h \in live'
          PROVE  Held(outbox'[h], Sent(h)', Elements(arrived'), Elements(handed'))
        <3>1. h = session
            BY <1>1, <2>1
        <3>2. Sent(h)' = n + 1 /\ outbox'[h] = o
            BY <1>1, <3>1 DEF Sent, o, n
        <3>. QED
            BY <2>6, <3>2
    <2>. QED
        BY <2>2, <2>5, <2>7 DEF Arrivals
<1>. QED
    BY <1>8, <1>9

LEMMA AcknowledgeKeepsLinks ==
    ASSUME ClientInv, LinkTypes, Arrivals, Acknowledge, UNCHANGED handed
    PROVE  LinkTypes' /\ Arrivals'
<1>1. /\ sent > 0 /\ outbox' = [outbox EXCEPT ![session] = Tail(@)] /\ sent' = sent - 1
      /\ UNCHANGED <<client, live, session, arrived, publishErrors>>
    BY DEF Acknowledge
<1>2. session \in live /\ session \in Handles /\ session # NoClient
    <2>1. sent \in Nat
        BY InflightAssumption DEF LinkTypes
    <2>2. session # NoClient
        BY <1>1, <2>1 DEF LinkTypes
    <2>. QED
        BY <2>2 DEF LinkTypes, ClientInv, ClientTypes
<1>. DEFINE o == outbox[session]
            n == sent
<1>3. o \in Seq(Message) /\ n \in Nat /\ n \in 0..Inflight /\ n > 0 /\ n <= Len(o)
    BY <1>1, <1>2, InflightAssumption DEF LinkTypes
<1>4. outbox' = [outbox EXCEPT ![session] = Tail(o)] /\ sent' = n - 1
    BY <1>1
<1>5. publishErrors = 0 => Held(o, n, Elements(arrived), Elements(handed))
    BY <1>2 DEF Arrivals, Sent
<1>. HIDE DEF o, n
<1>6. Len(o) \in Nat
    BY <1>3, LenProperties
<1>7. o # <<>>
    BY <1>3, <1>6, EmptySeq
<1>8. Tail(o) \in Seq(Message) /\ Len(Tail(o)) = Len(o) - 1
    BY <1>3, <1>7, HeadTailProperties
<1>9. n - 1 \in 0..Inflight /\ n - 1 <= Len(Tail(o))
    BY <1>3, <1>6, <1>8, InflightAssumption
<1>10. /\ outbox' \in [Handles -> Seq(Message)] /\ outbox'[session] = Tail(o)
       /\ \A h \in Handles : h # session => outbox'[h] = outbox[h]
    BY <1>2, <1>4, <1>8 DEF LinkTypes
<1>11. LinkTypes'
    <2>1. \A h \in Handles \ live' : outbox'[h] = <<>>
        BY <1>1, <1>2, <1>10 DEF LinkTypes
    <2>2. /\ session' \in live' \cup {NoClient} /\ sent' \in 0..Inflight
          /\ sent' <= IF session' = NoClient THEN 0 ELSE Len(outbox'[session'])
        BY <1>1, <1>2, <1>4, <1>9, <1>10
    <2>. QED
        BY <1>1, <1>10, <2>1, <2>2 DEF LinkTypes
<1>12. Arrivals'
    <2> SUFFICES ASSUME publishErrors = 0 PROVE Arrivals'
        BY <1>1 DEF Arrivals
    <2>1. \A h \in live : h = session
        BY <1>2, OneClient
    <2>2. Held(Tail(o), n - 1, Elements(arrived), Elements(handed))
        BY <1>3, <1>5, HeldTail
    <2>3. ASSUME NEW h \in live'
          PROVE  Held(outbox'[h], Sent(h)', Elements(arrived'), Elements(handed'))
        <3>1. h = session
            BY <1>1, <2>1
        <3>2. Sent(h)' = n - 1
            BY <1>1, <1>4, <3>1 DEF Sent
        <3>. QED
            BY <1>1, <1>10, <2>2, <3>1, <3>2
    <2>. QED
        BY <1>1, <2>3 DEF Arrivals
<1>. QED
    BY <1>11, <1>12

LEMMA LinkChangeKeepsLinks ==
    ASSUME ClientInv, LinkTypes, Arrivals, LinkLost \/ \E h \in Handles : Reconnect(h),
           UNCHANGED handed
    PROVE  LinkTypes' /\ Arrivals'
<1>1. /\ session' \in live \cup {NoClient} /\ sent' = 0
      /\ UNCHANGED <<live, outbox, arrived, publishErrors>>
    BY DEF LinkLost, Reconnect
<1>2. 0 \in 0..Inflight
    BY InflightAssumption
<1>3. session' # NoClient => Len(outbox[session']) \in Nat
    <2>1. ASSUME NEW h \in live PROVE Len(outbox[h]) \in Nat
        <3>1. outbox[h] \in Seq(Message)
            BY DEF LinkTypes, ClientInv, ClientTypes
        <3>. QED
            BY <3>1, LenProperties
    <2>. QED
        BY <1>1, <2>1
<1>4. sent' <= IF session' = NoClient THEN 0 ELSE Len(outbox'[session'])
    BY <1>1, <1>3
<1>5. LinkTypes'
    BY <1>1, <1>2, <1>4 DEF LinkTypes
<1>6. Arrivals'
    <2> SUFFICES ASSUME publishErrors = 0 PROVE Arrivals'
        BY <1>1 DEF Arrivals
    <2>1. ASSUME NEW h \in live'
          PROVE  Held(outbox'[h], Sent(h)', Elements(arrived'), Elements(handed'))
        <3>1. Held(outbox[h], Sent(h), Elements(arrived), Elements(handed))
            BY <1>1 DEF Arrivals
        <3>2. Held(outbox[h], 0, Elements(arrived), Elements(handed))
            BY <3>1, HeldUnsent
        <3>3. Sent(h)' = 0
            BY <1>1 DEF Sent
        <3>. QED
            BY <1>1, <3>2, <3>3
    <2>. QED
        BY <1>1, <2>1 DEF Arrivals
<1>. QED
    BY <1>5, <1>6

LEMMA NetworkKeepsLinks ==
    ASSUME ClientInv, LinkTypes, Arrivals, Network, UNCHANGED handed
    PROVE  LinkTypes' /\ Arrivals'
BY TransmitKeepsLinks, AcknowledgeKeepsLinks, LinkChangeKeepsLinks DEF Network

\* The worker hands over the first message that has not been: all that were
\* handed over are of earlier calls.
LEMMA HandedFollows ==
    ASSUME PublisherInv, CallOrder, Hand
    PROVE  /\ Head(held) \in Message /\ Follows(Head(held), Elements(handed))
           /\ Elements(handed') = Elements(handed) \cup {Head(held)}
<1>1. worker = "publishing" /\ handed' = handed \o held
    BY DEF Hand, WorkerPublishes
<1>2. handed \in Seq(Message) /\ held \in Seq(Message) /\ items \in Seq(Message)
    BY DEF PublisherInv, PublisherTypes
<1>3. accepted = (handed \o held) \o items /\ Sorted(accepted)
    BY DEF PublisherInv, InOrder, CallOrder
<1>4. Len(held) = 1
    BY <1>1 DEF CallOrder
<1>. DEFINE m == Head(held)
            u == handed \o held
            n == Len(handed)
<1>5. m \in Message /\ m = held[1]
    <2>1. held # <<>>
        BY <1>4
    <2>. QED
        BY <1>2, <2>1, HeadTailProperties
<1>. HIDE DEF m
<1>6. n \in Nat /\ Len(items) \in Nat
    BY <1>2, LenProperties
<1>7. /\ u \in Seq(Message) /\ Len(u) = n + Len(held)
      /\ \A i \in 1..(n + Len(held)) : u[i] = IF i <= n THEN handed[i] ELSE held[i - n]
    BY <1>2, ConcatProperties
<1>. HIDE DEF u, n
<1>8. Len(u) = n + 1 /\ u[n + 1] = m /\ \A i \in 1..n : u[i] = handed[i]
    BY <1>5, <1>6, <1>7, <1>4
<1>. DEFINE w == u \o items
<1>9. /\ w \in Seq(Message) /\ Len(w) = Len(u) + Len(items)
      /\ \A i \in 1..(Len(u) + Len(items)) : w[i] = IF i <= Len(u) THEN u[i] ELSE items[i - Len(u)]
    BY <1>2, <1>7, ConcatProperties
<1>. HIDE DEF w
<1>10. \A i \in 1..(n + 1) : i \in 1..Len(w) /\ w[i] = u[i]
    BY <1>6, <1>8, <1>9
<1>11. Sorted(w)
    BY <1>3 DEF w, u
<1>12. \A i \in 1..n : Before(handed[i], m)
    <2>1. \A i \in 1..n : i \in 1..(n + 1) /\ i < n + 1 /\ n + 1 \in 1..(n + 1)
        BY <1>6
    <2>. QED
        BY <1>8, <1>10, <1>11, <2>1 DEF Sorted
<1>13. Elements(u) = Elements(handed) \cup {m}
    <2>1. \A i \in 1..(n + 1) : i \in 1..n \/ i = n + 1
        BY <1>6
    <2>2. n + 1 \in 1..(n + 1) /\ \A i \in 1..n : i \in 1..(n + 1)
        BY <1>6
    <2>3. Elements(u) = {u[i] : i \in 1..(n + 1)} /\ Elements(handed) = {handed[i] : i \in 1..n}
        BY <1>8 DEF Elements, n
    <2>. QED
        BY <1>8, <2>1, <2>2, <2>3
<1>. QED
    BY <1>1, <1>5, <1>12, <1>13 DEF Follows, Elements, m, n, u

LEMMA LinkStep ==
    PublisherInv /\ CallOrder /\ ClientInv /\ LinkTypes /\ Arrivals /\ [Next]_vars
        => LinkTypes' /\ Arrivals'
<1> SUFFICES ASSUME PublisherInv, CallOrder, ClientInv, LinkTypes, Arrivals, [Next]_vars
             PROVE  LinkTypes' /\ Arrivals'
    OBVIOUS
<1>1. CASE Start
    <2>1. (Connect \/ ConnectFails) /\ UNCHANGED handed
        BY <1>1 DEF Start, StartThread
    <2>. QED
        BY <2>1, ConnectKeepsLinks, RefusalKeepsLinks
<1>2. CASE Hand
    <2>1. Publish(Head(held)) /\ handed \in Seq(Message)
        BY <1>2 DEF Hand, PublisherInv, PublisherTypes
    <2>. QED
        BY <1>2, <2>1, HandedFollows, PublishKeepsLinks
<1>3. CASE EndStop
    <2>1. Disconnect /\ UNCHANGED handed
        BY <1>3 DEF EndStop, StopJoins
    <2>. QED
        BY <2>1, DisconnectKeepsLinks
<1>4. CASE Network /\ UNCHANGED publisherVars
    <2>1. UNCHANGED handed
        BY <1>4 DEF publisherVars
    <2>. QED
        BY <1>4, <2>1, NetworkKeepsLinks
<1>5. CASE UNCHANGED <<mqttVars, handed>>
    <2>1. UNCHANGED <<live, outbox, session, sent, arrived, publishErrors, handed>>
        BY <1>5 DEF mqttVars
    <2>2. LinkTypes'
        BY <2>1 DEF LinkTypes
    <2>3. Arrivals'
        BY <2>1 DEF Arrivals, Sent
    <2>. QED
        BY <2>2, <2>3
<1>6. CASE Summarise \/ ReportStatus \/ Push \/ BeginStop
    BY <1>5, <1>6 DEF Summarise, ReportStatus, Push, BeginStop, PublishFrameSummary, PublishStatus,
                      PublishAsync, StopCloses
<1>7. CASE Pop \/ Exit
    BY <1>5, <1>7 DEF Pop, Exit, WorkerPops, WorkerExits
<1>8. CASE UNCHANGED vars
    BY <1>5, <1>8 DEF vars, publisherVars
<1>. QED
    BY <1>1, <1>2, <1>3, <1>4, <1>6, <1>7, <1>8 DEF Next, Owner, Worker, Stopped

LinkInv == CallOrder /\ LinkTypes /\ Arrivals

LEMMA LinkCorrect == Spec => []LinkInv
<1>1. Init => LinkInv
    <2> SUFFICES ASSUME Init PROVE LinkInv
        OBVIOUS
    <2>. USE DEF Init, PublisherInit, QueueInit, MqttInit
    <2>1. CallOrder
        <3>1. accepted = <<>> /\ todo = <<>> /\ worker = "none" /\ statusDone = FALSE
            OBVIOUS
        <3>. QED
            BY <3>1, EmptyIsSorted DEF CallOrder
    <2>2. LinkTypes
        <3>1. <<>> \in Seq(Message)
            BY EmptySeq
        <3>2. sent = 0 /\ session = NoClient /\ 0 \in 0..Inflight /\ 0 <= 0
            BY InflightAssumption
        <3>3. outbox = [h \in Handles |-> <<>>] /\ arrived = <<>> /\ live = {}
            OBVIOUS
        <3>. QED
            BY <3>1, <3>2, <3>3 DEF LinkTypes
    <2>3. Arrivals
        <3>1. arrived = <<>> /\ live = {}
            OBVIOUS
        <3>. QED
            BY <3>1, EmptyIsSorted DEF Arrivals
    <2>. QED
        BY <2>1, <2>2, <2>3 DEF LinkInv
<1>2. PublisherInv /\ ClientInv /\ LinkInv /\ [Next]_vars => LinkInv'
    BY CallOrderStep, LinkStep DEF LinkInv
<1>. QED
    BY <1>1, <1>2, PublisherCorrect, ClientCorrect, PTL DEF Spec

\* Whatever links break and whatever is sent again, the broker first sees the
\* messages in the order of the publisher's calls, as long as mqtt_.publish
\* has not failed.
THEOREM FirstArrivalsInOrderCorrect == Spec => []FirstArrivalsInOrder
<1>1. LinkInv => FirstArrivalsInOrder
    <2> SUFFICES ASSUME LinkInv, publishErrors = 0,
                        NEW i \in DOMAIN arrived, NEW j \in DOMAIN arrived, i < j
                 PROVE  Before(arrived[i], arrived[j])
        BY DEF FirstArrivalsInOrder
    <2>1. Sorted(arrived) /\ arrived \in Seq(Message)
        BY DEF LinkInv, Arrivals, LinkTypes
    <2>2. DOMAIN arrived = 1..Len(arrived)
        BY <2>1, LenProperties
    <2>. QED
        BY <2>1, <2>2 DEF Sorted
<1>. QED
    BY <1>1, LinkCorrect, PTL

Phases ==
    /\ phase \in {"created", "running", "stopping", "stopped"}
    /\ worker \in {"none", "popping", "publishing", "done"}

LEMMA PhasesStep == Phases /\ [Next]_vars => Phases'
<1> SUFFICES ASSUME Phases, [Next]_vars PROVE Phases'
    OBVIOUS
<1>. USE DEF Phases
<1>1. CASE Owner
    BY <1>1 DEF Owner, Start, StartThread, Summarise, PublishFrameSummary, ReportStatus, PublishStatus,
                Push, PublishAsync, BeginStop, StopCloses, EndStop, StopJoins
<1>2. CASE Worker
    BY <1>2 DEF Worker, Pop, WorkerPops, Hand, WorkerPublishes, Exit, WorkerExits
<1>3. CASE UNCHANGED <<phase, worker>>
    BY <1>3
<1>. QED
    BY <1>1, <1>2, <1>3 DEF Next, Stopped, vars, publisherVars

\* The state of the publisher and of its clients: the client it calls is never one
\* that was destroyed, and no more is on its way than is queued.
THEOREM TypeCorrect == Spec => []TypeOK
<1>1. Spec => []Phases
    <2>1. Init => Phases
        BY DEF Init, PublisherInit, Phases
    <2>. QED
        BY <2>1, PhasesStep, PTL DEF Spec
<1>2. PublisherInv /\ ClientInv /\ LinkInv /\ Phases => TypeOK
    BY DEF PublisherInv, PublisherTypes, ClientInv, ClientTypes, LibraryCounted, LinkInv, CallOrder,
           LinkTypes, Phases, TypeOK
<1>. QED
    BY <1>1, <1>2, PublisherCorrect, ClientCorrect, LinkCorrect, PTL

----------------------------------------------------------------------------
(***************************************************************************)
(* The outbox.  What was told and is still to be handed over goes through  *)
(* the call, the queue and the worker's hand without a change, and gains   *)
(* and loses messages where the outbox does.                               *)
(***************************************************************************)
Outgoing == (held \o items) \o todo

\* The queue is closed by stop() alone, after the last call; without room it is empty.
Closing ==
    /\ closed <=> phase \in {"stopping", "stopped"}
    /\ closed => todo = <<>>
    /\ Capacity = 0 => items = <<>> /\ held = <<>>

LEMMA ClosingStep == Closing /\ [Next]_vars => Closing'
<1> SUFFICES ASSUME Closing, [Next]_vars PROVE Closing'
    OBVIOUS
<1>. USE DEF Closing
<1>1. CASE Start \/ Summarise \/ ReportStatus
    BY <1>1 DEF Start, StartThread, Summarise, PublishFrameSummary, ReportStatus, PublishStatus
<1>2. CASE Push
    <2>1. todo # <<>> /\ UNCHANGED <<phase, held, closed>>
        BY <1>2 DEF Push, PublishAsync, Store, Refuse, Discard, queue
    <2>2. Capacity = 0 => items' = items
        BY <1>2 DEF Push, PublishAsync, Store, Refuse, Discard, queue
    <2>. QED
        BY <2>1, <2>2
<1>3. CASE BeginStop \/ EndStop
    BY <1>3 DEF BeginStop, StopCloses, Shut, EndStop, StopJoins
<1>4. CASE Worker
    BY <1>4 DEF Worker, Pop, WorkerPops, Take, Hand, WorkerPublishes, Exit, WorkerExits, Drained, queue
<1>5. CASE UNCHANGED publisherVars
    BY <1>5 DEF publisherVars
<1>. QED
    BY <1>1, <1>2, <1>3, <1>4, <1>5 DEF Next, Owner, Stopped, vars

LEMMA OneMessage ==
    ASSUME NEW s \in Seq(Message), Len(s) = 1
    PROVE  s[1] \in Message /\ s = <<s[1]>>
<1>1. 1 \in 1..Len(s)
    OBVIOUS
<1>2. s[1] \in Message
    BY <1>1, LenProperties
<1>. DEFINE t == <<s[1]>>
<1>3. t \in Seq(Message) /\ Len(t) = 1 /\ t[1] = s[1]
    BY <1>2
<1>. HIDE DEF t
<1>4. s = t
    <2>1. \A i \in 1..Len(s) : s[i] = t[i]
        BY <1>3
    <2>. QED
        BY <1>3, <2>1, SeqEqual
<1>. QED
    BY <1>2, <1>4 DEF t

LEMMA MessagesAssociate ==
    ASSUME NEW u \in Seq(Message), NEW v \in Seq(Message), NEW w \in Seq(Message)
    PROVE  (u \o v) \o w = u \o (v \o w)
BY ConcatAssociative, SMTT(30)

\* A sequence followed by another continues.
LEMMA ConcatContinues ==
    ASSUME NEW s \in Seq(Message), NEW t \in Seq(Message)
    PROVE  Promise!Continues(s, s \o t)
<1>1. /\ Len(s) \in Nat /\ Len(t) \in Nat /\ Len(s \o t) = Len(s) + Len(t)
      /\ \A i \in 1..(Len(s) + Len(t)) : (s \o t)[i] = IF i <= Len(s) THEN s[i] ELSE t[i - Len(s)]
    BY LenProperties, ConcatProperties
<1>2. Len(s) <= Len(s \o t) /\ \A i \in 1..Len(s) : (s \o t)[i] = s[i]
    BY <1>1
<1>. QED
    BY <1>2 DEF Promise!Continues

\* A call tells its messages when nothing of an earlier call is left.
LEMMA CallTells ==
    ASSUME PublisherInv, PublisherInv', Phases, Closing, Summarise \/ ReportStatus
    PROVE  Promise!Tell
<1>1. /\ phase = "running" /\ todo = <<>> /\ UNCHANGED <<items, held, handed, closed, phase>>
    BY DEF Summarise, PublishFrameSummary, ReportStatus, PublishStatus
<1>2. /\ items \in Seq(Message) /\ held \in Seq(Message) /\ todo' \in Seq(Message)
    BY DEF PublisherInv, PublisherTypes
<1>3. held \o items \in Seq(Message) /\ Outgoing = held \o items /\ Outgoing' = (held \o items) \o todo'
    <2>1. held \o items \in Seq(Message)
        BY <1>2, ConcatProperties
    <2>2. (held \o items) \o <<>> = held \o items
        BY <2>1, ConcatEmptySeq
    <2>. QED
        BY <1>1, <2>1, <2>2 DEF Outgoing
<1>4. Promise!Continues(Outgoing, Outgoing')
    <2>1. Promise!Continues(held \o items, (held \o items) \o todo')
        BY <1>2, <1>3, ConcatContinues
    <2>. QED
        BY <1>3, <2>1
<1>5. ~closed
    BY <1>1 DEF Closing
<1>. QED
    BY <1>1, <1>4, <1>5 DEF Promise!Tell, Outgoing

\* A push is no step of the outbox, unless there is no room.
LEMMA PushTells ==
    ASSUME PublisherInv, Closing, Push
    PROVE  Promise!Lose \/ UNCHANGED Promise!ovars
<1>1. todo # <<>> /\ todo' = Tail(todo) /\ UNCHANGED <<phase, held, handed, closed>>
    BY DEF Push, PublishAsync, Store, Refuse, Discard, queue
<1>2. /\ items \in Seq(Message) /\ held \in Seq(Message) /\ todo \in Seq(Message)
    BY DEF PublisherInv, PublisherTypes
<1>3. Head(todo) \in Message /\ Tail(todo) \in Seq(Message)
    BY <1>1, <1>2, HeadTailProperties
<1>. DEFINE m == <<Head(todo)>>
            rest == Tail(todo)
<1>4. m \in Seq(Message) /\ rest \in Seq(Message) /\ todo = m \o rest
    BY <1>1, <1>2, <1>3
<1>5. CASE Store(Head(todo))
    <2>1. items' = items \o m
        BY <1>2, <1>3, <1>5, AppendIsConcat DEF Store
    <2>. HIDE DEF m, rest
    <2>2. held \o items \in Seq(Message)
        BY <1>2, ConcatProperties
    <2>3. (held \o items) \o m = held \o (items \o m)
        <3>1. held \in Seq(Message) /\ items \in Seq(Message) /\ m \in Seq(Message)
            BY <1>2, <1>4
        <3>. QED
            BY <3>1, MessagesAssociate
    <2>4. ((held \o items) \o m) \o rest = (held \o items) \o (m \o rest)
        <3> SUFFICES ASSUME NEW s \in Seq(Message)
                     PROVE  (s \o m) \o rest = s \o (m \o rest)
            BY <2>2
        <3>. QED
            BY <1>4, MessagesAssociate
    <2>5. Outgoing' = Outgoing
        <3>1. Outgoing' = (held \o (items \o m)) \o rest
            BY <1>1, <2>1 DEF Outgoing, rest
        <3>. QED
            BY <1>4, <2>3, <2>4, <3>1 DEF Outgoing
    <2>. QED
        BY <1>1, <2>5 DEF Promise!ovars, Outgoing
<1>6. CASE Discard
    <2>1. Capacity = 0 /\ items' = <<>> /\ items = <<>> /\ held = <<>> /\ ~(Capacity > 0)
        BY <1>6 DEF Discard, Closing, queue
    <2>2. \A s \in Seq(Message) : (<<>> \o <<>>) \o s = s
        BY EmptySeq, ConcatEmptySeq
    <2>3. Outgoing = todo /\ Outgoing' = Tail(todo)
        <3>1. Outgoing = (<<>> \o <<>>) \o todo /\ Outgoing' = (<<>> \o <<>>) \o Tail(todo)
            BY <1>1, <2>1 DEF Outgoing
        <3>. QED
            BY <1>2, <1>3, <2>2, <3>1
    <2>. QED
        BY <1>1, <2>1, <2>3 DEF Promise!Lose, Outgoing
<1>7. CASE Refuse
    BY <1>1, <1>7 DEF Refuse, Closing
<1>. QED
    BY <1>5, <1>6, <1>7 DEF Push, PublishAsync

\* Taking a message from the queue is no step of the outbox, handing it over is one.
LEMMA WorkerTells ==
    ASSUME PublisherInv, CallOrder, Worker
    PROVE  Promise!HandOver \/ UNCHANGED Promise!ovars
<1>1. /\ items \in Seq(Message) /\ held \in Seq(Message) /\ todo \in Seq(Message)
      /\ handed \in Seq(Message)
    BY DEF PublisherInv, PublisherTypes
<1>2. CASE Pop
    <2>1. /\ items # <<>> /\ items' = Tail(items) /\ held' = <<Head(items)>> /\ worker = "popping"
          /\ UNCHANGED <<phase, todo, handed, closed>>
        BY <1>2 DEF Pop, WorkerPops, Take
    <2>2. Head(items) \in Message /\ Tail(items) \in Seq(Message)
        BY <1>1, <2>1, HeadTailProperties
    <2>3. held = <<>>
        BY <2>1 DEF PublisherInv, WorkerPhase
    <2>4. held \o items = items
        BY <1>1, <2>3, ConcatEmptySeq
    <2>5. <<Head(items)>> \o Tail(items) = items
        BY <1>1, <2>1, <2>2
    <2>6. Outgoing' = Outgoing
        BY <2>1, <2>4, <2>5 DEF Outgoing
    <2>. QED
        BY <2>1, <2>6 DEF Promise!ovars, Outgoing
<1>3. CASE Hand
    <2>1. /\ handed' = handed \o held /\ held' = <<>> /\ worker = "publishing"
          /\ UNCHANGED <<items, closed, phase, todo>>
        BY <1>3 DEF Hand, WorkerPublishes
    <2>2. Len(held) = 1
        BY <2>1 DEF CallOrder
    <2>. DEFINE m == held[1]
                rest == items \o todo
    <2>3. m \in Message /\ held = <<m>>
        BY <1>1, <2>2, OneMessage
    <2>4. handed' = Append(handed, m)
        BY <1>1, <2>1, <2>3, AppendIsConcat
    <2>5. rest \in Seq(Message)
        BY <1>1, ConcatProperties
    <2>6. Outgoing = held \o rest
        BY <1>1, MessagesAssociate DEF Outgoing
    <2>7. Outgoing' = rest
        <3>1. <<>> \o items = items
            BY <1>1, ConcatEmptySeq
        <3>. QED
            BY <2>1, <3>1 DEF Outgoing
    <2>. HIDE DEF rest, m
    <2>8. Outgoing # <<>> /\ Head(Outgoing) = m /\ Tail(Outgoing) = rest
        <3>1. <<m>> \o rest # <<>> /\ Head(<<m>> \o rest) = m /\ Tail(<<m>> \o rest) = rest
            BY <2>3, <2>5
        <3>. QED
            BY <2>3, <2>6, <3>1
    <2>. QED
        BY <2>1, <2>4, <2>7, <2>8 DEF Promise!HandOver, Outgoing
<1>4. CASE Exit
    <2>1. UNCHANGED <<items, held, todo, handed, closed, phase>>
        BY <1>4 DEF Exit, WorkerExits, Drained, queue
    <2>. QED
        BY <2>1 DEF Promise!ovars
<1>. QED
    BY <1>2, <1>3, <1>4 DEF Worker

LEMMA StopTells ==
    ASSUME PublisherInv, Closing, BeginStop \/ EndStop
    PROVE  Promise!BeginStop \/ Promise!EndStop
<1>1. CASE BeginStop
    <2>1. /\ phase = "running" /\ phase' = "stopping" /\ closed' = TRUE
          /\ UNCHANGED <<items, held, todo, handed>>
        BY <1>1 DEF BeginStop, StopCloses, Shut
    <2>2. ~closed
        BY <2>1 DEF Closing
    <2>. QED
        BY <2>1, <2>2 DEF Promise!BeginStop
<1>2. CASE EndStop
    <2>1. /\ phase = "stopping" /\ phase' = "stopped" /\ worker = "done"
          /\ UNCHANGED <<items, held, todo, handed, closed>>
        BY <1>2 DEF EndStop, StopJoins
    <2>2. closed /\ todo = <<>> /\ items = <<>> /\ held = <<>>
        BY <2>1 DEF Closing, PublisherInv, WorkerPhase
    <2>3. (<<>> \o <<>>) \o <<>> = <<>>
        BY EmptySeq, ConcatEmptySeq
    <2>. QED
        BY <2>1, <2>2, <2>3 DEF Promise!EndStop
<1>. QED
    BY <1>1, <1>2

\* TelemetryPublisher with its queue and its worker implements the outbox: what
\* the pipeline tells it is handed to mqtt_.publish in the order of the calls,
\* each message once, and stop() disconnects when nothing is left.
THEOREM RefinesOutbox == Spec => ImplementsOutbox
<1>1. Init => Promise!Init
    <2>1. (<<>> \o <<>>) \o <<>> = <<>>
        BY EmptySeq, ConcatEmptySeq
    <2>. QED
        BY <2>1 DEF Init, PublisherInit, QueueInit, Promise!Init
<1>2. Spec => []Closing
    <2>1. Init => Closing
        BY DEF Init, PublisherInit, QueueInit, Closing
    <2>. QED
        BY <2>1, ClosingStep, PTL DEF Spec
<1>3. Spec => []Phases
    <2>1. Init => Phases
        BY DEF Init, PublisherInit, Phases
    <2>. QED
        BY <2>1, PhasesStep, PTL DEF Spec
<1>4. PublisherInv /\ PublisherInv' /\ LinkInv /\ Closing /\ Phases /\ [Next]_vars
         => [Promise!Next]_Promise!ovars
    <2> SUFFICES ASSUME PublisherInv, PublisherInv', LinkInv, Closing, Phases, [Next]_vars
                 PROVE  Promise!Next \/ UNCHANGED Promise!ovars
        OBVIOUS
    <2>1. CASE Summarise \/ ReportStatus
        BY <2>1, CallTells DEF Promise!Next
    <2>2. CASE Push
        BY <2>2, PushTells DEF Promise!Next
    <2>3. CASE Worker
        BY <2>3, WorkerTells DEF Promise!Next, LinkInv
    <2>4. CASE BeginStop \/ EndStop
        BY <2>4, StopTells DEF Promise!Next
    <2>5. CASE Start
        <3>1. phase # "stopped" /\ phase' # "stopped" /\ UNCHANGED <<items, held, todo, handed, closed>>
            BY <2>5 DEF Start, StartThread
        <3>. QED
            BY <3>1 DEF Promise!ovars
    <2>6. CASE UNCHANGED publisherVars
        BY <2>6 DEF publisherVars, Promise!ovars
    <2>. QED
        BY <2>1, <2>2, <2>3, <2>4, <2>5, <2>6 DEF Next, Owner, Stopped, vars
<1>. QED
    BY <1>1, <1>2, <1>3, <1>4, PublisherCorrect, LinkCorrect, PTL DEF Spec, ImplementsOutbox, Promise!Spec
=============================================================================
