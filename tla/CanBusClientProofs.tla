-------------------------- MODULE CanBusClientProofs --------------------------
(***************************************************************************)
(* Theorems about CanBusClient, for every number of frames and every size  *)
(* of the socket's buffer.  The invariant ties the thread to the socket    *)
(* and to the call of stop() that is in progress: a thread is there only   *)
(* while the socket is open, and one that is to end is waited for.         *)
(***************************************************************************)
EXTENDS CanBusClient, SequenceTheorems, TLAPS

Values == 1..MaxFrames

\* The types, with those of the frames under way.
Typed ==
    /\ owner \in {"idle", "stopping"} /\ open \in BOOLEAN /\ running \in BOOLEAN
    /\ receiver \in {"none", "testing", "reading", "done"}
    /\ state \in VehicleState(Values) /\ snapshot \in VehicleState(Values)
    /\ rx \in Seq(CanFrame(Values)) /\ Len(rx) <= RxLimit
    /\ sentFrames \in 0..MaxFrames

\* The life of the thread: it runs on an open socket; if it is to go on it has
\* not ended; if it is to end stop() is waiting for it.
ThreadLife ==
    /\ receiver # "none" => open
    /\ running => receiver \in {"testing", "reading"} /\ owner = "idle"
    /\ ~running /\ receiver # "none" => owner = "stopping"

IInv == Typed /\ ThreadLife

\* A decoded frame gives a vehicle state again.
LEMMA ApplyTyped ==
    ASSUME NEW frame \in CanFrame(Values), NEW s \in VehicleState(Values)
    PROVE  ApplyFrameToState(frame, s) \in VehicleState(Values)
BY DEF CanFrame, VehicleState, ApplyFrameToState

LEMMA InitEstablishes == Init => IInv
<1> SUFFICES ASSUME Init PROVE IInv
    OBVIOUS
<1>1. NoVehicleState \in VehicleState(Values)
    BY DEF NoVehicleState, VehicleState
<1>2. rx \in Seq(CanFrame(Values)) /\ Len(rx) = 0
    BY EmptySeq DEF Init
<1>3. RxLimit \in Nat /\ MaxFrames \in Nat
    BY CanAssumption
<1>4. Len(rx) <= RxLimit /\ sentFrames \in 0..MaxFrames
    BY <1>2, <1>3 DEF Init
<1>5. state \in VehicleState(Values) /\ snapshot \in VehicleState(Values)
    BY <1>1 DEF Init
<1>6. ThreadLife
    BY DEF Init, ThreadLife
<1>. QED
    BY <1>2, <1>4, <1>5, <1>6 DEF Init, IInv, Typed

LEMMA StepPreserves == IInv /\ [Next]_vars => IInv'
<1> SUFFICES ASSUME IInv, [Next]_vars PROVE IInv'
    OBVIOUS
<1>. USE CanAssumption
<1>1. CASE Start
    BY <1>1 DEF Start, IInv, Typed, ThreadLife
<1>2. CASE Snapshot
    BY <1>2 DEF Snapshot, IInv, Typed, ThreadLife
<1>3. CASE BeginStop
    BY <1>3 DEF BeginStop, IInv, Typed, ThreadLife
<1>4. CASE EndStop
    <2>1. rx' \in Seq(CanFrame(Values)) /\ Len(rx') <= RxLimit
        BY <1>4, EmptySeq DEF EndStop
    <2>. QED
        BY <1>4, <2>1 DEF EndStop, IInv, Typed, ThreadLife
<1>5. CASE TestRunning
    BY <1>5 DEF TestRunning, IInv, Typed, ThreadLife
<1>6. CASE ReadFrame
    <2>1. Head(rx) \in CanFrame(Values) /\ rx' \in Seq(CanFrame(Values)) /\ Len(rx') <= RxLimit
        BY <1>6, HeadTailProperties DEF ReadFrame, IInv, Typed
    <2>2. state' \in VehicleState(Values)
        BY <1>6, <2>1, ApplyTyped DEF ReadFrame, IInv, Typed
    <2>. QED
        BY <1>6, <2>1, <2>2 DEF ReadFrame, IInv, Typed, ThreadLife
<1>7. CASE ReadNothing
    BY <1>7 DEF ReadNothing, IInv, Typed, ThreadLife
<1>8. CASE BusFrame
    <2>1. sentFrames' \in 0..MaxFrames /\ sentFrames + 1 \in Values
        BY <1>8 DEF BusFrame, IInv, Typed, Values
    <2>2. PICK frame \in CanFrame({sentFrames + 1}) :
             rx' = IF open /\ Len(rx) < RxLimit THEN Append(rx, frame) ELSE rx
        BY <1>8 DEF BusFrame
    <2>3. frame \in CanFrame(Values)
        BY <2>1 DEF CanFrame
    <2>4. rx' \in Seq(CanFrame(Values)) /\ Len(rx') <= RxLimit
        BY <2>2, <2>3, AppendProperties DEF IInv, Typed
    <2>. QED
        BY <1>8, <2>1, <2>4 DEF BusFrame, IInv, Typed, ThreadLife
<1>9. CASE UNCHANGED vars
    BY <1>9 DEF vars, IInv, Typed, ThreadLife
<1>. QED
    BY <1>1, <1>2, <1>3, <1>4, <1>5, <1>6, <1>7, <1>8, <1>9 DEF Next, Receiver

LEMMA Invariance == Spec => []IInv
BY InitEstablishes, StepPreserves, PTL DEF Spec

\* The type invariant: the thread of a running client is there, and the socket
\* never holds more than it can.
THEOREM TypeCorrect == Spec => []TypeOK
<1>1. IInv => TypeOK
    BY DEF IInv, Typed, ThreadLife, TypeOK, Values
<1>. QED
    BY <1>1, Invariance, PTL

\* CanBusClient::receiveLoop never reads a descriptor that stop() has closed,
\* over any number of starts and stops: the join comes before the close.
THEOREM ReadsOpenSocketOnlyCorrect == Spec => []ReadsOpenSocketOnly
<1>1. IInv => ReadsOpenSocketOnly
    BY DEF IInv, ThreadLife, ReadsOpenSocketOnly
<1>. QED
    BY <1>1, Invariance, PTL

----------------------------------------------------------------------------
(* The signals: the frames read that set one, the last of which it holds.  *)

Given(s) == {i \in DOMAIN readFrames : readFrames[i].id = s /\ readFrames[i].long}
LastGiven(s, i) == i \in Given(s) /\ \A j \in Given(s) : j <= i

Remembers ==
    \A s \in Signals :
        \/ Given(s) = {} /\ state.signal[s] = Unset
        \/ \E i \in Given(s) : LastGiven(s, i) /\ state.signal[s] = readFrames[i].value

\* Something known has been received.
Known == \E i \in DOMAIN readFrames : readFrames[i].id \in Signals
ValidLife == state.valid <=> Known

SignalsInv == ValidLife /\ IInv /\ readFrames \in Seq(CanFrame(Values)) /\ Remembers

LEMMA InitRemembers == Init => SignalsInv
<1> SUFFICES ASSUME Init PROVE SignalsInv
    OBVIOUS
<1>1. readFrames \in Seq(CanFrame(Values)) /\ DOMAIN readFrames = {}
    BY EmptySeq DEF Init
<1>2. Remembers
    BY <1>1 DEF Init, Remembers, Given, NoVehicleState
<1>3. ValidLife
    BY <1>1 DEF Init, ValidLife, Known, NoVehicleState
<1>. QED
    BY <1>1, <1>2, <1>3, InitEstablishes DEF SignalsInv

\* A frame read is given to its signal, behind all others, if it is long enough.
LEMMA ReadFrameRemembers ==
    ASSUME SignalsInv, ReadFrame
    PROVE  readFrames' \in Seq(CanFrame(Values)) /\ Remembers' /\ ValidLife'
<1> DEFINE n == Len(readFrames)
           frame == Head(rx)
<1>1. frame \in CanFrame(Values)
    BY HeadTailProperties DEF ReadFrame, SignalsInv, IInv, Typed
<1>2. readFrames \in Seq(CanFrame(Values)) /\ n \in Nat /\ DOMAIN readFrames = 1..n
    BY LenProperties DEF SignalsInv
<1>3. /\ readFrames' \in Seq(CanFrame(Values))
      /\ DOMAIN readFrames' = 1..(n + 1)
      /\ \A i \in 1..n : readFrames'[i] = readFrames[i]
      /\ readFrames'[n + 1] = frame
    <2>1. readFrames' = Append(readFrames, frame)
        BY DEF ReadFrame
    <2>2. readFrames' \in Seq(CanFrame(Values)) /\ Len(readFrames') = n + 1
        BY <1>1, <1>2, <2>1, AppendProperties
    <2>3. DOMAIN readFrames' = 1..(n + 1)
        BY <2>2, LenProperties
    <2>. QED
        BY <1>1, <1>2, <2>1, <2>2, <2>3, AppendProperties
<1>4. state.signal \in [Signals -> Values \cup {Unset}]
    BY DEF SignalsInv, IInv, Typed, VehicleState
<1>5. state' = ApplyFrameToState(frame, state)
    BY DEF ReadFrame
<1>6. ASSUME NEW s \in Signals
      PROVE  \/ Given(s)' = {} /\ state'.signal[s] = Unset
             \/ \E i \in Given(s)' : LastGiven(s, i)' /\ state'.signal[s] = readFrames'[i].value
    <2>1. Given(s) \subseteq 1..n
        BY <1>2 DEF Given
    <2>2. CASE frame.id = s /\ frame.long
        <3>1. PICK last \in Nat : last = n + 1
            BY <1>2
        <3>2. last \in Given(s)' /\ Given(s)' \subseteq 1..last
            BY <1>2, <1>3, <2>2, <3>1 DEF Given
        <3>3. LastGiven(s, last)'
            BY <3>1, <3>2 DEF LastGiven
        <3>4. state'.signal[s] = frame.value
            BY <1>4, <1>5, <2>2 DEF ApplyFrameToState
        <3>5. readFrames'[last] = frame
            BY <1>3, <3>1
        <3>. QED
            BY <3>2, <3>3, <3>4, <3>5
    <2>3. CASE ~(frame.id = s /\ frame.long)
        <3>1. Given(s)' = Given(s)
            BY <1>2, <1>3, <2>3 DEF Given
        <3>2. state'.signal[s] = state.signal[s]
            BY <1>4, <1>5, <2>3 DEF ApplyFrameToState
        <3>3. \A i \in Given(s) : readFrames'[i] = readFrames[i]
            BY <1>3, <2>1
        <3>. QED
            BY <3>1, <3>2, <3>3 DEF SignalsInv, Remembers, LastGiven
    <2>. QED
        BY <2>2, <2>3
<1>7. ValidLife'
    <2>1. Known' <=> Known \/ frame.id \in Signals
        BY <1>2, <1>3 DEF Known
    <2>2. state'.valid <=> state.valid \/ frame.id \in Signals
        BY <1>5 DEF ApplyFrameToState, SignalsInv, IInv, Typed, VehicleState
    <2>. QED
        BY <2>1, <2>2 DEF SignalsInv, ValidLife
<1>. QED
    BY <1>3, <1>6, <1>7 DEF Remembers

LEMMA StepRemembers == SignalsInv /\ [Next]_vars => SignalsInv'
<1> SUFFICES ASSUME SignalsInv, [Next]_vars PROVE SignalsInv'
    OBVIOUS
<1>1. IInv'
    BY StepPreserves DEF SignalsInv
<1>2. CASE ReadFrame
    BY <1>1, <1>2, ReadFrameRemembers DEF SignalsInv
<1>3. CASE UNCHANGED <<state, readFrames>>
    BY <1>1, <1>3 DEF SignalsInv, ValidLife, Known, Remembers, Given, LastGiven
<1>. QED
    BY <1>2, <1>3 DEF Next, Receiver, Start, Snapshot, BeginStop, EndStop, TestRunning, ReadNothing,
                      BusFrame, vars

\* CanBusClient::applyFrameToState: each signal is that of the last frame read
\* with its id and both bytes, whatever came between and however often the
\* client was restarted, and the state is valid once a known id was read.
THEOREM SignalsAreLastReceivedCorrect == Spec => []SignalsAreLastReceived
<1>1. SignalsInv => SignalsAreLastReceived
    <2> SUFFICES ASSUME SignalsInv, NEW s \in Signals
                 PROVE  state.signal[s] =
                          IF Given(s) = {} THEN Unset
                          ELSE readFrames[CHOOSE i \in Given(s) :
                                             \A j \in Given(s) : j <= i].value
        BY DEF SignalsAreLastReceived, Given, SignalsInv, ValidLife, Known
    <2>1. CASE Given(s) = {}
        BY <2>1 DEF SignalsInv, Remembers
    <2>2. CASE Given(s) # {}
        <3>1. PICK i \in Given(s) : LastGiven(s, i) /\ state.signal[s] = readFrames[i].value
            BY <2>2 DEF SignalsInv, Remembers
        <3>2. Given(s) \subseteq Nat
            BY LenProperties DEF SignalsInv, Given
        <3>3. i = CHOOSE k \in Given(s) : \A j \in Given(s) : j <= k
            <4> DEFINE last == CHOOSE k \in Given(s) : \A j \in Given(s) : j <= k
            <4>1. last \in Given(s) /\ \A j \in Given(s) : j <= last
                BY <3>1 DEF LastGiven
            <4>2. i <= last /\ last <= i
                BY <3>1, <4>1 DEF LastGiven
            <4>. QED
                BY <3>1, <3>2, <4>1, <4>2
        <3>. QED
            BY <2>2, <3>1, <3>3
    <2>. QED
        BY <2>1, <2>2
<1>. QED
    BY <1>1, InitRemembers, StepRemembers, PTL DEF Spec
=============================================================================
