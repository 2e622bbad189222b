---------------------------- MODULE CanBusClient ----------------------------
(***************************************************************************)
(* vehicle::infra::CanBusClient: start() opens a SocketCAN socket with a   *)
(* receive timeout and starts the thread that reads it, snapshot() copies  *)
(* the state, and stop() clears running_, joins the thread and closes the  *)
(* socket.  (shutdown() does not wake a reader of a CAN_RAW socket, so the *)
(* timeout, which must not be 0, is what ends its last read.)              *)
(***************************************************************************)
EXTENDS CanDecoder, Sequences

CONSTANTS MaxFrames,   \* bound: frames on the bus
          RxLimit      \* frames the socket holds unread

ASSUME CanAssumption == MaxFrames \in Nat /\ RxLimit \in Nat

VARIABLES owner,       \* the owning thread: "idle", "stopping"
          open,        \* socketFd_ is open
          running,     \* running_
          receiver,    \* receiveThread_: "none", "testing", "reading", "done"
          state,       \* state_
          snapshot,    \* the last state snapshot() returned
          rx,          \* external: frames in the socket
          sentFrames,  \* external: frames on the bus so far
          readFrames   \* history: the frames read, in order

vars == <<owner, open, running, receiver, state, snapshot, rx, sentFrames, readFrames>>

Init ==
    /\ owner = "idle" /\ open = FALSE /\ running = FALSE /\ receiver = "none"
    /\ state = NoVehicleState /\ snapshot = NoVehicleState
    /\ rx = <<>> /\ sentFrames = 0 /\ readFrames = <<>>

----------------------------------------------------------------------------
\* start(): fails, the socket closed again, or succeeds.
Start ==
    /\ owner = "idle"
    /\ ~running
    /\ open' = TRUE
    /\ running' = TRUE
    /\ receiver' = "testing"
    /\ UNCHANGED <<owner, state, snapshot, rx, sentFrames, readFrames>>

\* snapshot(): the state is copied under the lock.
Snapshot ==
    /\ owner = "idle"
    /\ snapshot' = state
    /\ UNCHANGED <<owner, open, running, receiver, state, rx, sentFrames, readFrames>>

\* Seeded: running_ is left as it is.
BeginStopFault ==
    /\ owner = "idle"
    /\ owner' = "stopping"
    /\ UNCHANGED <<open, running, receiver, state, snapshot, rx, sentFrames, readFrames>>

\* stop(): running_ is cleared, ...
BeginStop ==
    /\ owner = "idle"
    /\ owner' = "stopping"
    /\ running' = FALSE
    /\ UNCHANGED <<open, receiver, state, snapshot, rx, sentFrames, readFrames>>

\* Seeded: the socket is closed without the join.
EndStopFault ==
    /\ owner = "stopping"
    /\ owner' = "idle"
    /\ open' = FALSE /\ rx' = <<>>
    /\ UNCHANGED <<running, receiver, state, snapshot, sentFrames, readFrames>>

\* ... the thread joined, if there is one, and the socket closed.
EndStop ==
    /\ owner = "stopping"
    /\ receiver \in {"none", "done"}
    /\ receiver' = "none"
    /\ owner' = "idle"
    /\ open' = FALSE /\ rx' = <<>>
    /\ UNCHANGED <<running, state, snapshot, sentFrames, readFrames>>

----------------------------------------------------------------------------
\* receiveLoop(): test running_, ...
TestRunning ==
    /\ receiver = "testing"
    /\ receiver' = IF running THEN "reading" ELSE "done"
    /\ UNCHANGED <<owner, open, running, state, snapshot, rx, sentFrames, readFrames>>

\* ... read a frame and apply it, ...
ReadFrame ==
    /\ receiver = "reading"
    /\ rx # <<>>
    /\ rx' = Tail(rx)
    /\ state' = ApplyFrameToState(Head(rx), state)
    /\ readFrames' = Append(readFrames, Head(rx))
    /\ receiver' = "testing"
    /\ UNCHANGED <<owner, open, running, snapshot, sentFrames>>

\* Seeded: a failed read ends the thread.
ReadNothingFault ==
    /\ receiver = "reading"
    /\ receiver' = "done"
    /\ UNCHANGED <<owner, open, running, state, snapshot, rx, sentFrames, readFrames>>

\* ... or read in vain: the timeout, or an error of the interface.
ReadNothing ==
    /\ receiver = "reading"
    /\ receiver' = "testing"
    /\ UNCHANGED <<owner, open, running, state, snapshot, rx, sentFrames, readFrames>>

Receiver == TestRunning \/ ReadFrame \/ ReadNothing

\* External: a frame on the bus; a full socket loses it.
BusFrame ==
    /\ sentFrames < MaxFrames
    /\ sentFrames' = sentFrames + 1
    /\ \E frame \in CanFrame({sentFrames + 1}) :
          rx' = IF open /\ Len(rx) < RxLimit THEN Append(rx, frame) ELSE rx
    /\ UNCHANGED <<owner, open, running, receiver, state, snapshot, readFrames>>

Next == Start \/ Snapshot \/ BeginStop \/ EndStop \/ Receiver \/ BusFrame

(***************************************************************************)
(* The receiver is scheduled and its reads time out, and stop() goes on    *)
(* once the thread is gone.                                                *)
(***************************************************************************)
Spec == Init /\ [][Next]_vars /\ WF_vars(Receiver) /\ WF_vars(EndStop)

----------------------------------------------------------------------------
\* running_ says whether there is a thread that is to go on.
TypeOK ==
    /\ owner \in {"idle", "stopping"} /\ open \in BOOLEAN /\ running \in BOOLEAN
    /\ receiver \in {"none", "testing", "reading", "done"}
    /\ state \in VehicleState(1..MaxFrames) /\ snapshot \in VehicleState(1..MaxFrames)
    /\ Len(rx) <= RxLimit
    /\ running => receiver \in {"testing", "reading"}

\* The thread never reads a descriptor that is closed (and may be another
\* file's by now), over any number of starts and stops.
ReadsOpenSocketOnly == receiver = "reading" => open

\* A signal is that of the last frame with its id and both bytes; a frame that
\* is short, or of another id, never changes one.  A restart keeps them all, and
\* the state is valid from the first frame with a known id on, short or not.
SignalsAreLastReceived ==
    /\ \A s \in Signals :
          LET given == {i \in DOMAIN readFrames : readFrames[i].id = s /\ readFrames[i].long}
          IN  state.signal[s] = IF given = {} THEN Unset
                                ELSE readFrames[CHOOSE i \in given : \A j \in given : j <= i].value
    /\ state.valid <=> \E i \in DOMAIN readFrames : readFrames[i].id \in Signals

\* stop() returns, on a silent bus and on a busy one.
StopReturns == owner = "stopping" ~> owner = "idle"
=============================================================================
