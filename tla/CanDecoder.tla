----------------------------- MODULE CanDecoder -----------------------------
(***************************************************************************)
(* The decoding of CAN frames into a vehicle state, by the vehicle program *)
(* (CanBusClient::applyFrameToState) and by the terminal                   *)
(* (SocketCanReader::applyFrame).  A frame has one of the four known ids   *)
(* (0x100 to 0x103), or another; it has the two data bytes the decoders    *)
(* read, or fewer; and it carries a value.  The ids are compared without   *)
(* the extended, remote and error flags of the frame.                      *)
(***************************************************************************)
EXTENDS Naturals

Signals == {"speed", "steering", "pedals", "gear"}   \* 0x100, 0x101, 0x102, 0x103
Unset == 0

CanFrame(values) == [id : Signals \cup {"other"}, long : BOOLEAN, value : values]

VehicleState(values) == [valid : BOOLEAN, signal : [Signals -> values \cup {Unset}]]
NoVehicleState == [valid |-> FALSE, signal |-> [s \in Signals |-> Unset]]

\* Seeded: the length of the frame is not looked at.
ApplyFrameToStateFault(frame, state) ==
    IF frame.id \notin Signals THEN state
    ELSE [valid |-> TRUE, signal |-> [state.signal EXCEPT ![frame.id] = frame.value]]

\* The vehicle program: a short frame changes no signal, and yet makes the
\* state valid.
ApplyFrameToState(frame, state) ==
    IF frame.id \notin Signals THEN state
    ELSE [valid |-> TRUE,
          signal |-> IF frame.long THEN [state.signal EXCEPT ![frame.id] = frame.value]
                                   ELSE state.signal]

\* The terminal: a short frame changes nothing.
ApplyFrame(frame, state) ==
    IF frame.long /\ frame.id \in Signals
      THEN [valid |-> TRUE, signal |-> [state.signal EXCEPT ![frame.id] = frame.value]]
      ELSE state
=============================================================================
