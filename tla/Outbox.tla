------------------------------- MODULE Outbox -------------------------------
(***************************************************************************)
(* What TelemetryPublisher promises the pipeline: whatever it is told goes *)
(* to MQTT, each message once and in the order of the calls, and it has    *)
(* stopped only when nothing is left.  The queue and the worker are no     *)
(* part of this description.                                               *)
(***************************************************************************)
EXTENDS Naturals, Sequences

CONSTANT Keeps       \* FALSE: there is no room, and messages may be dropped

VARIABLES waiting,   \* the messages told and not yet handed over
          handed,    \* history: those handed over
          stage      \* "open", "closing", "ended"

ovars == <<waiting, handed, stage>>

Init == waiting = <<>> /\ handed = <<>> /\ stage = "open"

Continues(s, t) == Len(s) <= Len(t) /\ \A i \in 1..Len(s) : t[i] = s[i]

\* A call: its messages come after all the others.
Tell ==
    /\ stage = "open"
    /\ Continues(waiting, waiting')
    /\ UNCHANGED <<handed, stage>>

HandOver ==
    /\ waiting # <<>>
    /\ handed' = Append(handed, Head(waiting))
    /\ waiting' = Tail(waiting)
    /\ UNCHANGED stage

Lose ==
    /\ ~Keeps
    /\ waiting # <<>>
    /\ waiting' = Tail(waiting)
    /\ UNCHANGED <<handed, stage>>

BeginStop ==
    /\ stage = "open"
    /\ stage' = "closing"
    /\ UNCHANGED <<waiting, handed>>

EndStop ==
    /\ stage = "closing"
    /\ waiting = <<>>
    /\ stage' = "ended"
    /\ UNCHANGED <<waiting, handed>>

Next == Tell \/ HandOver \/ Lose \/ BeginStop \/ EndStop

Spec == Init /\ [][Next]_ovars
=============================================================================
