--------------------------- MODULE ClosableQueue ---------------------------
(***************************************************************************)
(* What BlockingQueue promises to the pipeline and to the telemetry        *)
(* publisher: a bounded first-in first-out queue.  A call is pending until *)
(* the state of the queue lets it return, and it does return if the state  *)
(* keeps letting it: no wake-up is part of this description.               *)
(***************************************************************************)
EXTENDS QueueState

CONSTANTS Producers, Consumers,   \* the threads that push, and that pop
          MaxCalls                \* bound: push calls made by one producer

VARIABLES issued,      \* issued[p]: push calls that p has begun
          pending,     \* the threads inside push or pop
          accepted,    \* history: the values stored, in the order of storing
          delivered    \* history: the values returned by pop, in that order

qvars == <<items, closed, issued, pending, accepted, delivered>>

Message == Producers \X Nat

Init ==
    /\ QueueInit
    /\ issued = [p \in Producers |-> 0]
    /\ pending = {}
    /\ accepted = <<>>
    /\ delivered = <<>>

BeginPush(p) ==
    /\ p \notin pending
    /\ issued[p] < MaxCalls
    /\ issued' = [issued EXCEPT ![p] = @ + 1]
    /\ pending' = pending \cup {p}
    /\ UNCHANGED <<items, closed, accepted, delivered>>

BeginPop(c) ==
    /\ c \notin pending
    /\ pending' = pending \cup {c}
    /\ UNCHANGED <<items, closed, issued, accepted, delivered>>

EndPush(p) ==
    /\ p \in pending
    /\ \/ (Refuse \/ Discard) /\ UNCHANGED accepted
       \/ /\ Store(<<p, issued[p]>>)
          /\ accepted' = Append(accepted, <<p, issued[p]>>)
    /\ pending' = pending \ {p}
    /\ UNCHANGED <<issued, delivered>>

EndPop(c) ==
    /\ c \in pending
    /\ \/ Drained /\ UNCHANGED delivered
       \/ Take(Head(items)) /\ delivered' = Append(delivered, Head(items))
    /\ pending' = pending \ {c}
    /\ UNCHANGED <<issued, accepted>>

Close == Shut /\ UNCHANGED <<issued, pending, accepted, delivered>>

Next ==
    \/ \E p \in Producers : BeginPush(p) \/ EndPush(p)
    \/ \E c \in Consumers : BeginPop(c) \/ EndPop(c)
    \/ Close

SafeSpec == Init /\ [][Next]_qvars

\* A call that may return does return.
Spec ==
    /\ SafeSpec
    /\ \A p \in Producers : WF_qvars(EndPush(p))
    /\ \A c \in Consumers : WF_qvars(EndPop(c))
=============================================================================
