--------------------------- MODULE BlockingQueue ---------------------------
(***************************************************************************)
(* vehicle::infra::BlockingQueue<T>: push, pop and close, with the two     *)
(* condition variables.  A thread inside a call is running (it has, or is  *)
(* contending for, mutex_) or waiting (blocked in notFull_ if it is a      *)
(* producer, in notEmpty_ if it is a consumer).  One step is one critical  *)
(* section: from the acquisition of mutex_ to its release by the return or *)
(* by the wait.                                                            *)
(***************************************************************************)
EXTENDS QueueState, FiniteSets

CONSTANTS Producers, Consumers,   \* the threads that push, and that pop
          MaxCalls                \* bound: push calls made by one producer

ASSUME ThreadsAssumption ==
    /\ IsFiniteSet(Producers)
    /\ IsFiniteSet(Consumers)
    /\ Producers \cap Consumers = {}

Threads == Producers \cup Consumers
Message == Producers \X Nat       \* the n-th value that p pushes is <<p, n>>

VARIABLES issued,      \* issued[p]: push calls that p has begun
          running,     \* threads in a call and not blocked in a wait
          waiting,     \* threads blocked in a wait
          accepted,    \* history: the values stored, in the order of storing
          delivered    \* history: the values returned by pop, in that order

vars == <<items, closed, issued, running, waiting, accepted, delivered>>

Init ==
    /\ QueueInit
    /\ issued = [p \in Producers |-> 0]
    /\ running = {}
    /\ waiting = {}
    /\ accepted = <<>>
    /\ delivered = <<>>

(***************************************************************************)
(* notify_one wakes some thread blocked in that condition variable, if     *)
(* there is one; notify_all wakes all of them.                             *)
(***************************************************************************)
NotifyOne(cv) == IF waiting \cap cv = {} THEN {{}}
                                         ELSE {{w} : w \in waiting \cap cv}
NotifyAllFault(cv) == NotifyOne(cv)      \* seeded: close uses notify_one
NotifyAll(cv) == {waiting \cap cv}

\* Seeded: a notified thread is not taken out of the wait set.
ReturnFault(t, woken) == running' = (running \ {t}) \cup woken /\ UNCHANGED waiting

\* t returns from its call and the threads of woken leave their wait.
Return(t, woken) ==
    /\ running' = (running \ {t}) \cup woken
    /\ waiting' = waiting \ woken

\* t blocks: its wait releases the mutex.
Block(t) ==
    /\ running' = running \ {t}
    /\ waiting' = waiting \cup {t}

----------------------------------------------------------------------------
CallPush(p) ==
    /\ p \notin running \cup waiting
    /\ issued[p] < MaxCalls
    /\ issued' = [issued EXCEPT ![p] = @ + 1]
    /\ running' = running \cup {p}
    /\ UNCHANGED <<items, closed, waiting, accepted, delivered>>

PushWaits(p) ==
    /\ p \in running
    /\ ~PushMayProceed
    /\ Block(p)
    /\ UNCHANGED <<items, closed, issued, accepted, delivered>>

PushReturnsUnstored(p) ==
    /\ p \in running
    /\ Refuse \/ Discard
    /\ Return(p, {})
    /\ UNCHANGED <<issued, accepted, delivered>>

\* Seeded: push_back notifies only when the queue was empty.
PushStoresFault(p) ==
    /\ p \in running
    /\ Store(<<p, issued[p]>>)
    /\ \E woken \in (IF items = <<>> THEN NotifyOne(Consumers) ELSE {{}}) : Return(p, woken)
    /\ accepted' = Append(accepted, <<p, issued[p]>>)
    /\ UNCHANGED <<issued, delivered>>

PushStores(p) ==
    /\ p \in running
    /\ Store(<<p, issued[p]>>)
    /\ \E woken \in NotifyOne(Consumers) : Return(p, woken)
    /\ accepted' = Append(accepted, <<p, issued[p]>>)
    /\ UNCHANGED <<issued, delivered>>

CallPop(c) ==
    /\ c \notin running \cup waiting
    /\ running' = running \cup {c}
    /\ UNCHANGED <<items, closed, issued, waiting, accepted, delivered>>

PopWaits(c) ==
    /\ c \in running
    /\ ~PopMayProceed
    /\ Block(c)
    /\ UNCHANGED <<items, closed, issued, accepted, delivered>>

\* Seeded: a closed queue hands out nothing, its backlog is dropped.
PopReturnsNothingFault(c) ==
    c \in running /\ closed /\ UNCHANGED queue /\ Return(c, {})
    /\ UNCHANGED <<issued, accepted, delivered>>

PopReturnsNothing(c) ==
    /\ c \in running
    /\ Drained
    /\ Return(c, {})
    /\ UNCHANGED <<issued, accepted, delivered>>

\* Seeded: pop_front notifies only when the queue was full.
PopTakesFault(c) ==
    /\ c \in running
    /\ Take(Head(items))
    /\ \E woken \in (IF Len(items) = Capacity THEN NotifyOne(Producers) ELSE {{}}) : Return(c, woken)
    /\ delivered' = Append(delivered, Head(items))
    /\ UNCHANGED <<issued, accepted>>

PopTakes(c) ==
    /\ c \in running
    /\ Take(Head(items))
    /\ \E woken \in NotifyOne(Producers) : Return(c, woken)
    /\ delivered' = Append(delivered, Head(items))
    /\ UNCHANGED <<issued, accepted>>

\* close() may be called by anybody and more than once: the pipeline closes
\* its frame queue from the capture thread and from the main thread.
Close ==
    /\ Shut
    /\ \E woken \in {c \cup p : c \in NotifyAll(Consumers), p \in NotifyAll(Producers)} :
         /\ running' = running \cup woken
         /\ waiting' = waiting \ woken
    /\ UNCHANGED <<issued, accepted, delivered>>

\* A wait may end without any notification; the predicate is then tested
\* again, which is what a running thread does.
SpuriousWakeup(t) ==
    /\ t \in waiting
    /\ running' = running \cup {t}
    /\ waiting' = waiting \ {t}
    /\ UNCHANGED <<items, closed, issued, accepted, delivered>>

Push(p) == PushWaits(p) \/ PushReturnsUnstored(p) \/ PushStores(p)
Pop(c)  == PopWaits(c) \/ PopReturnsNothing(c) \/ PopTakes(c)

Next ==
    \/ \E p \in Producers : CallPush(p) \/ Push(p)
    \/ \E c \in Consumers : CallPop(c) \/ Pop(c)
    \/ Close
    \/ \E t \in Threads : SpuriousWakeup(t)

SafeSpec == Init /\ [][Next]_vars

(***************************************************************************)
(* A thread that is not blocked gets the mutex: no critical section of     *)
(* this class waits for anything else while it holds it.                   *)
(***************************************************************************)
Spec ==
    /\ SafeSpec
    /\ \A p \in Producers : WF_vars(Push(p))
    /\ \A c \in Consumers : WF_vars(Pop(c))

\* The two consumers of the program (the pipeline's main loop and the
\* telemetry worker) call pop again as soon as they have used a value.
ConsumingSpec == Spec /\ \A c \in Consumers : WF_vars(CallPop(c))

----------------------------------------------------------------------------
TypeOK ==
    /\ items \in Seq(Message)
    /\ closed \in BOOLEAN
    /\ issued \in [Producers -> Nat]
    /\ running \subseteq Threads
    /\ waiting \subseteq Threads
    /\ running \cap waiting = {}
    /\ accepted \in Seq(Message)
    /\ delivered \in Seq(Message)

\* Nothing is lost, duplicated or reordered between push and pop: the values
\* handed out followed by those still held are the values accepted
\* (items_.push_back, items_.front, items_.pop_front).
FifoOrder == accepted = delivered \o items

\* However pushes and wake-ups interleave, the queue never holds more than
\* capacity_ values: the predicate of notFull_ is tested again after a wait.
Bounded == Len(items) <= Capacity

\* No consumer sleeps while there is work for it: when one is blocked in
\* notEmpty_, the queue is open and every stored value has a consumer of its
\* own already on its way (one notify_one per push_back is enough).
NoConsumerForgotten ==
    waiting \cap Consumers # {} =>
        /\ ~closed
        /\ Len(items) <= Cardinality(running \cap Consumers)

\* The same for the producers blocked in notFull_: every free slot has a
\* producer of its own on its way (one notify_one per pop_front is enough).
NoProducerForgotten ==
    waiting \cap Producers # {} =>
        /\ ~closed
        /\ Capacity - Len(items) <= Cardinality(running \cap Producers)

\* Each producer's values are accepted in the order in which it pushed them,
\* each once; what a refusal or a capacity of 0 dropped is missing, not late.
AcceptedInCallOrder ==
    \A i, j \in DOMAIN accepted :
        i < j /\ accepted[i][1] = accepted[j][1] => accepted[i][2] < accepted[j][2]

\* close() lets every call that is in progress, blocked or not, return.
CloseReleasesEveryone ==
    \A t \in Threads : (closed /\ t \in running \cup waiting) ~> (t \notin running \cup waiting)

\* While the consumers keep calling pop(), every accepted value is delivered,
\* whether the queue is closed in the meantime or not.
AcceptedIsDelivered ==
    \A p \in Producers, n \in 1..MaxCalls :
        (\E i \in DOMAIN accepted : accepted[i] = <<p, n>>)
            ~> (\E i \in DOMAIN delivered : delivered[i] = <<p, n>>)

\* With a capacity of 0 (--mqtt-queue-size 0) a push returns although nobody
\* pops: it reports success and keeps nothing.  With a positive capacity this
\* needs the consumers.
PushReturns ==
    \A p \in Producers : p \in running \cup waiting ~> p \notin running \cup waiting

----------------------------------------------------------------------------
\* Where the waits are hidden a call is just pending.
Abstract == INSTANCE ClosableQueue WITH pending <- running \cup waiting

ImplementsClosableQueue == Abstract!Spec
=============================================================================
