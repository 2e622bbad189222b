------------------------ MODULE BlockingQueueProofs ------------------------
(***************************************************************************)
(* Theorems about BlockingQueue for every finite set of producers and of   *)
(* consumers, every capacity (0 included) and every bound on the calls.    *)
(***************************************************************************)
EXTENDS BlockingQueue, FiniteSetTheorems, SequenceTheorems, TLAPS

(***************************************************************************)
(* The sets a notification may wake are sets of blocked threads.           *)
(***************************************************************************)
LEMMA NotifyWakesWaiting ==
    ASSUME NEW cv, NEW woken \in NotifyOne(cv)
    PROVE  /\ woken \subseteq waiting \cap cv
           /\ waiting \cap cv # {} => \E w \in waiting \cap cv : woken = {w}
BY DEF NotifyOne

(***************************************************************************)
(* A woken thread is counted among the running ones of its kind.           *)
(***************************************************************************)
LEMMA CountOneMore ==
    ASSUME NEW R, NEW K, NEW w \in K, IsFiniteSet(K), w \notin R
    PROVE  Cardinality((R \cup {w}) \cap K) = Cardinality(R \cap K) + 1
<1>1. IsFiniteSet(R \cap K)
  BY FS_Subset, R \cap K \in SUBSET K
<1>2. (R \cup {w}) \cap K = (R \cap K) \cup {w}
  OBVIOUS
<1> QED
  BY <1>1, <1>2, FS_AddElement

LEMMA CountOneLess ==
    ASSUME NEW R, NEW K, NEW t \in R \cap K, IsFiniteSet(K)
    PROVE  Cardinality((R \ {t}) \cap K) = Cardinality(R \cap K) - 1
<1>1. IsFiniteSet(R \cap K)
  BY FS_Subset, R \cap K \in SUBSET K
<1>2. (R \ {t}) \cap K = (R \cap K) \ {t}
  OBVIOUS
<1> QED
  BY <1>1, <1>2, FS_RemoveElement

(***************************************************************************)
(* A set of threads counts no fewer when threads are added to it.          *)
(***************************************************************************)
LEMMA CountMonotone ==
    ASSUME NEW R, NEW Q, NEW K, IsFiniteSet(K), R \cap K \subseteq Q \cap K
    PROVE  /\ Cardinality(R \cap K) \in Nat
           /\ Cardinality(Q \cap K) \in Nat
           /\ Cardinality(R \cap K) <= Cardinality(Q \cap K)
<1>1. IsFiniteSet(Q \cap K) /\ IsFiniteSet(R \cap K)
  BY FS_Subset, R \cap K \in SUBSET K, Q \cap K \in SUBSET K
<1> QED
  BY <1>1, FS_Subset, FS_CardinalityType, R \cap K \in SUBSET (Q \cap K)

----------------------------------------------------------------------------
(***************************************************************************)
(* Every step keeps the types; in particular a thread is never both        *)
(* running and blocked, and the queue only holds values that were pushed.  *)
(***************************************************************************)
LEMMA TypeStep == TypeOK /\ [Next]_vars => TypeOK'
<1> SUFFICES ASSUME TypeOK, [Next]_vars PROVE TypeOK'
  OBVIOUS
<1> USE DEF TypeOK, Threads
<1>1. ASSUME NEW p \in Producers, CallPush(p) PROVE TypeOK'
  BY <1>1 DEF CallPush
<1>2. ASSUME NEW p \in Producers, PushWaits(p) PROVE TypeOK'
  BY <1>2 DEF PushWaits, Block
<1>3. ASSUME NEW p \in Producers, PushReturnsUnstored(p) PROVE TypeOK'
  BY <1>3 DEF PushReturnsUnstored, Return, Refuse, Discard, queue
<1>4. ASSUME NEW p \in Producers, PushStores(p) PROVE TypeOK'
  <2>1. <<p, issued[p]>> \in Message
    BY DEF Message
  <2>2. items' \in Seq(Message) /\ accepted' \in Seq(Message)
    BY <1>4, <2>1, AppendProperties DEF PushStores, Store
  <2>3. PICK woken \in NotifyOne(Consumers) : Return(p, woken)
    BY <1>4 DEF PushStores
  <2>4. woken \subseteq waiting
    BY NotifyWakesWaiting
  <2> QED
    BY <1>4, <2>2, <2>3, <2>4 DEF PushStores, Store, Return
<1>5. ASSUME NEW c \in Consumers, CallPop(c) PROVE TypeOK'
  BY <1>5 DEF CallPop
<1>6. ASSUME NEW c \in Consumers, PopWaits(c) PROVE TypeOK'
  BY <1>6 DEF PopWaits, Block
<1>7. ASSUME NEW c \in Consumers, PopReturnsNothing(c) PROVE TypeOK'
  BY <1>7 DEF PopReturnsNothing, Return, Drained, queue
<1>8. ASSUME NEW c \in Consumers, PopTakes(c) PROVE TypeOK'
  <2>1. items # <<>>
    BY <1>8 DEF PopTakes, Take
  <2>2. Head(items) \in Message /\ Tail(items) \in Seq(Message)
    BY <2>1, HeadTailProperties
  <2>3. items' \in Seq(Message) /\ delivered' \in Seq(Message)
    BY <1>8, <2>2, AppendProperties DEF PopTakes, Take
  <2>4. PICK woken \in NotifyOne(Producers) : Return(c, woken)
    BY <1>8 DEF PopTakes
  <2>5. woken \subseteq waiting
    BY NotifyWakesWaiting
  <2> QED
    BY <1>8, <2>3, <2>4, <2>5 DEF PopTakes, Take, Return
<1>9. CASE Close
  BY <1>9 DEF Close, Shut, NotifyAll
<1>10. ASSUME NEW t \in Threads, SpuriousWakeup(t) PROVE TypeOK'
  BY <1>10 DEF SpuriousWakeup
<1>11. CASE UNCHANGED vars
  BY <1>11 DEF vars
<1> QED
  BY <1>1, <1>2, <1>3, <1>4, <1>5, <1>6, <1>7, <1>8, <1>9, <1>10, <1>11
     DEF Next, Push, Pop

LEMMA TypeInit == Init => TypeOK
<1> SUFFICES ASSUME Init PROVE TypeOK
  OBVIOUS
<1>1. items \in Seq(Message) /\ accepted \in Seq(Message) /\ delivered \in Seq(Message)
  BY EmptySeq DEF Init, QueueInit
<1>2. closed \in BOOLEAN /\ issued \in [Producers -> Nat]
  BY DEF Init, QueueInit
<1> QED
  BY <1>1, <1>2 DEF Init, TypeOK

(***************************************************************************)
(* The type invariant of BlockingQueue, whatever the sets of threads.      *)
(***************************************************************************)
THEOREM TypeCorrect == SafeSpec => []TypeOK
BY TypeInit, TypeStep, PTL DEF SafeSpec

----------------------------------------------------------------------------
(***************************************************************************)
(* Whatever the interleaving, what was accepted is what was delivered      *)
(* followed by what is still held.                                         *)
(***************************************************************************)
LEMMA FifoStep == TypeOK /\ FifoOrder /\ [Next]_vars => FifoOrder'
<1> SUFFICES ASSUME TypeOK, FifoOrder, [Next]_vars PROVE FifoOrder'
  OBVIOUS
<1> USE DEF FifoOrder
<1>1. ASSUME NEW p \in Producers, PushStores(p) PROVE FifoOrder'
  <2> DEFINE m == <<p, issued[p]>>
  <2>1. m \in Message /\ <<m>> \in Seq(Message)
    BY DEF Message, TypeOK
  <2>2. accepted' = accepted \o <<m>> /\ items' = items \o <<m>> /\ delivered' = delivered
    BY <1>1, <2>1, AppendIsConcat DEF PushStores, Store, TypeOK
  <2>3. (delivered \o items) \o <<m>> = delivered \o (items \o <<m>>)
    BY <2>1, ConcatAssociative DEF TypeOK
  <2> QED
    BY <2>2, <2>3
<1>2. ASSUME NEW c \in Consumers, PopTakes(c) PROVE FifoOrder'
  <2> DEFINE h == Head(items)
  <2>1. items # <<>>
    BY <1>2 DEF PopTakes, Take
  <2>2. h \in Message /\ <<h>> \in Seq(Message) /\ Tail(items) \in Seq(Message)
    BY <2>1, HeadTailProperties DEF TypeOK
  <2>3. items = <<h>> \o Tail(items)
    BY <2>1, <2>2 DEF TypeOK
  <2>4. accepted' = accepted /\ items' = Tail(items) /\ delivered' = delivered \o <<h>>
    BY <1>2, <2>2, AppendIsConcat DEF PopTakes, Take, TypeOK
  <2>5. delivered \o (<<h>> \o Tail(items)) = (delivered \o <<h>>) \o Tail(items)
    BY <2>2, ConcatAssociative DEF TypeOK
  <2> QED
    BY <2>3, <2>4, <2>5
<1>3. ASSUME UNCHANGED <<items, accepted, delivered>> PROVE FifoOrder'
  BY <1>3
<1> QED
  BY <1>1, <1>2, <1>3
     DEF Next, Push, Pop, CallPush, CallPop, PushWaits, PushReturnsUnstored, PopWaits,
         PopReturnsNothing, Close, SpuriousWakeup, Refuse, Discard, Drained, Shut,
         queue, vars

(***************************************************************************)
(* First in, first out, nothing lost and nothing delivered twice.          *)
(***************************************************************************)
THEOREM FifoCorrect == SafeSpec => []FifoOrder
<1>1. Init => FifoOrder
  BY EmptySeq, ConcatEmptySeq DEF Init, QueueInit, FifoOrder
<1> QED
  BY <1>1, FifoStep, TypeCorrect, PTL DEF SafeSpec

----------------------------------------------------------------------------
(***************************************************************************)
(* The queue never exceeds its capacity.                                   *)
(***************************************************************************)
LEMMA BoundedStep == TypeOK /\ Bounded /\ [Next]_vars => Bounded'
<1> SUFFICES ASSUME TypeOK, Bounded, [Next]_vars PROVE Bounded'
  OBVIOUS
<1> USE CapacityAssumption DEF Bounded
<1>0. Len(items) \in Nat
  BY LenProperties DEF TypeOK
<1>1. ASSUME NEW p \in Producers, PushStores(p) PROVE Bounded'
  <2>1. Len(items) < Capacity
    BY <1>1 DEF PushStores, Store, PushMayProceed
  <2>2. <<p, issued[p]>> \in Message
    BY DEF Message, TypeOK
  <2>3. Len(items') = Len(items) + 1
    BY <1>1, <2>2, AppendProperties DEF PushStores, Store, TypeOK
  <2> QED
    BY <1>0, <2>1, <2>3
<1>2. ASSUME NEW c \in Consumers, PopTakes(c) PROVE Bounded'
  <2>1. Len(items') = Len(items) - 1
    BY <1>2, HeadTailProperties DEF PopTakes, Take, TypeOK
  <2> QED
    BY <1>0, <2>1
<1>3. ASSUME UNCHANGED items PROVE Bounded'
  BY <1>3
<1> QED
  BY <1>1, <1>2, <1>3
     DEF Next, Push, Pop, CallPush, CallPop, PushWaits, PushReturnsUnstored, PopWaits,
         PopReturnsNothing, Close, SpuriousWakeup, Refuse, Discard, Drained, Shut,
         queue, vars

THEOREM BoundedCorrect == SafeSpec => []Bounded
<1>1. Init => Bounded
  BY CapacityAssumption, EmptySeq DEF Init, QueueInit, Bounded
<1> QED
  BY <1>1, BoundedStep, TypeCorrect, PTL DEF SafeSpec

----------------------------------------------------------------------------
(***************************************************************************)
(* One notify_one per push_back: each wake-up that a blocked consumer is   *)
(* still owed is matched by a consumer that is already running.            *)
(***************************************************************************)
LEMMA ConsumerStep == TypeOK /\ NoConsumerForgotten /\ [Next]_vars => NoConsumerForgotten'
<1> SUFFICES ASSUME TypeOK, NoConsumerForgotten, [Next]_vars,
                    waiting' \cap Consumers # {}
             PROVE  ~closed' /\ Len(items') <= Cardinality(running' \cap Consumers)
  BY DEF NoConsumerForgotten
<1> DEFINE Goal == ~closed' /\ Len(items') <= Cardinality(running' \cap Consumers)
<1> USE ThreadsAssumption
<1>0. Len(items) \in Nat /\ Cardinality(running \cap Consumers) \in Nat
  BY LenProperties, CountMonotone DEF TypeOK
<1>1. ASSUME UNCHANGED <<items, closed>>, waiting' \cap Consumers \subseteq waiting,
             running \cap Consumers \subseteq running'
      PROVE  Goal
  <2>1. Cardinality(running \cap Consumers) <= Cardinality(running' \cap Consumers)
         /\ Cardinality(running' \cap Consumers) \in Nat
    BY <1>1, CountMonotone
  <2>2. ~closed /\ Len(items) <= Cardinality(running \cap Consumers)
    BY <1>1 DEF NoConsumerForgotten
  <2> QED
    BY <1>0, <1>1, <2>1, <2>2
<1>2. ASSUME NEW p \in Producers, CallPush(p) PROVE Goal
  BY <1>1, <1>2 DEF CallPush
<1>3. ASSUME NEW p \in Producers, PushWaits(p) PROVE Goal
  BY <1>1, <1>3 DEF PushWaits, Block
<1>4. ASSUME NEW p \in Producers, PushReturnsUnstored(p) PROVE Goal
  BY <1>1, <1>4 DEF PushReturnsUnstored, Return, Refuse, Discard, queue
<1>5. ASSUME NEW p \in Producers, PushStores(p) PROVE Goal
  <2>1. PICK woken \in NotifyOne(Consumers) : Return(p, woken)
    BY <1>5 DEF PushStores
  <2>2. waiting \cap Consumers # {}
    BY <2>1 DEF Return
  <2>3. PICK w \in waiting \cap Consumers : woken = {w}
    BY <2>1, <2>2, NotifyWakesWaiting
  <2>4. running' \cap Consumers = (running \cup {w}) \cap Consumers
    BY <2>1, <2>3 DEF Return
  <2>5. Cardinality(running' \cap Consumers) = Cardinality(running \cap Consumers) + 1
    <3>1. w \in Consumers /\ w \notin running /\ IsFiniteSet(Consumers)
      BY DEF TypeOK
    <3> QED
      BY <3>1, <2>4, CountOneMore
  <2>6. Len(items') = Len(items) + 1 /\ ~closed'
    <3>1. <<p, issued[p]>> \in Message
      BY DEF Message, TypeOK
    <3> QED
      BY <1>5, <3>1, AppendProperties DEF PushStores, Store, TypeOK
  <2> QED
    BY <1>0, <2>2, <2>5, <2>6 DEF NoConsumerForgotten
<1>6. ASSUME NEW c \in Consumers, CallPop(c) PROVE Goal
  BY <1>1, <1>6 DEF CallPop
<1>7. ASSUME NEW c \in Consumers, PopWaits(c) PROVE Goal
  <2>1. ~closed' /\ items' = <<>>
    BY <1>7 DEF PopWaits, PopMayProceed
  <2>2. Cardinality(running' \cap Consumers) \in Nat /\ Len(items') = 0
    BY <2>1, CountMonotone, EmptySeq
  <2> QED
    BY <2>1, <2>2
<1>8. ASSUME NEW c \in Consumers, PopReturnsNothing(c) PROVE Goal
  <2>1. closed /\ waiting' = waiting
    BY <1>8 DEF PopReturnsNothing, Drained, PopMayProceed, Return
  <2> QED
    BY <2>1 DEF NoConsumerForgotten
<1>9. ASSUME NEW c \in Consumers, PopTakes(c) PROVE Goal
  <2>1. PICK woken \in NotifyOne(Producers) : Return(c, woken)
    BY <1>9 DEF PopTakes
  <2>2. woken \subseteq waiting \cap Producers
    BY NotifyWakesWaiting
  <2>3. running' \cap Consumers = (running \ {c}) \cap Consumers
    BY <2>1, <2>2 DEF Return
  <2>4. Cardinality(running' \cap Consumers) = Cardinality(running \cap Consumers) - 1
    <3>1. c \in running \cap Consumers
      BY <1>9 DEF PopTakes
    <3> QED
      BY <3>1, <2>3, CountOneLess
  <2>5. Len(items') = Len(items) - 1 /\ closed' = closed
    BY <1>9, HeadTailProperties DEF PopTakes, Take, TypeOK
  <2>6. waiting \cap Consumers # {}
    BY <2>1 DEF Return
  <2> QED
    BY <1>0, <2>4, <2>5, <2>6 DEF NoConsumerForgotten
<1>10. CASE Close
  BY <1>10 DEF Close, NotifyAll
<1>11. ASSUME NEW t \in Threads, SpuriousWakeup(t) PROVE Goal
  BY <1>1, <1>11 DEF SpuriousWakeup
<1>12. CASE UNCHANGED vars
  BY <1>1, <1>12 DEF vars
<1> QED
  BY <1>2, <1>3, <1>4, <1>5, <1>6, <1>7, <1>8, <1>9, <1>10, <1>11, <1>12
     DEF Next, Push, Pop

(***************************************************************************)
(* No stored value ever lies in the queue while the only consumer that     *)
(* could take it sleeps in notEmpty_, and nobody sleeps there after close. *)
(***************************************************************************)
THEOREM NoConsumerForgottenCorrect == SafeSpec => []NoConsumerForgotten
<1>1. Init => NoConsumerForgotten
  BY DEF Init, NoConsumerForgotten
<1> QED
  BY <1>1, ConsumerStep, TypeCorrect, PTL DEF SafeSpec

----------------------------------------------------------------------------
(***************************************************************************)
(* The same argument for the producers, counting free slots.               *)
(***************************************************************************)
LEMMA ProducerStep == TypeOK /\ NoProducerForgotten /\ [Next]_vars => NoProducerForgotten'
<1> SUFFICES ASSUME TypeOK, NoProducerForgotten, [Next]_vars,
                    waiting' \cap Producers # {}
             PROVE  ~closed' /\ Capacity - Len(items') <= Cardinality(running' \cap Producers)
  BY DEF NoProducerForgotten
<1> DEFINE Goal == ~closed' /\ Capacity - Len(items') <= Cardinality(running' \cap Producers)
<1> USE ThreadsAssumption, CapacityAssumption
<1>0. Len(items) \in Nat /\ Cardinality(running \cap Producers) \in Nat
  BY LenProperties, CountMonotone DEF TypeOK
<1>1. ASSUME UNCHANGED <<items, closed>>, waiting' \cap Producers \subseteq waiting,
             running \cap Producers \subseteq running'
      PROVE  Goal
  <2>1. Cardinality(running \cap Producers) <= Cardinality(running' \cap Producers)
         /\ Cardinality(running' \cap Producers) \in Nat
    BY <1>1, CountMonotone
  <2>2. ~closed /\ Capacity - Len(items) <= Cardinality(running \cap Producers)
    BY <1>1 DEF NoProducerForgotten
  <2> QED
    BY <1>0, <1>1, <2>1, <2>2
<1>2. ASSUME NEW p \in Producers, CallPush(p) PROVE Goal
  BY <1>1, <1>2 DEF CallPush
<1>3. ASSUME NEW p \in Producers, PushWaits(p) PROVE Goal
  <2>1. ~closed' /\ Capacity - Len(items') <= 0
    BY <1>0, <1>3 DEF PushWaits, PushMayProceed
  <2>2. Cardinality(running' \cap Producers) \in Nat
    BY CountMonotone
  <2>3. Len(items') \in Nat
    BY <1>0, <1>3 DEF PushWaits
  <2> QED
    BY <2>1, <2>2, <2>3
<1>4. ASSUME NEW p \in Producers, PushReturnsUnstored(p) PROVE Goal
  <2>1. closed \/ Capacity = 0
    BY <1>4 DEF PushReturnsUnstored, Refuse, Discard
  <2>2. waiting' = waiting /\ UNCHANGED <<items, closed>>
    BY <1>4 DEF PushReturnsUnstored, Refuse, Discard, Return, queue
  <2>3. CASE closed
    BY <2>2, <2>3 DEF NoProducerForgotten
  <2>4. CASE Capacity = 0 /\ ~closed
    <3>1. Cardinality(running' \cap Producers) \in Nat
      BY CountMonotone
    <3> QED
      BY <1>0, <2>2, <2>4, <3>1
  <2> QED
    BY <2>1, <2>3, <2>4
<1>5. ASSUME NEW p \in Producers, PushStores(p) PROVE Goal
  <2>1. PICK woken \in NotifyOne(Consumers) : Return(p, woken)
    BY <1>5 DEF PushStores
  <2>2. woken \subseteq waiting \cap Consumers
    BY NotifyWakesWaiting
  <2>3. running' \cap Producers = (running \ {p}) \cap Producers
    BY <2>1, <2>2 DEF Return
  <2>4. Cardinality(running' \cap Producers) = Cardinality(running \cap Producers) - 1
    <3>1. p \in running \cap Producers
      BY <1>5 DEF PushStores
    <3> QED
      BY <3>1, <2>3, CountOneLess
  <2>5. Len(items') = Len(items) + 1 /\ closed' = closed
    <3>1. <<p, issued[p]>> \in Message
      BY DEF Message, TypeOK
    <3> QED
      BY <1>5, <3>1, AppendProperties DEF PushStores, Store, TypeOK
  <2>6. waiting \cap Producers # {}
    BY <2>1 DEF Return
  <2> QED
    BY <1>0, <2>4, <2>5, <2>6 DEF NoProducerForgotten
<1>6. ASSUME NEW c \in Consumers, CallPop(c) PROVE Goal
  BY <1>1, <1>6 DEF CallPop
<1>7. ASSUME NEW c \in Consumers, PopWaits(c) PROVE Goal
  BY <1>1, <1>7 DEF PopWaits, Block
<1>8. ASSUME NEW c \in Consumers, PopReturnsNothing(c) PROVE Goal
  BY <1>1, <1>8 DEF PopReturnsNothing, Return, Drained, queue
<1>9. ASSUME NEW c \in Consumers, PopTakes(c) PROVE Goal
  <2>1. PICK woken \in NotifyOne(Producers) : Return(c, woken)
    BY <1>9 DEF PopTakes
  <2>2. waiting \cap Producers # {}
    BY <2>1 DEF Return
  <2>3. PICK w \in waiting \cap Producers : woken = {w}
    BY <2>1, <2>2, NotifyWakesWaiting
  <2>4. running' \cap Producers = (running \cup {w}) \cap Producers
    BY <2>1, <2>3 DEF Return
  <2>5. Cardinality(running' \cap Producers) = Cardinality(running \cap Producers) + 1
    <3>1. w \in Producers /\ w \notin running /\ IsFiniteSet(Producers)
      BY DEF TypeOK
    <3> QED
      BY <3>1, <2>4, CountOneMore
  <2>6. Len(items') = Len(items) - 1 /\ closed' = closed
    BY <1>9, HeadTailProperties DEF PopTakes, Take, TypeOK
  <2> QED
    BY <1>0, <2>2, <2>5, <2>6 DEF NoProducerForgotten
<1>10. CASE Close
  BY <1>10 DEF Close, NotifyAll
<1>11. ASSUME NEW t \in Threads, SpuriousWakeup(t) PROVE Goal
  BY <1>1, <1>11 DEF SpuriousWakeup
<1>12. CASE UNCHANGED vars
  BY <1>1, <1>12 DEF vars
<1> QED
  BY <1>2, <1>3, <1>4, <1>5, <1>6, <1>7, <1>8, <1>9, <1>10, <1>11, <1>12
     DEF Next, Push, Pop

(***************************************************************************)
(* No producer sleeps in notFull_ beside a free slot nobody is about to    *)
(* use, nor after close.                                                   *)
(***************************************************************************)
THEOREM NoProducerForgottenCorrect == SafeSpec => []NoProducerForgotten
<1>1. Init => NoProducerForgotten
  BY DEF Init, NoProducerForgotten
<1> QED
  BY <1>1, ProducerStep, TypeCorrect, PTL DEF SafeSpec

----------------------------------------------------------------------------
(***************************************************************************)
(* AcceptedInCallOrder made inductive: a producer's accepted values are    *)
(* numbered below the call it is in.                                       *)
(***************************************************************************)
CallOrderInv ==
    /\ AcceptedInCallOrder
    /\ \A i \in DOMAIN accepted :
          /\ accepted[i][2] <= issued[accepted[i][1]]
          /\ accepted[i][1] \in running \cup waiting =>
                accepted[i][2] < issued[accepted[i][1]]

LEMMA CallOrderStep == TypeOK /\ CallOrderInv /\ [Next]_vars => CallOrderInv'
<1> SUFFICES ASSUME TypeOK, CallOrderInv, [Next]_vars PROVE CallOrderInv'
  OBVIOUS
<1> USE DEF CallOrderInv, AcceptedInCallOrder
<1>0. \A i \in DOMAIN accepted : accepted[i][1] \in Producers /\ accepted[i][2] \in Nat
  BY ElementOfSeq, LenProperties DEF TypeOK, Message
<1>1. ASSUME UNCHANGED <<accepted, issued>>,
             running' \cup waiting' \subseteq (running \cup waiting) \cup Consumers
      PROVE  CallOrderInv'
  BY <1>0, <1>1, ThreadsAssumption
<1>2. ASSUME NEW p \in Producers, CallPush(p) PROVE CallOrderInv'
  <2>1. accepted' = accepted /\ waiting' = waiting /\ running' = running \cup {p}
    BY <1>2 DEF CallPush
  <2>2. issued' = [issued EXCEPT ![p] = @ + 1] /\ issued[p] \in Nat
    BY <1>2 DEF CallPush, TypeOK
  <2>3. \A q \in Producers : issued'[q] = IF q = p THEN issued[q] + 1 ELSE issued[q]
    BY <2>2 DEF TypeOK
  <2>4. \A q \in Producers : issued[q] \in Nat
    BY DEF TypeOK
  <2> QED
    BY <1>0, <2>1, <2>3, <2>4
<1>3. ASSUME NEW p \in Producers, PushStores(p) PROVE CallOrderInv'
  <2> DEFINE m == <<p, issued[p]>>
  <2>1. m \in Message /\ issued[p] \in Nat
    BY DEF Message, TypeOK
  <2>2. /\ Len(accepted') = Len(accepted) + 1
        /\ \A i \in 1..Len(accepted) : accepted'[i] = accepted[i]
        /\ accepted'[Len(accepted) + 1] = m
    BY <1>3, <2>1, AppendProperties DEF PushStores, TypeOK
  <2>3. DOMAIN accepted' = 1..(Len(accepted) + 1) /\ DOMAIN accepted = 1..Len(accepted)
    BY <1>3, <2>1, <2>2, AppendProperties, LenProperties DEF PushStores, TypeOK
  <2>4. Len(accepted) \in Nat
    BY LenProperties DEF TypeOK
  <2>5. issued' = issued /\ p \in running
    BY <1>3 DEF PushStores
  <2>6. PICK woken \in NotifyOne(Consumers) : Return(p, woken)
    BY <1>3 DEF PushStores
  <2>7. running' \cup waiting' \subseteq (running \cup waiting) \ {p}
    BY <2>5, <2>6, NotifyWakesWaiting, ThreadsAssumption DEF Return, TypeOK
  <2>8. \A i \in DOMAIN accepted : accepted[i][1] = p => accepted[i][2] < issued[p]
    BY <2>5
  <2>9. AcceptedInCallOrder'
    BY <1>0, <2>2, <2>3, <2>4, <2>8, m[1] = p, m[2] = issued[p]
  <2>10. ASSUME NEW i \in DOMAIN accepted'
         PROVE  /\ accepted'[i][2] <= issued'[accepted'[i][1]]
                /\ accepted'[i][1] \in running' \cup waiting' =>
                      accepted'[i][2] < issued'[accepted'[i][1]]
    <3>1. CASE i \in 1..Len(accepted)
      BY <2>2, <2>3, <2>5, <2>7, <3>1
    <3>2. CASE i = Len(accepted) + 1
      BY <2>1, <2>2, <2>5, <2>7, <3>2, m[1] = p, m[2] = issued[p]
    <3> QED
      BY <2>3, <2>4, <3>1, <3>2
  <2> QED
    BY <2>9, <2>10
<1>4. ASSUME NEW c \in Consumers, PopTakes(c) PROVE CallOrderInv'
  <2>1. PICK woken \in NotifyOne(Producers) : Return(c, woken)
    BY <1>4 DEF PopTakes
  <2>2. running' \cup waiting' \subseteq running \cup waiting
    BY <2>1, NotifyWakesWaiting DEF Return
  <2> QED
    BY <1>1, <1>4, <2>2 DEF PopTakes
<1>5. CASE Close
  BY <1>1, <1>5 DEF Close, NotifyAll
<1>6. ASSUME NEW p \in Producers, PushWaits(p) \/ PushReturnsUnstored(p) PROVE CallOrderInv'
  BY <1>1, <1>6 DEF PushWaits, PushReturnsUnstored, Block, Return
<1>7. ASSUME NEW c \in Consumers, CallPop(c) \/ PopWaits(c) \/ PopReturnsNothing(c)
      PROVE  CallOrderInv'
  BY <1>1, <1>7 DEF CallPop, PopWaits, PopReturnsNothing, Block, Return
<1>8. ASSUME NEW t \in Threads, SpuriousWakeup(t) PROVE CallOrderInv'
  BY <1>1, <1>8 DEF SpuriousWakeup
<1>9. CASE UNCHANGED vars
  BY <1>1, <1>9 DEF vars
<1> QED
  BY <1>2, <1>3, <1>4, <1>5, <1>6, <1>7, <1>8, <1>9 DEF Next, Push, Pop

(***************************************************************************)
(* Each producer's values are stored in the order of its calls, each once. *)
(***************************************************************************)
THEOREM CallOrderCorrect == SafeSpec => []AcceptedInCallOrder
<1>1. Init => CallOrderInv
  <2> SUFFICES ASSUME Init PROVE CallOrderInv
    OBVIOUS
  <2>1. DOMAIN accepted = {}
    BY EmptySeq DEF Init
  <2> QED
    BY <2>1 DEF CallOrderInv, AcceptedInCallOrder
<1>2. CallOrderInv => AcceptedInCallOrder
  BY DEF CallOrderInv
<1> QED
  BY <1>1, <1>2, CallOrderStep, TypeCorrect, PTL DEF SafeSpec

----------------------------------------------------------------------------
(***************************************************************************)
(* A step of BlockingQueue is a step of ClosableQueue, or only blocks or   *)
(* wakes threads and leaves the abstract state alone.                      *)
(***************************************************************************)
LEMMA RefinementStep == TypeOK /\ [Next]_vars => [Abstract!Next]_(Abstract!qvars)
<1> SUFFICES ASSUME TypeOK, [Next]_vars PROVE [Abstract!Next]_(Abstract!qvars)
  OBVIOUS
<1> DEFINE pending == running \cup waiting
           Same == UNCHANGED <<items, closed, issued, accepted, delivered>>
<1>1. ASSUME Same, pending' = pending PROVE UNCHANGED Abstract!qvars
  BY <1>1 DEF Abstract!qvars
<1>2. ASSUME NEW p \in Producers, CallPush(p) PROVE Abstract!BeginPush(p)
  BY <1>2 DEF CallPush, Abstract!BeginPush
<1>3. ASSUME NEW p \in Producers, PushWaits(p) PROVE UNCHANGED Abstract!qvars
  BY <1>1, <1>3 DEF PushWaits, Block
<1>4. ASSUME NEW t \in Threads, NEW woken \in SUBSET (waiting \ {t}), Return(t, woken),
             t \in running
      PROVE  pending' = pending \ {t}
  BY <1>4 DEF Return, TypeOK
<1>5. ASSUME NEW p \in Producers, PushReturnsUnstored(p) PROVE Abstract!EndPush(p)
  <2>1. pending' = pending \ {p}
    BY <1>4, <1>5 DEF PushReturnsUnstored, Threads
  <2> QED
    BY <1>5, <2>1 DEF PushReturnsUnstored, Refuse, Discard, queue, PushMayProceed,
       Abstract!EndPush, Abstract!Refuse, Abstract!Discard, Abstract!queue,
       Abstract!PushMayProceed
<1>6. ASSUME NEW p \in Producers, PushStores(p) PROVE Abstract!EndPush(p)
  <2>1. PICK woken \in NotifyOne(Consumers) : Return(p, woken)
    BY <1>6 DEF PushStores
  <2>2. woken \in SUBSET (waiting \ {p}) /\ p \in running
    BY <1>6, NotifyWakesWaiting DEF PushStores, TypeOK
  <2>3. pending' = pending \ {p}
    BY <1>4, <2>1, <2>2 DEF Threads
  <2> QED
    BY <1>6, <2>3 DEF PushStores, Store, PushMayProceed,
       Abstract!EndPush, Abstract!Store, Abstract!PushMayProceed
<1>7. ASSUME NEW c \in Consumers, CallPop(c) PROVE Abstract!BeginPop(c)
  BY <1>7 DEF CallPop, Abstract!BeginPop
<1>8. ASSUME NEW c \in Consumers, PopWaits(c) PROVE UNCHANGED Abstract!qvars
  BY <1>1, <1>8 DEF PopWaits, Block
<1>9. ASSUME NEW c \in Consumers, PopReturnsNothing(c) PROVE Abstract!EndPop(c)
  <2>1. pending' = pending \ {c}
    BY <1>4, <1>9 DEF PopReturnsNothing, Threads
  <2> QED
    BY <1>9, <2>1 DEF PopReturnsNothing, Drained, queue, PopMayProceed,
       Abstract!EndPop, Abstract!Drained, Abstract!queue, Abstract!PopMayProceed
<1>10. ASSUME NEW c \in Consumers, PopTakes(c) PROVE Abstract!EndPop(c)
  <2>1. PICK woken \in NotifyOne(Producers) : Return(c, woken)
    BY <1>10 DEF PopTakes
  <2>2. woken \in SUBSET (waiting \ {c}) /\ c \in running
    BY <1>10, NotifyWakesWaiting DEF PopTakes, TypeOK
  <2>3. pending' = pending \ {c}
    BY <1>4, <2>1, <2>2 DEF Threads
  <2> QED
    BY <1>10, <2>3 DEF PopTakes, Take, PopMayProceed,
       Abstract!EndPop, Abstract!Take, Abstract!PopMayProceed
<1>11. CASE Close
  <2>1. pending' = pending
    BY <1>11 DEF Close, NotifyAll
  <2> QED
    BY <1>11, <2>1 DEF Close, Shut, Abstract!Close, Abstract!Shut, Abstract!Next
<1>12. ASSUME NEW t \in Threads, SpuriousWakeup(t) PROVE UNCHANGED Abstract!qvars
  BY <1>1, <1>12 DEF SpuriousWakeup
<1>13. CASE UNCHANGED vars
  BY <1>1, <1>13 DEF vars
<1> QED
  BY <1>2, <1>3, <1>5, <1>6, <1>7, <1>8, <1>9, <1>10, <1>11, <1>12, <1>13
     DEF Next, Push, Pop, Abstract!Next

(***************************************************************************)
(* Safety half of ImplementsClosableQueue: with its waits and wake-ups     *)
(* hidden, the queue is the bounded, closable FIFO that the other modules  *)
(* use in its place.                                                       *)
(***************************************************************************)
THEOREM RefinesClosableQueue == SafeSpec => Abstract!SafeSpec
<1>1. Init => Abstract!Init
  BY DEF Init, QueueInit, Abstract!Init, Abstract!QueueInit
<1> QED
  BY <1>1, RefinementStep, TypeCorrect, PTL DEF SafeSpec, Abstract!SafeSpec
=============================================================================
