---------------------------- MODULE QueueState ----------------------------
(***************************************************************************)
(* The data of one vehicle::infra::BlockingQueue<T> and what each of its   *)
(* critical sections does to it.  Every member is read and written under   *)
(* mutex_, so a critical section is one step.  The condition variables are *)
(* not here: BlockingQueue adds them, and shows that a caller may be taken *)
(* to wait for PushMayProceed or PopMayProceed.                            *)
(***************************************************************************)
EXTENDS Naturals, Sequences

CONSTANT Capacity     \* capacity_, the constructor's argument; 0 is allowed

ASSUME CapacityAssumption == Capacity \in Nat

VARIABLES items,      \* items_
          closed      \* closed_

queue == <<items, closed>>

QueueInit ==
    /\ items = <<>>
    /\ closed = FALSE

\* Seeded faults, one per property they must break: push does not know about
\* a capacity of 0; a value goes to the wrong end; close drops the backlog.
PushMayProceedFault == closed \/ Len(items) < Capacity
StoreAtFrontFault(m) ==
    PushMayProceedFault /\ ~closed /\ items' = <<m>> \o items /\ UNCHANGED closed
ShutDroppingFault == closed' = TRUE /\ items' = <<>>

\* The predicates of notFull_.wait and of notEmpty_.wait.
PushMayProceed == closed \/ Capacity = 0 \/ Len(items) < Capacity
PopMayProceed  == closed \/ items # <<>>

\* The three ways out of push: false, true without keeping the value, true.
Refuse  == PushMayProceed /\ closed /\ UNCHANGED queue
Discard == PushMayProceed /\ ~closed /\ Capacity = 0 /\ UNCHANGED queue
Store(m) ==
    /\ PushMayProceed
    /\ ~closed
    /\ Capacity # 0
    /\ items' = Append(items, m)
    /\ UNCHANGED closed

\* The two ways out of pop: nullopt, or the oldest value.  A closed queue
\* still hands out what it holds.
Drained == PopMayProceed /\ items = <<>> /\ UNCHANGED queue
Take(m) ==
    /\ PopMayProceed
    /\ items # <<>>
    /\ m = Head(items)
    /\ items' = Tail(items)
    /\ UNCHANGED closed

Shut == closed' = TRUE /\ UNCHANGED items
=============================================================================
